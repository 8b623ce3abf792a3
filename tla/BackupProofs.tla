---------------------------- MODULE BackupProofs ----------------------------
(* Proofs about what is backed up and restored: recovery archives and the     *)
(* database backups of projects, for any number of projects, backups and      *)
(* operations (first half), and releases of the production stack with its     *)
(* encrypted backups, for any number of releases, services, images, backups   *)
(* and keys (second half).                                                    *)
EXTENDS Recovery, ReleaseOps, TLAPS

-----------------------------------------------------------------------------
(* The archives.                                                              *)
(* The inductive invariant: what is true of one project at each step of the   *)
(* operation on it.                                                           *)
Matching(o) ==
  /\ o.kind = "backup"  => o.step \in Creating
  /\ o.kind = "preview" => o.step \in Creating \cup {"migrate", "start"}
  /\ o.kind = "restore" => o.step \in Creating \cup {"stop", "restore"}
  /\ o.kind = "export"  => o.step \in Creating \cup Exporting
  /\ o.kind = "import"  => o.step \in {"unpack", "database", "commit", "undo"}

(* Only an import works on a project that is not all there.                   *)
Steady(p) ==
  op[p] # None =>
    /\ Matching(op[p])
    /\ op[p].kind # "import" => row[p] /\ code[p] # None /\ store[p] # None
    /\ op[p].kind = "restore" => op[p].from \in Slots /\ meta[p][op[p].from] # None

DumpsMatch(p) == \A i \in Slots : meta[p][i] # None => dump[p][i] = meta[p][i]

(* The backup an operation takes first holds the database, except for what    *)
(* the application wrote since.                                               *)
Saved(p) == op[p].value # None /\ (op[p].wrote \/ op[p].value = store[p])
Safeguard(p) ==
  op[p] # None =>
    /\ op[p].step = "dump" => op[p].slot = None
    /\ op[p].step \in {"place", "seal"}
         => op[p].slot \in Slots /\ meta[p][op[p].slot] = None /\ Saved(p)
    /\ op[p].step = "seal" => dump[p][op[p].slot] = op[p].value
    /\ op[p].step \in {"migrate", "stop", "restore", "source", "digest"}
         => op[p].slot \in Slots /\ meta[p][op[p].slot] = op[p].value /\ Saved(p)

(* An import works beside what is listed, on files that match their digest.   *)
Importing(p) ==
  op[p] # None =>
    /\ op[p].step \in {"unpack", "database", "commit"} => ~row[p] /\ op[p].archive # None
    /\ op[p].step \in {"database", "commit"}
         => /\ code[p] = op[p].archive.code /\ snaps[p] = op[p].archive.versions
            /\ SameDigest(op[p].archive)
    /\ op[p].step = "commit" => store[p] = op[p].archive.data
    /\ op[p].step = "undo" => ~row[p] \/ p \in cut

(* An export packs one source, unless it was edited between the two reads.    *)
Packing(p) ==
  op[p] # None =>
    /\ op[p].kind = "export" => ~receipt[p]
    /\ op[p].step = "digest" => op[p].code # None /\ (p \in torn \/ op[p].code = code[p])
    /\ op[p].step \in {"pack", "encrypt", "receipt"}
         => op[p].archive # None /\ (p \in torn \/ SameDigest(op[p].archive))
    /\ op[p].step = "receipt" => sealed[p] # None

Listed(p) ==
  /\ row[p] /\ p \notin cut => /\ code[p] # None /\ store[p] # None
                               /\ versions[p] # {} /\ versions[p] \subseteq snaps[p]
  /\ row[p] => plan[p] # None
  /\ serving[p] => row[p]

Offered(p) ==
  /\ receipt[p] /\ p \notin cut => sealed[p] # None
  /\ sealed[p] # None /\ p \notin torn => SameDigest(sealed[p])
  /\ plain[p] /\ p \notin cut => op[p] # None /\ op[p].step \in Exporting

Good(p) ==
  /\ Steady(p) /\ DumpsMatch(p) /\ Safeguard(p) /\ Importing(p) /\ Packing(p)
  /\ Listed(p) /\ Offered(p)

IInv == TypeOK /\ \A p \in Projects : Good(p)

(* What the type invariant says at one project.                               *)
LEMMA Stands ==
  ASSUME TypeOK, NEW p \in Projects
  PROVE  /\ code[p] \in Codes \cup {None} /\ snaps[p] \in SUBSET Codes
         /\ store[p] \in Values \cup {None} /\ serving[p] \in BOOLEAN
         /\ dump[p] \in [Slots -> Values \cup {None}] /\ meta[p] \in [Slots -> Values \cup {None}]
         /\ plain[p] \in BOOLEAN /\ sealed[p] \in Archives \cup {None}
         /\ row[p] \in BOOLEAN /\ versions[p] \in SUBSET Codes
         /\ plan[p] \in PlanRows \cup {None} /\ receipt[p] \in BOOLEAN
         /\ op[p] \in Ops \cup {None}
BY DEF TypeOK

LEMMA OpFields ==
  ASSUME NEW o \in Ops
  PROVE  /\ o # None /\ o.kind \in Kinds /\ o.step \in Steps
         /\ o.slot \in Slots \cup {None} /\ o.from \in Slots \cup {None}
         /\ o.value \in Values \cup {None} /\ o.code \in Codes \cup {None}
         /\ o.archive \in Archives \cup {None} /\ o.wrote \in BOOLEAN
BY NoneAssumption DEF Ops

LEMMA ArchiveFields ==
  ASSUME NEW a \in Archives
  PROVE  /\ a.code \in Codes /\ a.digest \in Codes /\ a.data \in Values
         /\ a.versions \in SUBSET Codes /\ a.plan \in PlanRows /\ a.good \in BOOLEAN
         /\ a # None /\ a.code # None /\ a.data # None
BY NoneAssumption DEF Archives

(* A new value of the operation on one project leaves the others alone.       *)
LEMMA Changed ==
  ASSUME TypeOK, NEW p \in Projects, NEW o \in Ops \cup {None}, op' = [op EXCEPT ![p] = o]
  PROVE  /\ op' \in [Projects -> Ops \cup {None}] /\ op'[p] = o
         /\ \A q \in Projects \ {p} : op'[q] = op[q]
BY DEF TypeOK

LEMMA StopAt ==
  ASSUME TypeOK, NEW p \in Projects, Stop(p)
  PROVE  /\ op' \in [Projects -> Ops \cup {None}] /\ op'[p] = None
         /\ \A q \in Projects \ {p} : op'[q] = op[q]
BY Changed DEF Stop

LEMMA GotoAt ==
  ASSUME TypeOK, NEW p \in Projects, op[p] # None, NEW s \in Steps, Goto(p, s)
  PROVE  /\ op' \in [Projects -> Ops \cup {None}] /\ op'[p] \in Ops /\ op'[p].step = s
         /\ op'[p].kind = op[p].kind /\ op'[p].slot = op[p].slot /\ op'[p].from = op[p].from
         /\ op'[p].value = op[p].value /\ op'[p].code = op[p].code
         /\ op'[p].archive = op[p].archive /\ op'[p].wrote = op[p].wrote
         /\ \A q \in Projects \ {p} : op'[q] = op[q]
<1> DEFINE o == [op[p] EXCEPT !.step = s]
<1>1. op[p] \in Ops
    BY Stands
<1>2. /\ o \in Ops /\ o.step = s /\ o.kind = op[p].kind /\ o.slot = op[p].slot
      /\ o.from = op[p].from /\ o.value = op[p].value /\ o.code = op[p].code
      /\ o.archive = op[p].archive /\ o.wrote = op[p].wrote
    BY <1>1 DEF Ops
<1>3. op' = [op EXCEPT ![p] = o]
    BY DEF Goto
<1> HIDE DEF o
<1> QED
    BY <1>2, <1>3, Changed

LEMMA Names ==
  /\ "backup" \in Kinds /\ "preview" \in Kinds /\ "restore" \in Kinds /\ "export" \in Kinds
  /\ "import" \in Kinds /\ "dump" \in Steps /\ "place" \in Steps /\ "seal" \in Steps
  /\ "source" \in Steps /\ "digest" \in Steps /\ "pack" \in Steps /\ "encrypt" \in Steps
  /\ "receipt" \in Steps /\ "migrate" \in Steps /\ "start" \in Steps /\ "stop" \in Steps
  /\ "restore" \in Steps /\ "unpack" \in Steps /\ "database" \in Steps /\ "commit" \in Steps
  /\ "undo" \in Steps
BY DEF Kinds, Steps, Creating, Exporting

LEMMA BeginAt ==
  ASSUME TypeOK, NEW p \in Projects, NEW kind \in Kinds, NEW step \in Steps,
         NEW from \in Slots \cup {None}, NEW archive \in Archives \cup {None},
         Begin(p, kind, step, from, archive)
  PROVE  /\ op' \in [Projects -> Ops \cup {None}] /\ op'[p] \in Ops /\ op'[p] # None
         /\ op[p] = None
         /\ op'[p].step = step /\ op'[p].kind = kind /\ op'[p].slot = None /\ op'[p].from = from
         /\ op'[p].value = None /\ op'[p].archive = archive /\ op'[p].wrote = FALSE
         /\ \A q \in Projects \ {p} : op'[q] = op[q]
         /\ ops' \in 0..MaxOps
<1> DEFINE o == [kind |-> kind, step |-> step, slot |-> None, from |-> from, value |-> None,
                 code |-> None, archive |-> archive, wrote |-> FALSE]
<1>1. /\ o \in Ops /\ o.step = step /\ o.kind = kind /\ o.slot = None /\ o.from = from
      /\ o.value = None /\ o.archive = archive /\ o.wrote = FALSE
    BY DEF Ops
<1>2. op' = [op EXCEPT ![p] = o] /\ op[p] = None /\ ops < MaxOps /\ ops' = ops + 1
    BY DEF Begin
<1>3. ops' \in 0..MaxOps
    BY <1>2, RecoveryAssumption DEF TypeOK
<1> HIDE DEF o
<1> QED
    BY <1>1, <1>2, <1>3, Changed, OpFields

(* An action on one project leaves what is true of the others.                *)
Same(q) ==
  /\ code'[q] = code[q] /\ snaps'[q] = snaps[q] /\ store'[q] = store[q]
  /\ serving'[q] = serving[q] /\ dump'[q] = dump[q] /\ meta'[q] = meta[q]
  /\ plain'[q] = plain[q] /\ sealed'[q] = sealed[q] /\ receipt'[q] = receipt[q]
  /\ row'[q] = row[q] /\ versions'[q] = versions[q] /\ plan'[q] = plan[q]
  /\ op'[q] = op[q] /\ (q \in cut' <=> q \in cut) /\ (q \in torn' <=> q \in torn)

LEMMA SameGood == ASSUME NEW q \in Projects, Good(q), Same(q) PROVE Good(q)'
<1>1. Steady(q)' /\ DumpsMatch(q)'
    BY DEF Good, Same, Steady, DumpsMatch
<1>2. Safeguard(q)'
    BY DEF Good, Same, Safeguard, Saved
<1>3. Importing(q)' /\ Packing(q)'
    BY DEF Good, Same, Importing, Packing, SameDigest
<1>4. Listed(q)' /\ Offered(q)'
    BY DEF Good, Same, Listed, Offered, SameDigest
<1> QED
    BY <1>1, <1>2, <1>3, <1>4 DEF Good

LEMMA Others ==
  ASSUME IInv, TypeOK', NEW p \in Projects, \A q \in Projects \ {p} : Same(q),
         Steady(p)', DumpsMatch(p)', Safeguard(p)', Importing(p)',
         Packing(p)', Listed(p)', Offered(p)'
  PROVE  IInv'
<1>1. Good(p)'
    BY DEF Good
<1>2. \A q \in Projects \ {p} : Good(q)'
    BY SameGood DEF IInv
<1> QED
    BY <1>1, <1>2 DEF IInv

LEMMA BackupSound ==
  ASSUME IInv, NEW p \in Projects, Backup(p)
  PROVE  IInv'
<1>0. TypeOK /\ Good(p)
    BY DEF IInv
<1>1. /\ op' \in [Projects -> Ops \cup {None}] /\ op'[p] \in Ops /\ op[p] = None
      /\ op'[p].step = "dump" /\ op'[p].kind = "backup" /\ op'[p].slot = None
      /\ op'[p].from = None /\ op'[p].value = None /\ op'[p].archive = None
      /\ \A q \in Projects \ {p} : op'[q] = op[q]
      /\ ops' \in 0..MaxOps /\ op'[p] # None
  <2>1. Begin(p, "backup", "dump", None, None)
      BY DEF Backup
  <2>2. /\ "backup" \in Kinds /\ "dump" \in Steps /\ None \in Slots \cup {None}
        /\ None \in Archives \cup {None}
      BY <1>0, Names
  <2> QED
      BY <1>0, <2>1, <2>2, BeginAt
<1>2. /\ code'[p] = code[p] /\ snaps'[p] = snaps[p] /\ store'[p] = store[p]
      /\ serving'[p] = serving[p] /\ dump'[p] = dump[p] /\ meta'[p] = meta[p]
      /\ plain'[p] = plain[p] /\ sealed'[p] = sealed[p] /\ receipt'[p] = receipt[p]
      /\ row'[p] = row[p] /\ versions'[p] = versions[p] /\ plan'[p] = plan[p]
      /\ cut' = cut /\ torn' = torn
    BY <1>0, <1>1, Stands DEF Backup, Whole, Begin, tree, live, vault, export, rows, TypeOK
<1>3. row[p] /\ code[p] # None /\ store[p] # None
    BY DEF Backup, Whole
<1>4. TypeOK'
    BY <1>0, <1>1, <1>2, <1>3, Stands
      DEF Backup, Whole, Begin, tree, live, vault, export, rows, TypeOK
<1>5. \A q \in Projects \ {p} : Same(q)
    BY <1>0, <1>1, <1>2 DEF Backup, Whole, Begin, tree, live, vault, export, rows, Same, TypeOK
<1>6. Steady(p)'
    BY <1>0, <1>1, <1>2, <1>3 DEF Good, Steady, Matching, Creating, Exporting
<1>7. DumpsMatch(p)'
    BY <1>0, <1>1, <1>2, <1>3 DEF Good, DumpsMatch
<1>8. Safeguard(p)'
    BY <1>0, <1>1, <1>2, <1>3 DEF Good, Safeguard, Saved
<1>9. Importing(p)'
    BY <1>0, <1>1, <1>2, <1>3 DEF Good, Importing, SameDigest
<1>10. Packing(p)'
    BY <1>0, <1>1, <1>2, <1>3 DEF Good, Packing, SameDigest
<1>11. Listed(p)'
    BY <1>0, <1>1, <1>2, <1>3 DEF Good, Listed
<1>12. Offered(p)'
    BY <1>0, <1>1, <1>2, <1>3 DEF Good, Offered, SameDigest, Exporting
<1> QED
    BY <1>4, <1>5, <1>6, <1>7, <1>8, <1>9, <1>10, <1>11, <1>12, Others

LEMMA PreviewSound ==
  ASSUME IInv, NEW p \in Projects, Preview(p)
  PROVE  IInv'
<1>0. TypeOK /\ Good(p)
    BY DEF IInv
<1>1. /\ op' \in [Projects -> Ops \cup {None}] /\ op'[p] \in Ops /\ op[p] = None
      /\ op'[p].step = "dump" /\ op'[p].kind = "preview" /\ op'[p].slot = None
      /\ op'[p].from = None /\ op'[p].value = None /\ op'[p].archive = None
      /\ \A q \in Projects \ {p} : op'[q] = op[q]
      /\ ops' \in 0..MaxOps /\ op'[p] # None
  <2>1. Begin(p, "preview", "dump", None, None)
      BY DEF Preview
  <2>2. /\ "preview" \in Kinds /\ "dump" \in Steps /\ None \in Slots \cup {None}
        /\ None \in Archives \cup {None}
      BY <1>0, Names
  <2> QED
      BY <1>0, <2>1, <2>2, BeginAt
<1>2. /\ code'[p] = code[p] /\ snaps'[p] = snaps[p] /\ store'[p] = store[p]
      /\ serving'[p] = serving[p] /\ dump'[p] = dump[p] /\ meta'[p] = meta[p]
      /\ plain'[p] = plain[p] /\ sealed'[p] = sealed[p] /\ receipt'[p] = receipt[p]
      /\ row'[p] = row[p] /\ versions'[p] = versions[p] /\ plan'[p] = plan[p]
      /\ cut' = cut /\ torn' = torn
    BY <1>0, <1>1, Stands DEF Preview, Whole, Begin, tree, live, vault, export, rows, TypeOK
<1>3. row[p] /\ code[p] # None /\ store[p] # None
    BY DEF Preview, Whole
<1>4. TypeOK'
    BY <1>0, <1>1, <1>2, <1>3, Stands
      DEF Preview, Whole, Begin, tree, live, vault, export, rows, TypeOK
<1>5. \A q \in Projects \ {p} : Same(q)
    BY <1>0, <1>1, <1>2 DEF Preview, Whole, Begin, tree, live, vault, export, rows, Same, TypeOK
<1>6. Steady(p)'
    BY <1>0, <1>1, <1>2, <1>3 DEF Good, Steady, Matching, Creating, Exporting
<1>7. DumpsMatch(p)'
    BY <1>0, <1>1, <1>2, <1>3 DEF Good, DumpsMatch
<1>8. Safeguard(p)'
    BY <1>0, <1>1, <1>2, <1>3 DEF Good, Safeguard, Saved
<1>9. Importing(p)'
    BY <1>0, <1>1, <1>2, <1>3 DEF Good, Importing, SameDigest
<1>10. Packing(p)'
    BY <1>0, <1>1, <1>2, <1>3 DEF Good, Packing, SameDigest
<1>11. Listed(p)'
    BY <1>0, <1>1, <1>2, <1>3 DEF Good, Listed
<1>12. Offered(p)'
    BY <1>0, <1>1, <1>2, <1>3 DEF Good, Offered, SameDigest, Exporting
<1> QED
    BY <1>4, <1>5, <1>6, <1>7, <1>8, <1>9, <1>10, <1>11, <1>12, Others

LEMMA ExportSound ==
  ASSUME IInv, NEW p \in Projects, Export(p)
  PROVE  IInv'
<1>0. TypeOK /\ Good(p)
    BY DEF IInv
<1>1. /\ op' \in [Projects -> Ops \cup {None}] /\ op'[p] \in Ops /\ op[p] = None
      /\ op'[p].step = "dump" /\ op'[p].kind = "export" /\ op'[p].slot = None
      /\ op'[p].from = None /\ op'[p].value = None /\ op'[p].archive = None
      /\ \A q \in Projects \ {p} : op'[q] = op[q]
      /\ ops' \in 0..MaxOps /\ op'[p] # None
  <2>1. Begin(p, "export", "dump", None, None)
      BY DEF Export
  <2>2. /\ "export" \in Kinds /\ "dump" \in Steps /\ None \in Slots \cup {None}
        /\ None \in Archives \cup {None}
      BY <1>0, Names
  <2> QED
      BY <1>0, <2>1, <2>2, BeginAt
<1>2. /\ code'[p] = code[p] /\ snaps'[p] = snaps[p] /\ store'[p] = store[p]
      /\ serving'[p] = serving[p] /\ dump'[p] = dump[p] /\ meta'[p] = meta[p]
      /\ plain'[p] = plain[p] /\ sealed'[p] = sealed[p] /\ receipt'[p] = receipt[p]
      /\ row'[p] = row[p] /\ versions'[p] = versions[p] /\ plan'[p] = plan[p]
      /\ cut' = cut /\ torn' = torn
    BY <1>0, <1>1, Stands DEF Export, Whole, Begin, tree, live, vault, export, rows, TypeOK
<1>3. row[p] /\ code[p] # None /\ store[p] # None /\ ~receipt[p]
    BY DEF Export, Whole
<1>4. TypeOK'
    BY <1>0, <1>1, <1>2, <1>3, Stands
      DEF Export, Whole, Begin, tree, live, vault, export, rows, TypeOK
<1>5. \A q \in Projects \ {p} : Same(q)
    BY <1>0, <1>1, <1>2 DEF Export, Whole, Begin, tree, live, vault, export, rows, Same, TypeOK
<1>6. Steady(p)'
    BY <1>0, <1>1, <1>2, <1>3 DEF Good, Steady, Matching, Creating, Exporting
<1>7. DumpsMatch(p)'
    BY <1>0, <1>1, <1>2, <1>3 DEF Good, DumpsMatch
<1>8. Safeguard(p)'
    BY <1>0, <1>1, <1>2, <1>3 DEF Good, Safeguard, Saved
<1>9. Importing(p)'
    BY <1>0, <1>1, <1>2, <1>3 DEF Good, Importing, SameDigest
<1>10. Packing(p)'
    BY <1>0, <1>1, <1>2, <1>3 DEF Good, Packing, SameDigest
<1>11. Listed(p)'
    BY <1>0, <1>1, <1>2, <1>3 DEF Good, Listed
<1>12. Offered(p)'
    BY <1>0, <1>1, <1>2, <1>3 DEF Good, Offered, SameDigest, Exporting
<1> QED
    BY <1>4, <1>5, <1>6, <1>7, <1>8, <1>9, <1>10, <1>11, <1>12, Others

LEMMA RestoreSound ==
  ASSUME IInv, NEW p \in Projects, NEW i \in Slots, Restore(p, i)
  PROVE  IInv'
<1>0. TypeOK /\ Good(p)
    BY DEF IInv
<1>1. /\ op' \in [Projects -> Ops \cup {None}] /\ op'[p] \in Ops /\ op[p] = None
      /\ op'[p].step = "dump" /\ op'[p].kind = "restore" /\ op'[p].slot = None
      /\ op'[p].from = i /\ op'[p].value = None /\ op'[p].archive = None
      /\ \A q \in Projects \ {p} : op'[q] = op[q]
      /\ ops' \in 0..MaxOps /\ op'[p] # None
  <2>1. Begin(p, "restore", "dump", i, None)
      BY DEF Restore
  <2>2. /\ "restore" \in Kinds /\ "dump" \in Steps /\ i \in Slots \cup {None}
        /\ None \in Archives \cup {None}
      BY <1>0, Names
  <2> QED
      BY <1>0, <2>1, <2>2, BeginAt
<1>2. /\ code'[p] = code[p] /\ snaps'[p] = snaps[p] /\ store'[p] = store[p]
      /\ serving'[p] = serving[p] /\ dump'[p] = dump[p] /\ meta'[p] = meta[p]
      /\ plain'[p] = plain[p] /\ sealed'[p] = sealed[p] /\ receipt'[p] = receipt[p]
      /\ row'[p] = row[p] /\ versions'[p] = versions[p] /\ plan'[p] = plan[p]
      /\ cut' = cut /\ torn' = torn
    BY <1>0, <1>1, Stands DEF Restore, Whole, Begin, tree, live, vault, export, rows, TypeOK
<1>3. row[p] /\ code[p] # None /\ store[p] # None /\ meta[p][i] # None
    BY DEF Restore, Whole, Verified
<1>4. TypeOK'
    BY <1>0, <1>1, <1>2, <1>3, Stands
      DEF Restore, Whole, Begin, tree, live, vault, export, rows, TypeOK
<1>5. \A q \in Projects \ {p} : Same(q)
    BY <1>0, <1>1, <1>2 DEF Restore, Whole, Begin, tree, live, vault, export, rows, Same, TypeOK
<1>6. Steady(p)'
    BY <1>0, <1>1, <1>2, <1>3 DEF Good, Steady, Matching, Creating, Exporting
<1>7. DumpsMatch(p)'
    BY <1>0, <1>1, <1>2, <1>3 DEF Good, DumpsMatch
<1>8. Safeguard(p)'
    BY <1>0, <1>1, <1>2, <1>3 DEF Good, Safeguard, Saved
<1>9. Importing(p)'
    BY <1>0, <1>1, <1>2, <1>3 DEF Good, Importing, SameDigest
<1>10. Packing(p)'
    BY <1>0, <1>1, <1>2, <1>3 DEF Good, Packing, SameDigest
<1>11. Listed(p)'
    BY <1>0, <1>1, <1>2, <1>3 DEF Good, Listed
<1>12. Offered(p)'
    BY <1>0, <1>1, <1>2, <1>3 DEF Good, Offered, SameDigest, Exporting
<1> QED
    BY <1>4, <1>5, <1>6, <1>7, <1>8, <1>9, <1>10, <1>11, <1>12, Others

LEMMA ImportSound ==
  ASSUME IInv, NEW p \in Projects, Import(p)
  PROVE  IInv'
<1>0. TypeOK /\ Good(p)
    BY DEF IInv
<1>1. /\ op' \in [Projects -> Ops \cup {None}] /\ op'[p] \in Ops /\ op[p] = None
      /\ op'[p].step = "unpack" /\ op'[p].kind = "import" /\ op'[p].slot = None
      /\ op'[p].from = None /\ op'[p].value = None /\ op'[p].archive = copy
      /\ \A q \in Projects \ {p} : op'[q] = op[q]
      /\ ops' \in 0..MaxOps /\ op'[p] # None
  <2>1. Begin(p, "import", "unpack", None, copy)
      BY DEF Import
  <2>2. /\ "import" \in Kinds /\ "unpack" \in Steps /\ None \in Slots \cup {None}
        /\ copy \in Archives \cup {None}
      BY <1>0, Names DEF TypeOK
  <2> QED
      BY <1>0, <2>1, <2>2, BeginAt
<1>2. /\ code'[p] = code[p] /\ snaps'[p] = snaps[p] /\ store'[p] = store[p]
      /\ serving'[p] = serving[p] /\ dump'[p] = dump[p] /\ meta'[p] = meta[p]
      /\ plain'[p] = plain[p] /\ sealed'[p] = sealed[p] /\ receipt'[p] = receipt[p]
      /\ row'[p] = row[p] /\ versions'[p] = versions[p] /\ plan'[p] = plan[p]
      /\ cut' = cut /\ torn' = torn
    BY <1>0, <1>1, Stands DEF Import, Whole, Begin, tree, live, vault, export, rows, TypeOK
<1>3. ~row[p] /\ copy # None
    BY DEF Import
<1>4. TypeOK'
    BY <1>0, <1>1, <1>2, <1>3, Stands
      DEF Import, Whole, Begin, tree, live, vault, export, rows, TypeOK
<1>5. \A q \in Projects \ {p} : Same(q)
    BY <1>0, <1>1, <1>2 DEF Import, Whole, Begin, tree, live, vault, export, rows, Same, TypeOK
<1>6. Steady(p)'
    BY <1>0, <1>1, <1>2, <1>3 DEF Good, Steady, Matching, Creating, Exporting
<1>7. DumpsMatch(p)'
    BY <1>0, <1>1, <1>2, <1>3 DEF Good, DumpsMatch
<1>8. Safeguard(p)'
    BY <1>0, <1>1, <1>2, <1>3 DEF Good, Safeguard, Saved
<1>9. Importing(p)'
    BY <1>0, <1>1, <1>2, <1>3 DEF Good, Importing, SameDigest
<1>10. Packing(p)'
    BY <1>0, <1>1, <1>2, <1>3 DEF Good, Packing, SameDigest
<1>11. Listed(p)'
    BY <1>0, <1>1, <1>2, <1>3 DEF Good, Listed
<1>12. Offered(p)'
    BY <1>0, <1>1, <1>2, <1>3 DEF Good, Offered, SameDigest, Exporting
<1> QED
    BY <1>4, <1>5, <1>6, <1>7, <1>8, <1>9, <1>10, <1>11, <1>12, Others

LEMMA PlaceSound ==
  ASSUME IInv, NEW p \in Projects, Place(p)
  PROVE  IInv'
<1>0. TypeOK /\ Good(p)
    BY DEF IInv
<1>1. /\ op[p] \in Ops /\ op[p] # None /\ op[p].step = "place"
      /\ op' \in [Projects -> Ops \cup {None}] /\ op'[p] \in Ops /\ op'[p].step = "seal"
      /\ op'[p].kind = op[p].kind /\ op'[p].slot = op[p].slot /\ op'[p].from = op[p].from
      /\ op'[p].value = op[p].value /\ op'[p].code = op[p].code
      /\ op'[p].archive = op[p].archive /\ op'[p].wrote = op[p].wrote /\ op'[p] # None
      /\ \A q \in Projects \ {p} : op'[q] = op[q]
    BY <1>0, Stands, GotoAt, OpFields, Names DEF Place, Doing
<1>2. /\ code'[p] = code[p] /\ snaps'[p] = snaps[p] /\ store'[p] = store[p]
      /\ serving'[p] = serving[p]
      /\ dump'[p] = [dump[p] EXCEPT ![op[p].slot] = op[p].value] /\ meta'[p] = meta[p]
      /\ plain'[p] = plain[p] /\ sealed'[p] = sealed[p] /\ receipt'[p] = receipt[p]
      /\ row'[p] = row[p] /\ versions'[p] = versions[p] /\ plan'[p] = plan[p]
      /\ cut' = cut /\ torn' = torn
    BY <1>0, <1>1, Stands DEF Place, Goto, tree, live, vault, export, rows, TypeOK
<1>3. /\ op[p].slot \in Slots /\ meta[p][op[p].slot] = None /\ op[p].value \in Values \cup {None}
      /\ \A i \in Slots : dump'[p][i] = IF i = op[p].slot THEN op[p].value ELSE dump[p][i]
    BY <1>0, <1>1, <1>2, Stands, OpFields DEF Good, Safeguard
<1>4. TypeOK'
    BY <1>0, <1>1, <1>2, <1>3, Stands DEF Place, Goto, tree, live, vault, export, rows, TypeOK
<1>5. \A q \in Projects \ {p} : Same(q)
    BY <1>0, <1>1, <1>2 DEF Place, Goto, tree, live, vault, export, rows, Same, TypeOK
<1>6. Steady(p)'
    BY <1>0, <1>1, <1>2, <1>3 DEF Good, Steady, Matching, Creating, Exporting
<1>7. DumpsMatch(p)'
    BY <1>0, <1>1, <1>2, <1>3 DEF Good, DumpsMatch
<1>8. Safeguard(p)'
    BY <1>0, <1>1, <1>2, <1>3 DEF Good, Safeguard, Saved
<1>9. Importing(p)'
    BY <1>0, <1>1, <1>2, <1>3 DEF Good, Importing, SameDigest
<1>10. Packing(p)'
    BY <1>0, <1>1, <1>2, <1>3 DEF Good, Packing, SameDigest
<1>11. Listed(p)'
    BY <1>0, <1>1, <1>2, <1>3 DEF Good, Listed
<1>12. Offered(p)'
    BY <1>0, <1>1, <1>2, <1>3 DEF Good, Offered, SameDigest, Exporting
<1> QED
    BY <1>4, <1>5, <1>6, <1>7, <1>8, <1>9, <1>10, <1>11, <1>12, Others

LEMMA StartAppSound ==
  ASSUME IInv, NEW p \in Projects, StartApp(p)
  PROVE  IInv'
<1>0. TypeOK /\ Good(p)
    BY DEF IInv
<1>1. /\ op[p] \in Ops /\ op[p] # None /\ op[p].step = "start"
      /\ op' \in [Projects -> Ops \cup {None}] /\ op'[p] = None
      /\ \A q \in Projects \ {p} : op'[q] = op[q]
    BY <1>0, Stands, StopAt, OpFields DEF StartApp, Doing
<1>2. /\ code'[p] = code[p] /\ snaps'[p] = snaps[p] /\ store'[p] = store[p]
      /\ serving'[p] = TRUE /\ dump'[p] = dump[p] /\ meta'[p] = meta[p]
      /\ plain'[p] = plain[p] /\ sealed'[p] = sealed[p] /\ receipt'[p] = receipt[p]
      /\ row'[p] = row[p] /\ versions'[p] = versions[p] /\ plan'[p] = plan[p]
      /\ cut' = cut /\ torn' = torn
    BY <1>0, <1>1, Stands DEF StartApp, tree, live, vault, export, rows, TypeOK
<1>3. TypeOK'
    BY <1>0, <1>1, <1>2, Stands DEF StartApp, tree, live, vault, export, rows, TypeOK
<1>4. \A q \in Projects \ {p} : Same(q)
    BY <1>0, <1>1, <1>2 DEF StartApp, tree, live, vault, export, rows, Same, TypeOK
<1>5. Steady(p)'
    BY <1>0, <1>1, <1>2 DEF Good, Steady, Matching, Creating, Exporting
<1>6. DumpsMatch(p)'
    BY <1>0, <1>1, <1>2 DEF Good, DumpsMatch
<1>7. Safeguard(p)'
    BY <1>0, <1>1, <1>2 DEF Good, Safeguard, Saved
<1>8. Importing(p)'
    BY <1>0, <1>1, <1>2 DEF Good, Importing, SameDigest
<1>9. Packing(p)'
    BY <1>0, <1>1, <1>2 DEF Good, Packing, SameDigest
<1>10. Listed(p)'
    BY <1>0, <1>1, <1>2 DEF Good, Listed, Steady, Matching, Creating, Exporting
<1>11. Offered(p)'
    BY <1>0, <1>1, <1>2 DEF Good, Offered, SameDigest, Exporting
<1> QED
    BY <1>3, <1>4, <1>5, <1>6, <1>7, <1>8, <1>9, <1>10, <1>11, Others

LEMMA StopAppSound ==
  ASSUME IInv, NEW p \in Projects, StopApp(p)
  PROVE  IInv'
<1>0. TypeOK /\ Good(p)
    BY DEF IInv
<1>1. /\ op[p] \in Ops /\ op[p] # None /\ op[p].step = "stop"
      /\ op' \in [Projects -> Ops \cup {None}] /\ op'[p] \in Ops /\ op'[p].step = "restore"
      /\ op'[p].kind = op[p].kind /\ op'[p].slot = op[p].slot /\ op'[p].from = op[p].from
      /\ op'[p].value = op[p].value /\ op'[p].code = op[p].code
      /\ op'[p].archive = op[p].archive /\ op'[p].wrote = op[p].wrote /\ op'[p] # None
      /\ \A q \in Projects \ {p} : op'[q] = op[q]
    BY <1>0, Stands, GotoAt, OpFields, Names DEF StopApp, Doing
<1>2. /\ code'[p] = code[p] /\ snaps'[p] = snaps[p] /\ store'[p] = store[p]
      /\ serving'[p] = FALSE /\ dump'[p] = dump[p] /\ meta'[p] = meta[p]
      /\ plain'[p] = plain[p] /\ sealed'[p] = sealed[p] /\ receipt'[p] = receipt[p]
      /\ row'[p] = row[p] /\ versions'[p] = versions[p] /\ plan'[p] = plan[p]
      /\ cut' = cut /\ torn' = torn
    BY <1>0, <1>1, Stands DEF StopApp, tree, live, vault, export, rows, TypeOK
<1>3. TypeOK'
    BY <1>0, <1>1, <1>2, Stands DEF StopApp, tree, live, vault, export, rows, TypeOK
<1>4. \A q \in Projects \ {p} : Same(q)
    BY <1>0, <1>1, <1>2 DEF StopApp, tree, live, vault, export, rows, Same, TypeOK
<1>5. Steady(p)'
    BY <1>0, <1>1, <1>2 DEF Good, Steady, Matching, Creating, Exporting
<1>6. DumpsMatch(p)'
    BY <1>0, <1>1, <1>2 DEF Good, DumpsMatch
<1>7. Safeguard(p)'
    BY <1>0, <1>1, <1>2 DEF Good, Safeguard, Saved
<1>8. Importing(p)'
    BY <1>0, <1>1, <1>2 DEF Good, Importing, SameDigest
<1>9. Packing(p)'
    BY <1>0, <1>1, <1>2 DEF Good, Packing, SameDigest
<1>10. Listed(p)'
    BY <1>0, <1>1, <1>2 DEF Good, Listed
<1>11. Offered(p)'
    BY <1>0, <1>1, <1>2 DEF Good, Offered, SameDigest, Exporting
<1> QED
    BY <1>3, <1>4, <1>5, <1>6, <1>7, <1>8, <1>9, <1>10, <1>11, Others

LEMMA MigrateSound ==
  ASSUME IInv, NEW p \in Projects, Migrate(p)
  PROVE  IInv'
<1>0. TypeOK /\ Good(p)
    BY DEF IInv
<1>1. /\ op[p] \in Ops /\ op[p] # None /\ op[p].step = "migrate"
      /\ op' \in [Projects -> Ops \cup {None}] /\ op'[p] \in Ops /\ op'[p].step = "start"
      /\ op'[p].kind = op[p].kind /\ op'[p].slot = op[p].slot /\ op'[p].from = op[p].from
      /\ op'[p].value = op[p].value /\ op'[p].code = op[p].code
      /\ op'[p].archive = op[p].archive /\ op'[p].wrote = op[p].wrote /\ op'[p] # None
      /\ \A q \in Projects \ {p} : op'[q] = op[q]
    BY <1>0, Stands, GotoAt, OpFields, Names DEF Migrate, Doing
<1>2. /\ code'[p] = code[p] /\ snaps'[p] = snaps[p] /\ store'[p] \in Values
      /\ serving'[p] = serving[p] /\ dump'[p] = dump[p] /\ meta'[p] = meta[p]
      /\ plain'[p] = plain[p] /\ sealed'[p] = sealed[p] /\ receipt'[p] = receipt[p]
      /\ row'[p] = row[p] /\ versions'[p] = versions[p] /\ plan'[p] = plan[p]
      /\ cut' = cut /\ torn' = torn
    BY <1>0, <1>1, Stands DEF Migrate, tree, live, vault, export, rows, TypeOK
<1>3. store'[p] # None
    BY <1>2, NoneAssumption
<1>4. TypeOK'
    BY <1>0, <1>1, <1>2, <1>3, Stands DEF Migrate, tree, live, vault, export, rows, TypeOK
<1>5. \A q \in Projects \ {p} : Same(q)
    BY <1>0, <1>1, <1>2 DEF Migrate, tree, live, vault, export, rows, Same, TypeOK
<1>6. Steady(p)'
    BY <1>0, <1>1, <1>2, <1>3 DEF Good, Steady, Matching, Creating, Exporting
<1>7. DumpsMatch(p)'
    BY <1>0, <1>1, <1>2, <1>3 DEF Good, DumpsMatch
<1>8. Safeguard(p)'
    BY <1>0, <1>1, <1>2, <1>3 DEF Good, Safeguard, Saved
<1>9. Importing(p)'
    BY <1>0, <1>1, <1>2, <1>3 DEF Good, Importing, SameDigest
<1>10. Packing(p)'
    BY <1>0, <1>1, <1>2, <1>3 DEF Good, Packing, SameDigest
<1>11. Listed(p)'
    BY <1>0, <1>1, <1>2, <1>3 DEF Good, Listed
<1>12. Offered(p)'
    BY <1>0, <1>1, <1>2, <1>3 DEF Good, Offered, SameDigest, Exporting
<1> QED
    BY <1>4, <1>5, <1>6, <1>7, <1>8, <1>9, <1>10, <1>11, <1>12, Others

LEMMA HaltSound ==
  ASSUME IInv, NEW p \in Projects, Halt(p)
  PROVE  IInv'
<1>0. TypeOK /\ Good(p)
    BY DEF IInv
<1>1. op' = op /\ op[p] = None
    BY <1>0, Stands DEF Halt
<1>2. /\ code'[p] = code[p] /\ snaps'[p] = snaps[p] /\ store'[p] = store[p]
      /\ serving'[p] = FALSE /\ dump'[p] = dump[p] /\ meta'[p] = meta[p]
      /\ plain'[p] = plain[p] /\ sealed'[p] = sealed[p] /\ receipt'[p] = receipt[p]
      /\ row'[p] = row[p] /\ versions'[p] = versions[p] /\ plan'[p] = plan[p]
      /\ cut' = cut /\ torn' = torn
    BY <1>0, <1>1, Stands DEF Halt, tree, live, vault, export, rows, TypeOK
<1>3. TypeOK'
    BY <1>0, <1>1, <1>2, Stands DEF Halt, tree, live, vault, export, rows, TypeOK
<1>4. \A q \in Projects \ {p} : Same(q)
    BY <1>0, <1>1, <1>2 DEF Halt, tree, live, vault, export, rows, Same, TypeOK
<1>5. Steady(p)'
    BY <1>0, <1>1, <1>2 DEF Good, Steady, Matching, Creating, Exporting
<1>6. DumpsMatch(p)'
    BY <1>0, <1>1, <1>2 DEF Good, DumpsMatch
<1>7. Safeguard(p)'
    BY <1>0, <1>1, <1>2 DEF Good, Safeguard, Saved
<1>8. Importing(p)'
    BY <1>0, <1>1, <1>2 DEF Good, Importing, SameDigest
<1>9. Packing(p)'
    BY <1>0, <1>1, <1>2 DEF Good, Packing, SameDigest
<1>10. Listed(p)'
    BY <1>0, <1>1, <1>2 DEF Good, Listed
<1>11. Offered(p)'
    BY <1>0, <1>1, <1>2 DEF Good, Offered, SameDigest, Exporting
<1> QED
    BY <1>3, <1>4, <1>5, <1>6, <1>7, <1>8, <1>9, <1>10, <1>11, Others

LEMMA RestoreDbSound ==
  ASSUME IInv, NEW p \in Projects, RestoreDb(p)
  PROVE  IInv'
<1>0. TypeOK /\ Good(p)
    BY DEF IInv
<1>1. /\ op[p] \in Ops /\ op[p] # None /\ op[p].step = "restore"
      /\ op' \in [Projects -> Ops \cup {None}] /\ op'[p] = None
      /\ \A q \in Projects \ {p} : op'[q] = op[q]
    BY <1>0, Stands, StopAt, OpFields DEF RestoreDb, Doing
<1>2. /\ code'[p] = code[p] /\ snaps'[p] = snaps[p] /\ store'[p] = dump[p][op[p].from]
      /\ serving'[p] = serving[p] /\ dump'[p] = dump[p] /\ meta'[p] = meta[p]
      /\ plain'[p] = plain[p] /\ sealed'[p] = sealed[p] /\ receipt'[p] = receipt[p]
      /\ row'[p] = row[p] /\ versions'[p] = versions[p] /\ plan'[p] = plan[p]
      /\ cut' = cut /\ torn' = torn
    BY <1>0, <1>1, Stands DEF RestoreDb, tree, live, vault, export, rows, TypeOK
<1>3. op[p].kind = "restore" /\ op[p].from \in Slots /\ store'[p] \in Values
    BY <1>0, <1>1, <1>2, Stands, OpFields
      DEF Good, Steady, Matching, Creating, Exporting, Kinds, DumpsMatch
<1>4. store'[p] # None
    BY <1>3, NoneAssumption
<1>5. TypeOK'
    BY <1>0, <1>1, <1>2, <1>3, <1>4, Stands
      DEF RestoreDb, tree, live, vault, export, rows, TypeOK
<1>6. \A q \in Projects \ {p} : Same(q)
    BY <1>0, <1>1, <1>2 DEF RestoreDb, tree, live, vault, export, rows, Same, TypeOK
<1>7. Steady(p)'
    BY <1>0, <1>1, <1>2, <1>3, <1>4 DEF Good, Steady, Matching, Creating, Exporting
<1>8. DumpsMatch(p)'
    BY <1>0, <1>1, <1>2, <1>3, <1>4 DEF Good, DumpsMatch
<1>9. Safeguard(p)'
    BY <1>0, <1>1, <1>2, <1>3, <1>4 DEF Good, Safeguard, Saved
<1>10. Importing(p)'
    BY <1>0, <1>1, <1>2, <1>3, <1>4 DEF Good, Importing, SameDigest
<1>11. Packing(p)'
    BY <1>0, <1>1, <1>2, <1>3, <1>4 DEF Good, Packing, SameDigest
<1>12. Listed(p)'
    BY <1>0, <1>1, <1>2, <1>3, <1>4 DEF Good, Listed
<1>13. Offered(p)'
    BY <1>0, <1>1, <1>2, <1>3, <1>4 DEF Good, Offered, SameDigest, Exporting
<1> QED
    BY <1>5, <1>6, <1>7, <1>8, <1>9, <1>10, <1>11, <1>12, <1>13, Others

LEMMA FailSound ==
  ASSUME IInv, NEW p \in Projects, Fail(p)
  PROVE  IInv'
<1>0. TypeOK /\ Good(p)
    BY DEF IInv
<1>1. /\ op[p] \in Ops /\ op[p] # None /\ op[p].step \in {"migrate", "start", "stop", "restore"}
      /\ op' \in [Projects -> Ops \cup {None}] /\ op'[p] = None
      /\ \A q \in Projects \ {p} : op'[q] = op[q]
    BY <1>0, Stands, StopAt, OpFields DEF Fail
<1>2. /\ code'[p] = code[p] /\ snaps'[p] = snaps[p] /\ store'[p] = store[p]
      /\ serving'[p] = serving[p] /\ dump'[p] = dump[p] /\ meta'[p] = meta[p]
      /\ plain'[p] = plain[p] /\ sealed'[p] = sealed[p] /\ receipt'[p] = receipt[p]
      /\ row'[p] = row[p] /\ versions'[p] = versions[p] /\ plan'[p] = plan[p]
      /\ cut' = cut /\ torn' = torn
    BY <1>0, <1>1, Stands DEF Fail, tree, live, vault, export, rows, TypeOK
<1>3. TypeOK'
    BY <1>0, <1>1, <1>2, Stands DEF Fail, tree, live, vault, export, rows, TypeOK
<1>4. \A q \in Projects \ {p} : Same(q)
    BY <1>0, <1>1, <1>2 DEF Fail, tree, live, vault, export, rows, Same, TypeOK
<1>5. Steady(p)'
    BY <1>0, <1>1, <1>2 DEF Good, Steady, Matching, Creating, Exporting
<1>6. DumpsMatch(p)'
    BY <1>0, <1>1, <1>2 DEF Good, DumpsMatch
<1>7. Safeguard(p)'
    BY <1>0, <1>1, <1>2 DEF Good, Safeguard, Saved
<1>8. Importing(p)'
    BY <1>0, <1>1, <1>2 DEF Good, Importing, SameDigest
<1>9. Packing(p)'
    BY <1>0, <1>1, <1>2 DEF Good, Packing, SameDigest
<1>10. Listed(p)'
    BY <1>0, <1>1, <1>2 DEF Good, Listed
<1>11. Offered(p)'
    BY <1>0, <1>1, <1>2 DEF Good, Offered, SameDigest, Exporting
<1> QED
    BY <1>3, <1>4, <1>5, <1>6, <1>7, <1>8, <1>9, <1>10, <1>11, Others

LEMMA PackSound ==
  ASSUME IInv, NEW p \in Projects, Pack(p)
  PROVE  IInv'
<1>0. TypeOK /\ Good(p)
    BY DEF IInv
<1>1. /\ op[p] \in Ops /\ op[p] # None /\ op[p].step = "pack"
      /\ op' \in [Projects -> Ops \cup {None}] /\ op'[p] \in Ops /\ op'[p].step = "encrypt"
      /\ op'[p].kind = op[p].kind /\ op'[p].slot = op[p].slot /\ op'[p].from = op[p].from
      /\ op'[p].value = op[p].value /\ op'[p].code = op[p].code
      /\ op'[p].archive = op[p].archive /\ op'[p].wrote = op[p].wrote /\ op'[p] # None
      /\ \A q \in Projects \ {p} : op'[q] = op[q]
    BY <1>0, Stands, GotoAt, OpFields, Names DEF Pack, Doing
<1>2. /\ code'[p] = code[p] /\ snaps'[p] = snaps[p] /\ store'[p] = store[p]
      /\ serving'[p] = serving[p] /\ dump'[p] = dump[p] /\ meta'[p] = meta[p]
      /\ plain'[p] = TRUE /\ sealed'[p] = sealed[p] /\ receipt'[p] = receipt[p]
      /\ row'[p] = row[p] /\ versions'[p] = versions[p] /\ plan'[p] = plan[p]
      /\ cut' = cut /\ torn' = torn
    BY <1>0, <1>1, Stands DEF Pack, tree, live, vault, export, rows, TypeOK
<1>3. TypeOK'
    BY <1>0, <1>1, <1>2, Stands DEF Pack, tree, live, vault, export, rows, TypeOK
<1>4. \A q \in Projects \ {p} : Same(q)
    BY <1>0, <1>1, <1>2 DEF Pack, tree, live, vault, export, rows, Same, TypeOK
<1>5. Steady(p)'
    BY <1>0, <1>1, <1>2 DEF Good, Steady, Matching, Creating, Exporting
<1>6. DumpsMatch(p)'
    BY <1>0, <1>1, <1>2 DEF Good, DumpsMatch
<1>7. Safeguard(p)'
    BY <1>0, <1>1, <1>2 DEF Good, Safeguard, Saved
<1>8. Importing(p)'
    BY <1>0, <1>1, <1>2 DEF Good, Importing, SameDigest
<1>9. Packing(p)'
    BY <1>0, <1>1, <1>2 DEF Good, Packing, SameDigest
<1>10. Listed(p)'
    BY <1>0, <1>1, <1>2 DEF Good, Listed
<1>11. Offered(p)'
    BY <1>0, <1>1, <1>2 DEF Good, Offered, SameDigest, Exporting
<1> QED
    BY <1>3, <1>4, <1>5, <1>6, <1>7, <1>8, <1>9, <1>10, <1>11, Others

LEMMA EncryptSound ==
  ASSUME IInv, NEW p \in Projects, Encrypt(p)
  PROVE  IInv'
<1>0. TypeOK /\ Good(p)
    BY DEF IInv
<1>1. /\ op[p] \in Ops /\ op[p] # None /\ op[p].step = "encrypt"
      /\ op' \in [Projects -> Ops \cup {None}] /\ op'[p] \in Ops /\ op'[p].step = "receipt"
      /\ op'[p].kind = op[p].kind /\ op'[p].slot = op[p].slot /\ op'[p].from = op[p].from
      /\ op'[p].value = op[p].value /\ op'[p].code = op[p].code
      /\ op'[p].archive = op[p].archive /\ op'[p].wrote = op[p].wrote /\ op'[p] # None
      /\ \A q \in Projects \ {p} : op'[q] = op[q]
    BY <1>0, Stands, GotoAt, OpFields, Names DEF Encrypt, Doing
<1>2. /\ code'[p] = code[p] /\ snaps'[p] = snaps[p] /\ store'[p] = store[p]
      /\ serving'[p] = serving[p] /\ dump'[p] = dump[p] /\ meta'[p] = meta[p]
      /\ plain'[p] = plain[p] /\ sealed'[p] = op[p].archive /\ receipt'[p] = receipt[p]
      /\ row'[p] = row[p] /\ versions'[p] = versions[p] /\ plan'[p] = plan[p]
      /\ cut' = cut /\ torn' = torn
    BY <1>0, <1>1, Stands DEF Encrypt, tree, live, vault, export, rows, TypeOK
<1>3. op[p].archive \in Archives /\ op[p].archive # None
    BY <1>0, <1>1, OpFields DEF Good, Packing
<1>4. TypeOK'
    BY <1>0, <1>1, <1>2, <1>3, Stands DEF Encrypt, tree, live, vault, export, rows, TypeOK
<1>5. \A q \in Projects \ {p} : Same(q)
    BY <1>0, <1>1, <1>2 DEF Encrypt, tree, live, vault, export, rows, Same, TypeOK
<1>6. Steady(p)'
    BY <1>0, <1>1, <1>2, <1>3 DEF Good, Steady, Matching, Creating, Exporting
<1>7. DumpsMatch(p)'
    BY <1>0, <1>1, <1>2, <1>3 DEF Good, DumpsMatch
<1>8. Safeguard(p)'
    BY <1>0, <1>1, <1>2, <1>3 DEF Good, Safeguard, Saved
<1>9. Importing(p)'
    BY <1>0, <1>1, <1>2, <1>3 DEF Good, Importing, SameDigest
<1>10. Packing(p)'
    BY <1>0, <1>1, <1>2, <1>3 DEF Good, Packing, SameDigest
<1>11. Listed(p)'
    BY <1>0, <1>1, <1>2, <1>3 DEF Good, Listed
<1>12. Offered(p)'
    BY <1>0, <1>1, <1>2, <1>3 DEF Good, Offered, SameDigest, Exporting, Packing
<1> QED
    BY <1>4, <1>5, <1>6, <1>7, <1>8, <1>9, <1>10, <1>11, <1>12, Others

LEMMA InsertReceiptSound ==
  ASSUME IInv, NEW p \in Projects, InsertReceipt(p)
  PROVE  IInv'
<1>0. TypeOK /\ Good(p)
    BY DEF IInv
<1>1. /\ op[p] \in Ops /\ op[p] # None /\ op[p].step = "receipt"
      /\ op' \in [Projects -> Ops \cup {None}] /\ op'[p] = None
      /\ \A q \in Projects \ {p} : op'[q] = op[q]
    BY <1>0, Stands, StopAt, OpFields DEF InsertReceipt, Doing
<1>2. /\ code'[p] = code[p] /\ snaps'[p] = snaps[p] /\ store'[p] = store[p]
      /\ serving'[p] = serving[p] /\ dump'[p] = dump[p] /\ meta'[p] = meta[p]
      /\ plain'[p] = FALSE /\ sealed'[p] = sealed[p] /\ receipt'[p] = TRUE
      /\ row'[p] = row[p] /\ versions'[p] = versions[p] /\ plan'[p] = plan[p]
      /\ cut' = cut /\ torn' = torn
    BY <1>0, <1>1, Stands DEF InsertReceipt, tree, live, vault, export, rows, TypeOK
<1>3. TypeOK'
    BY <1>0, <1>1, <1>2, Stands DEF InsertReceipt, tree, live, vault, export, rows, TypeOK
<1>4. \A q \in Projects \ {p} : Same(q)
    BY <1>0, <1>1, <1>2 DEF InsertReceipt, tree, live, vault, export, rows, Same, TypeOK
<1>5. Steady(p)'
    BY <1>0, <1>1, <1>2 DEF Good, Steady, Matching, Creating, Exporting
<1>6. DumpsMatch(p)'
    BY <1>0, <1>1, <1>2 DEF Good, DumpsMatch
<1>7. Safeguard(p)'
    BY <1>0, <1>1, <1>2 DEF Good, Safeguard, Saved
<1>8. Importing(p)'
    BY <1>0, <1>1, <1>2 DEF Good, Importing, SameDigest
<1>9. Packing(p)'
    BY <1>0, <1>1, <1>2 DEF Good, Packing, SameDigest
<1>10. Listed(p)'
    BY <1>0, <1>1, <1>2 DEF Good, Listed
<1>11. Offered(p)'
    BY <1>0, <1>1, <1>2 DEF Good, Offered, SameDigest, Exporting, Packing
<1> QED
    BY <1>3, <1>4, <1>5, <1>6, <1>7, <1>8, <1>9, <1>10, <1>11, Others

LEMMA DownloadSound ==
  ASSUME IInv, NEW p \in Projects, Download(p)
  PROVE  IInv'
<1>0. TypeOK /\ Good(p)
    BY DEF IInv
<1>1. op' = op
    BY <1>0, Stands DEF Download
<1>2. /\ code'[p] = code[p] /\ snaps'[p] = snaps[p] /\ store'[p] = store[p]
      /\ serving'[p] = serving[p] /\ dump'[p] = dump[p] /\ meta'[p] = meta[p]
      /\ plain'[p] = plain[p] /\ sealed'[p] = sealed[p] /\ receipt'[p] = receipt[p]
      /\ row'[p] = row[p] /\ versions'[p] = versions[p] /\ plan'[p] = plan[p]
      /\ cut' = cut /\ torn' = torn
    BY <1>0, <1>1, Stands DEF Download, tree, live, vault, export, rows, TypeOK
<1>3. TypeOK'
    BY <1>0, <1>1, <1>2, Stands DEF Download, tree, live, vault, export, rows, TypeOK
<1>4. \A q \in Projects \ {p} : Same(q)
    BY <1>0, <1>1, <1>2 DEF Download, tree, live, vault, export, rows, Same, TypeOK
<1>5. Steady(p)'
    BY <1>0, <1>1, <1>2 DEF Good, Steady, Matching, Creating, Exporting
<1>6. DumpsMatch(p)'
    BY <1>0, <1>1, <1>2 DEF Good, DumpsMatch
<1>7. Safeguard(p)'
    BY <1>0, <1>1, <1>2 DEF Good, Safeguard, Saved
<1>8. Importing(p)'
    BY <1>0, <1>1, <1>2 DEF Good, Importing, SameDigest
<1>9. Packing(p)'
    BY <1>0, <1>1, <1>2 DEF Good, Packing, SameDigest
<1>10. Listed(p)'
    BY <1>0, <1>1, <1>2 DEF Good, Listed
<1>11. Offered(p)'
    BY <1>0, <1>1, <1>2 DEF Good, Offered, SameDigest, Exporting
<1> QED
    BY <1>3, <1>4, <1>5, <1>6, <1>7, <1>8, <1>9, <1>10, <1>11, Others

LEMMA DumpSound ==
  ASSUME IInv, NEW p \in Projects, NEW i \in Slots, Dump(p, i)
  PROVE  IInv'
<1>0. TypeOK /\ Good(p)
    BY DEF IInv
<1>1. /\ op[p] \in Ops /\ op[p] # None /\ op[p].step = "dump"
      /\ op' \in [Projects -> Ops \cup {None}] /\ op'[p] \in Ops /\ op'[p] # None
      /\ op'[p].step = "place" /\ op'[p].slot = i /\ op'[p].value = store[p]
      /\ op'[p].kind = op[p].kind /\ op'[p].from = op[p].from /\ op'[p].wrote = op[p].wrote
      /\ \A q \in Projects \ {p} : op'[q] = op[q]
  <2> DEFINE o == [op[p] EXCEPT !.step = "place", !.slot = i, !.value = store[p]]
  <2>1. op[p] \in Ops /\ op[p] # None /\ op[p].step = "dump" /\ store[p] \in Values \cup {None}
      BY <1>0, Stands DEF Dump, Doing
  <2>2. /\ o \in Ops /\ o.step = "place" /\ o.slot = i /\ o.value = store[p]
        /\ o.kind = op[p].kind /\ o.from = op[p].from /\ o.wrote = op[p].wrote
      BY <2>1, Names DEF Ops
  <2>3. op' = [op EXCEPT ![p] = o]
      BY DEF Dump
  <2> HIDE DEF o
  <2> QED
      BY <1>0, <2>1, <2>2, <2>3, Changed, OpFields
<1>2. /\ code'[p] = code[p] /\ snaps'[p] = snaps[p] /\ store'[p] = store[p]
      /\ serving'[p] = serving[p] /\ dump'[p] = dump[p] /\ meta'[p] = meta[p]
      /\ plain'[p] = plain[p] /\ sealed'[p] = sealed[p] /\ receipt'[p] = receipt[p]
      /\ row'[p] = row[p] /\ versions'[p] = versions[p] /\ plan'[p] = plan[p]
      /\ cut' = cut /\ torn' = torn
    BY <1>0, <1>1, Stands DEF Dump, tree, live, vault, export, rows, TypeOK
<1>3. meta[p][i] = None /\ store[p] # None
    BY <1>0, <1>1, OpFields DEF Dump, Good, Steady, Matching, Kinds
<1>4. TypeOK'
    BY <1>0, <1>1, <1>2, <1>3, Stands DEF Dump, tree, live, vault, export, rows, TypeOK
<1>5. \A q \in Projects \ {p} : Same(q)
    BY <1>0, <1>1, <1>2 DEF Dump, tree, live, vault, export, rows, Same, TypeOK
<1>6. Steady(p)'
    BY <1>0, <1>1, <1>2, <1>3 DEF Good, Steady, Matching, Creating, Exporting
<1>7. DumpsMatch(p)'
    BY <1>0, <1>1, <1>2, <1>3 DEF Good, DumpsMatch
<1>8. Safeguard(p)'
    BY <1>0, <1>1, <1>2, <1>3 DEF Good, Safeguard, Saved
<1>9. Importing(p)'
    BY <1>0, <1>1, <1>2, <1>3 DEF Good, Importing, SameDigest
<1>10. Packing(p)'
    BY <1>0, <1>1, <1>2, <1>3 DEF Good, Packing, SameDigest
<1>11. Listed(p)'
    BY <1>0, <1>1, <1>2, <1>3 DEF Good, Listed
<1>12. Offered(p)'
    BY <1>0, <1>1, <1>2, <1>3 DEF Good, Offered, SameDigest, Exporting
<1> QED
    BY <1>4, <1>5, <1>6, <1>7, <1>8, <1>9, <1>10, <1>11, <1>12, Others

LEMMA ReadSourceSound ==
  ASSUME IInv, NEW p \in Projects, ReadSource(p)
  PROVE  IInv'
<1>0. TypeOK /\ Good(p)
    BY DEF IInv
<1>1. /\ op[p] \in Ops /\ op[p] # None /\ op[p].step = "source"
      /\ op' \in [Projects -> Ops \cup {None}] /\ op'[p] \in Ops /\ op'[p] # None
      /\ op'[p].step = "digest" /\ op'[p].code = code[p] /\ op'[p].slot = op[p].slot
      /\ op'[p].value = op[p].value
      /\ op'[p].kind = op[p].kind /\ op'[p].from = op[p].from /\ op'[p].wrote = op[p].wrote
      /\ \A q \in Projects \ {p} : op'[q] = op[q]
  <2> DEFINE o == [op[p] EXCEPT !.step = "digest", !.code = code[p]]
  <2>1. op[p] \in Ops /\ op[p] # None /\ op[p].step = "source" /\ code[p] \in Codes \cup {None}
      BY <1>0, Stands DEF ReadSource, Doing
  <2>2. /\ o \in Ops /\ o.step = "digest" /\ o.code = code[p] /\ o.slot = op[p].slot
        /\ o.value = op[p].value /\ o.kind = op[p].kind /\ o.from = op[p].from
        /\ o.wrote = op[p].wrote
      BY <2>1, Names DEF Ops
  <2>3. op' = [op EXCEPT ![p] = o]
      BY DEF ReadSource
  <2> HIDE DEF o
  <2> QED
      BY <1>0, <2>1, <2>2, <2>3, Changed, OpFields
<1>2. /\ code'[p] = code[p] /\ snaps'[p] = snaps[p] /\ store'[p] = store[p]
      /\ serving'[p] = serving[p] /\ dump'[p] = dump[p] /\ meta'[p] = meta[p]
      /\ plain'[p] = plain[p] /\ sealed'[p] = sealed[p] /\ receipt'[p] = receipt[p]
      /\ row'[p] = row[p] /\ versions'[p] = versions[p] /\ plan'[p] = plan[p]
      /\ cut' = cut /\ torn' = torn
    BY <1>0, <1>1, Stands DEF ReadSource, tree, live, vault, export, rows, TypeOK
<1>3. code[p] # None
    BY <1>0, <1>1, OpFields DEF Good, Steady, Matching, Kinds
<1>4. TypeOK'
    BY <1>0, <1>1, <1>2, <1>3, Stands DEF ReadSource, tree, live, vault, export, rows, TypeOK
<1>5. \A q \in Projects \ {p} : Same(q)
    BY <1>0, <1>1, <1>2 DEF ReadSource, tree, live, vault, export, rows, Same, TypeOK
<1>6. Steady(p)'
    BY <1>0, <1>1, <1>2, <1>3 DEF Good, Steady, Matching, Creating, Exporting
<1>7. DumpsMatch(p)'
    BY <1>0, <1>1, <1>2, <1>3 DEF Good, DumpsMatch
<1>8. Safeguard(p)'
    BY <1>0, <1>1, <1>2, <1>3 DEF Good, Safeguard, Saved
<1>9. Importing(p)'
    BY <1>0, <1>1, <1>2, <1>3 DEF Good, Importing, SameDigest
<1>10. Packing(p)'
    BY <1>0, <1>1, <1>2, <1>3 DEF Good, Packing, SameDigest
<1>11. Listed(p)'
    BY <1>0, <1>1, <1>2, <1>3 DEF Good, Listed
<1>12. Offered(p)'
    BY <1>0, <1>1, <1>2, <1>3 DEF Good, Offered, SameDigest, Exporting
<1> QED
    BY <1>4, <1>5, <1>6, <1>7, <1>8, <1>9, <1>10, <1>11, <1>12, Others

LEMMA ReadManifestSound ==
  ASSUME IInv, NEW p \in Projects, ReadManifest(p)
  PROVE  IInv'
<1>0. TypeOK /\ Good(p)
    BY DEF IInv
<1>1. /\ op[p] \in Ops /\ op[p] # None /\ op[p].step = "digest"
      /\ op' \in [Projects -> Ops \cup {None}] /\ op'[p] \in Ops /\ op'[p] # None
      /\ op'[p].step = "pack" /\ op'[p].archive # None
      /\ op'[p].archive.code = op[p].code /\ op'[p].archive.digest = code[p]
      /\ op'[p].kind = op[p].kind /\ op'[p].from = op[p].from
      /\ \A q \in Projects \ {p} : op'[q] = op[q]
  <2> DEFINE a == [code |-> op[p].code, digest |-> code[p], data |-> dump[p][op[p].slot],
                   versions |-> versions[p], plan |-> plan[p], good |-> TRUE]
             o == [op[p] EXCEPT !.step = "pack", !.archive = a]
  <2>1. op[p] \in Ops /\ op[p] # None /\ op[p].step = "digest"
      BY <1>0, Stands DEF ReadManifest, Doing
  <2>2. row[p] /\ code[p] \in Codes /\ plan[p] \in PlanRows /\ versions[p] \in SUBSET Codes
      BY <1>0, <2>1, Stands, OpFields DEF Good, Steady, Matching, Kinds, Listed
  <2>3. op[p].code \in Codes /\ dump[p][op[p].slot] \in Values
      BY <1>0, <2>1, Stands, OpFields DEF Good, Packing, Safeguard, Saved, DumpsMatch
  <2>4. a \in Archives /\ a # None /\ a.code = op[p].code /\ a.digest = code[p]
    <3>1. a \in Archives
        BY <2>2, <2>3 DEF Archives
    <3> QED
        BY <3>1, ArchiveFields
  <2>5. op' = [op EXCEPT ![p] = o]
      BY DEF ReadManifest
  <2> HIDE DEF a
  <2>6. o \in Ops /\ o.step = "pack" /\ o.archive = a /\ o.kind = op[p].kind /\ o.from = op[p].from
      BY <2>1, <2>4, Names DEF Ops
  <2> HIDE DEF o
  <2> QED
      BY <1>0, <2>1, <2>4, <2>5, <2>6, Changed, OpFields
<1>2. /\ code'[p] = code[p] /\ snaps'[p] = snaps[p] /\ store'[p] = store[p]
      /\ serving'[p] = serving[p] /\ dump'[p] = dump[p] /\ meta'[p] = meta[p]
      /\ plain'[p] = plain[p] /\ sealed'[p] = sealed[p] /\ receipt'[p] = receipt[p]
      /\ row'[p] = row[p] /\ versions'[p] = versions[p] /\ plan'[p] = plan[p]
      /\ cut' = cut /\ torn' = torn
    BY <1>0, <1>1, Stands DEF ReadManifest, tree, live, vault, export, rows, TypeOK
<1>3. TypeOK'
    BY <1>0, <1>1, <1>2, Stands DEF ReadManifest, tree, live, vault, export, rows, TypeOK
<1>4. \A q \in Projects \ {p} : Same(q)
    BY <1>0, <1>1, <1>2 DEF ReadManifest, tree, live, vault, export, rows, Same, TypeOK
<1>5. Steady(p)'
    BY <1>0, <1>1, <1>2 DEF Good, Steady, Matching, Creating, Exporting
<1>6. DumpsMatch(p)'
    BY <1>0, <1>1, <1>2 DEF Good, DumpsMatch
<1>7. Safeguard(p)'
    BY <1>0, <1>1, <1>2 DEF Good, Safeguard, Saved
<1>8. Importing(p)'
    BY <1>0, <1>1, <1>2 DEF Good, Importing, SameDigest
<1>9. Packing(p)'
    BY <1>0, <1>1, <1>2 DEF Good, Packing, SameDigest
<1>10. Listed(p)'
    BY <1>0, <1>1, <1>2 DEF Good, Listed
<1>11. Offered(p)'
    BY <1>0, <1>1, <1>2 DEF Good, Offered, SameDigest, Exporting
<1> QED
    BY <1>3, <1>4, <1>5, <1>6, <1>7, <1>8, <1>9, <1>10, <1>11, Others

LEMMA SaveVersionSound ==
  ASSUME IInv, NEW p \in Projects, SaveVersion(p)
  PROVE  IInv'
<1>0. TypeOK /\ Good(p)
    BY DEF IInv
<1>1. op' = op /\ op[p] = None
    BY <1>0, Stands DEF SaveVersion
<1>2. /\ code'[p] = code[p] /\ snaps'[p] = snaps[p] \cup {code[p]}
      /\ store'[p] = store[p] /\ serving'[p] = serving[p] /\ dump'[p] = dump[p]
      /\ meta'[p] = meta[p] /\ plain'[p] = plain[p] /\ sealed'[p] = sealed[p]
      /\ receipt'[p] = receipt[p] /\ row'[p] = row[p]
      /\ versions'[p] = versions[p] \cup {code[p]} /\ plan'[p] = plan[p] /\ cut' = cut
      /\ torn' = torn
    BY <1>0, <1>1, Stands DEF SaveVersion, tree, live, vault, export, rows, TypeOK
<1>3. code[p] \in Codes
    BY <1>0, Stands DEF SaveVersion
<1>4. TypeOK'
    BY <1>0, <1>1, <1>2, <1>3, Stands DEF SaveVersion, tree, live, vault, export, rows, TypeOK
<1>5. \A q \in Projects \ {p} : Same(q)
    BY <1>0, <1>1, <1>2 DEF SaveVersion, tree, live, vault, export, rows, Same, TypeOK
<1>6. Steady(p)'
    BY <1>0, <1>1, <1>2, <1>3 DEF Good, Steady, Matching, Creating, Exporting
<1>7. DumpsMatch(p)'
    BY <1>0, <1>1, <1>2, <1>3 DEF Good, DumpsMatch
<1>8. Safeguard(p)'
    BY <1>0, <1>1, <1>2, <1>3 DEF Good, Safeguard, Saved
<1>9. Importing(p)'
    BY <1>0, <1>1, <1>2, <1>3 DEF Good, Importing, SameDigest
<1>10. Packing(p)'
    BY <1>0, <1>1, <1>2, <1>3 DEF Good, Packing, SameDigest
<1>11. Listed(p)'
    BY <1>0, <1>1, <1>2, <1>3 DEF Good, Listed
<1>12. Offered(p)'
    BY <1>0, <1>1, <1>2, <1>3 DEF Good, Offered, SameDigest, Exporting
<1> QED
    BY <1>4, <1>5, <1>6, <1>7, <1>8, <1>9, <1>10, <1>11, <1>12, Others

LEMMA UnpackSound ==
  ASSUME IInv, NEW p \in Projects, Unpack(p)
  PROVE  IInv'
<1>0. TypeOK /\ Good(p)
    BY DEF IInv
<1>1. /\ op[p] \in Ops /\ op[p] # None /\ op[p].step = "unpack"
      /\ op' \in [Projects -> Ops \cup {None}] /\ op'[p] \in Ops
      /\ op'[p].step = IF SameDigest(op[p].archive) THEN "database" ELSE "undo"
      /\ op'[p].kind = op[p].kind /\ op'[p].slot = op[p].slot /\ op'[p].from = op[p].from
      /\ op'[p].value = op[p].value /\ op'[p].code = op[p].code
      /\ op'[p].archive = op[p].archive /\ op'[p].wrote = op[p].wrote /\ op'[p] # None
      /\ \A q \in Projects \ {p} : op'[q] = op[q]
  <2> DEFINE s == IF SameDigest(op[p].archive) THEN "database" ELSE "undo"
  <2>1. op[p] \in Ops /\ op[p] # None /\ op[p].step = "unpack" /\ Goto(p, s)
      BY <1>0, Stands DEF Unpack, Doing
  <2>2. s \in Steps
      BY Names
  <2> HIDE DEF s
  <2>3. /\ op' \in [Projects -> Ops \cup {None}] /\ op'[p] \in Ops /\ op'[p].step = s
        /\ op'[p].kind = op[p].kind /\ op'[p].slot = op[p].slot /\ op'[p].from = op[p].from
        /\ op'[p].value = op[p].value /\ op'[p].code = op[p].code
        /\ op'[p].archive = op[p].archive /\ op'[p].wrote = op[p].wrote
        /\ \A q \in Projects \ {p} : op'[q] = op[q]
      BY <1>0, <2>1, <2>2, GotoAt
  <2> QED
      BY <2>1, <2>3, OpFields DEF s
<1>2. /\ code'[p] = op[p].archive.code /\ snaps'[p] = op[p].archive.versions
      /\ store'[p] = store[p] /\ serving'[p] = serving[p] /\ dump'[p] = dump[p]
      /\ meta'[p] = meta[p] /\ plain'[p] = plain[p] /\ sealed'[p] = sealed[p]
      /\ receipt'[p] = receipt[p] /\ row'[p] = row[p] /\ versions'[p] = versions[p]
      /\ plan'[p] = plan[p] /\ cut' = cut /\ torn' = torn
    BY <1>0, <1>1, Stands DEF Unpack, tree, live, vault, export, rows, TypeOK
<1>3. op[p].archive \in Archives /\ code'[p] \in Codes /\ snaps'[p] \in SUBSET Codes
    BY <1>0, <1>1, <1>2, OpFields, ArchiveFields DEF Good, Importing
<1>4. TypeOK'
    BY <1>0, <1>1, <1>2, <1>3, Stands DEF Unpack, tree, live, vault, export, rows, TypeOK
<1>5. \A q \in Projects \ {p} : Same(q)
    BY <1>0, <1>1, <1>2 DEF Unpack, tree, live, vault, export, rows, Same, TypeOK
<1>6. Steady(p)'
    BY <1>0, <1>1, <1>2, <1>3, OpFields DEF Good, Steady, Matching, Creating, Exporting, Kinds
<1>7. DumpsMatch(p)'
    BY <1>0, <1>1, <1>2, <1>3 DEF Good, DumpsMatch
<1>8. Safeguard(p)'
    BY <1>0, <1>1, <1>2, <1>3 DEF Good, Safeguard, Saved
<1>9. Importing(p)'
    BY <1>0, <1>1, <1>2, <1>3 DEF Good, Importing, SameDigest
<1>10. Packing(p)'
    BY <1>0, <1>1, <1>2, <1>3 DEF Good, Packing, SameDigest
<1>11. Listed(p)'
    BY <1>0, <1>1, <1>2, <1>3 DEF Good, Listed, Importing
<1>12. Offered(p)'
    BY <1>0, <1>1, <1>2, <1>3 DEF Good, Offered, SameDigest, Exporting
<1> QED
    BY <1>4, <1>5, <1>6, <1>7, <1>8, <1>9, <1>10, <1>11, <1>12, Others

LEMMA DatabaseSound ==
  ASSUME IInv, NEW p \in Projects, Database(p)
  PROVE  IInv'
<1>0. TypeOK /\ Good(p)
    BY DEF IInv
<1>1. /\ op[p] \in Ops /\ op[p] # None /\ op[p].step = "database"
      /\ op' \in [Projects -> Ops \cup {None}] /\ op'[p] \in Ops /\ op'[p].step = "commit"
      /\ op'[p].kind = op[p].kind /\ op'[p].slot = op[p].slot /\ op'[p].from = op[p].from
      /\ op'[p].value = op[p].value /\ op'[p].code = op[p].code
      /\ op'[p].archive = op[p].archive /\ op'[p].wrote = op[p].wrote /\ op'[p] # None
      /\ \A q \in Projects \ {p} : op'[q] = op[q]
    BY <1>0, Stands, GotoAt, OpFields, Names DEF Database, Doing
<1>2. /\ code'[p] = code[p] /\ snaps'[p] = snaps[p] /\ store'[p] = op[p].archive.data
      /\ serving'[p] = serving[p] /\ dump'[p] = dump[p] /\ meta'[p] = meta[p]
      /\ plain'[p] = plain[p] /\ sealed'[p] = sealed[p] /\ receipt'[p] = receipt[p]
      /\ row'[p] = row[p] /\ versions'[p] = versions[p] /\ plan'[p] = plan[p]
      /\ cut' = cut /\ torn' = torn
    BY <1>0, <1>1, Stands DEF Database, tree, live, vault, export, rows, TypeOK
<1>3. op[p].archive \in Archives /\ store'[p] \in Values
    BY <1>0, <1>1, <1>2, OpFields, ArchiveFields DEF Good, Importing
<1>4. TypeOK'
    BY <1>0, <1>1, <1>2, <1>3, Stands DEF Database, tree, live, vault, export, rows, TypeOK
<1>5. \A q \in Projects \ {p} : Same(q)
    BY <1>0, <1>1, <1>2 DEF Database, tree, live, vault, export, rows, Same, TypeOK
<1>6. Steady(p)'
    BY <1>0, <1>1, <1>2, <1>3, OpFields DEF Good, Steady, Matching, Creating, Exporting, Kinds
<1>7. DumpsMatch(p)'
    BY <1>0, <1>1, <1>2, <1>3 DEF Good, DumpsMatch
<1>8. Safeguard(p)'
    BY <1>0, <1>1, <1>2, <1>3 DEF Good, Safeguard, Saved
<1>9. Importing(p)'
    BY <1>0, <1>1, <1>2, <1>3 DEF Good, Importing, SameDigest
<1>10. Packing(p)'
    BY <1>0, <1>1, <1>2, <1>3 DEF Good, Packing, SameDigest
<1>11. Listed(p)'
    BY <1>0, <1>1, <1>2, <1>3 DEF Good, Listed, Importing
<1>12. Offered(p)'
    BY <1>0, <1>1, <1>2, <1>3 DEF Good, Offered, SameDigest, Exporting
<1> QED
    BY <1>4, <1>5, <1>6, <1>7, <1>8, <1>9, <1>10, <1>11, <1>12, Others

LEMMA UndoSound ==
  ASSUME IInv, NEW p \in Projects, Undo(p)
  PROVE  IInv'
<1>0. TypeOK /\ Good(p)
    BY DEF IInv
<1>1. /\ op[p] \in Ops /\ op[p] # None /\ op[p].step = "undo"
      /\ op' \in [Projects -> Ops \cup {None}] /\ op'[p] = None
      /\ \A q \in Projects \ {p} : op'[q] = op[q]
    BY <1>0, Stands, StopAt, OpFields DEF Undo, Doing
<1>2. /\ code'[p] = None /\ snaps'[p] = {} /\ store'[p] \in {None, store[p]}
      /\ serving'[p] = serving[p] /\ dump'[p] = dump[p] /\ meta'[p] = meta[p]
      /\ plain'[p] = plain[p] /\ sealed'[p] = sealed[p] /\ receipt'[p] = receipt[p]
      /\ row'[p] = row[p] /\ versions'[p] = versions[p] /\ plan'[p] = plan[p]
      /\ cut' = cut /\ torn' = torn
    BY <1>0, <1>1, Stands DEF Undo, tree, live, vault, export, rows, TypeOK
<1>3. TypeOK'
    BY <1>0, <1>1, <1>2, Stands DEF Undo, tree, live, vault, export, rows, TypeOK
<1>4. \A q \in Projects \ {p} : Same(q)
    BY <1>0, <1>1, <1>2 DEF Undo, tree, live, vault, export, rows, Same, TypeOK
<1>5. Steady(p)'
    BY <1>0, <1>1, <1>2 DEF Good, Steady, Matching, Creating, Exporting
<1>6. DumpsMatch(p)'
    BY <1>0, <1>1, <1>2 DEF Good, DumpsMatch
<1>7. Safeguard(p)'
    BY <1>0, <1>1, <1>2 DEF Good, Safeguard, Saved
<1>8. Importing(p)'
    BY <1>0, <1>1, <1>2 DEF Good, Importing, SameDigest
<1>9. Packing(p)'
    BY <1>0, <1>1, <1>2 DEF Good, Packing, SameDigest
<1>10. Listed(p)'
    BY <1>0, <1>1, <1>2, OpFields DEF Good, Listed, Importing
<1>11. Offered(p)'
    BY <1>0, <1>1, <1>2 DEF Good, Offered, SameDigest, Exporting
<1> QED
    BY <1>3, <1>4, <1>5, <1>6, <1>7, <1>8, <1>9, <1>10, <1>11, Others

LEMMA ImportFailsSound ==
  ASSUME IInv, NEW p \in Projects, ImportFails(p)
  PROVE  IInv'
<1>0. TypeOK /\ Good(p)
    BY DEF IInv
<1>1. /\ op[p] \in Ops /\ op[p] # None /\ op[p].step \in {"unpack", "database", "commit"}
      /\ op' \in [Projects -> Ops \cup {None}] /\ op'[p] \in Ops /\ op'[p].step = "undo"
      /\ op'[p].kind = op[p].kind /\ op'[p].slot = op[p].slot /\ op'[p].from = op[p].from
      /\ op'[p].value = op[p].value /\ op'[p].code = op[p].code
      /\ op'[p].archive = op[p].archive /\ op'[p].wrote = op[p].wrote /\ op'[p] # None
      /\ \A q \in Projects \ {p} : op'[q] = op[q]
    BY <1>0, Stands, GotoAt, OpFields, Names DEF ImportFails
<1>2. /\ code'[p] = code[p] /\ snaps'[p] = snaps[p] /\ store'[p] = store[p]
      /\ serving'[p] = serving[p] /\ dump'[p] = dump[p] /\ meta'[p] = meta[p]
      /\ plain'[p] = plain[p] /\ sealed'[p] = sealed[p] /\ receipt'[p] = receipt[p]
      /\ row'[p] = row[p] /\ versions'[p] = versions[p] /\ plan'[p] = plan[p]
      /\ cut' = cut /\ torn' = torn
    BY <1>0, <1>1, Stands DEF ImportFails, tree, live, vault, export, rows, TypeOK
<1>3. TypeOK'
    BY <1>0, <1>1, <1>2, Stands DEF ImportFails, tree, live, vault, export, rows, TypeOK
<1>4. \A q \in Projects \ {p} : Same(q)
    BY <1>0, <1>1, <1>2 DEF ImportFails, tree, live, vault, export, rows, Same, TypeOK
<1>5. Steady(p)'
    BY <1>0, <1>1, <1>2, OpFields DEF Good, Steady, Matching, Creating, Exporting, Kinds
<1>6. DumpsMatch(p)'
    BY <1>0, <1>1, <1>2 DEF Good, DumpsMatch
<1>7. Safeguard(p)'
    BY <1>0, <1>1, <1>2 DEF Good, Safeguard, Saved
<1>8. Importing(p)'
    BY <1>0, <1>1, <1>2 DEF Good, Importing, SameDigest
<1>9. Packing(p)'
    BY <1>0, <1>1, <1>2 DEF Good, Packing, SameDigest
<1>10. Listed(p)'
    BY <1>0, <1>1, <1>2 DEF Good, Listed
<1>11. Offered(p)'
    BY <1>0, <1>1, <1>2 DEF Good, Offered, SameDigest, Exporting
<1> QED
    BY <1>3, <1>4, <1>5, <1>6, <1>7, <1>8, <1>9, <1>10, <1>11, Others

LEMMA UnplaceSound ==
  ASSUME IInv, NEW p \in Projects, Unplace(p)
  PROVE  IInv'
<1>0. TypeOK /\ Good(p)
    BY DEF IInv
<1>1. /\ op[p] \in Ops /\ op[p] # None /\ op[p].step \in {"dump", "place", "seal"}
      /\ op' \in [Projects -> Ops \cup {None}] /\ op'[p] = None
      /\ \A q \in Projects \ {p} : op'[q] = op[q]
    BY <1>0, Stands, StopAt, OpFields DEF Unplace, Creating
<1>2. /\ code'[p] = code[p] /\ snaps'[p] = snaps[p] /\ store'[p] = store[p]
      /\ serving'[p] = serving[p]
      /\ dump'[p] = IF op[p].slot = None THEN dump[p] ELSE [dump[p] EXCEPT ![op[p].slot] = None]
      /\ meta'[p] = meta[p] /\ plain'[p] = plain[p] /\ sealed'[p] = sealed[p]
      /\ receipt'[p] = receipt[p] /\ row'[p] = row[p] /\ versions'[p] = versions[p]
      /\ plan'[p] = plan[p] /\ cut' = cut /\ torn' = torn
    BY <1>0, <1>1, Stands DEF Unplace, tree, live, vault, export, rows, TypeOK
<1>3. /\ op[p].slot # None => op[p].slot \in Slots /\ meta[p][op[p].slot] = None
      /\ \A j \in Slots : dump'[p][j] = IF j = op[p].slot THEN None ELSE dump[p][j]
    BY <1>0, <1>1, <1>2, Stands, OpFields, NoneAssumption DEF Good, Safeguard
<1>4. TypeOK'
    BY <1>0, <1>1, <1>2, <1>3, Stands DEF Unplace, tree, live, vault, export, rows, TypeOK
<1>5. \A q \in Projects \ {p} : Same(q)
    BY <1>0, <1>1, <1>2 DEF Unplace, tree, live, vault, export, rows, Same, TypeOK
<1>6. Steady(p)'
    BY <1>0, <1>1, <1>2, <1>3 DEF Good, Steady, Matching, Creating, Exporting
<1>7. DumpsMatch(p)'
    BY <1>0, <1>1, <1>2, <1>3 DEF Good, DumpsMatch
<1>8. Safeguard(p)'
    BY <1>0, <1>1, <1>2, <1>3 DEF Good, Safeguard, Saved
<1>9. Importing(p)'
    BY <1>0, <1>1, <1>2, <1>3 DEF Good, Importing, SameDigest
<1>10. Packing(p)'
    BY <1>0, <1>1, <1>2, <1>3 DEF Good, Packing, SameDigest
<1>11. Listed(p)'
    BY <1>0, <1>1, <1>2, <1>3 DEF Good, Listed
<1>12. Offered(p)'
    BY <1>0, <1>1, <1>2, <1>3 DEF Good, Offered, SameDigest, Exporting
<1> QED
    BY <1>4, <1>5, <1>6, <1>7, <1>8, <1>9, <1>10, <1>11, <1>12, Others

LEMMA AppWritesSound ==
  ASSUME IInv, NEW p \in Projects, AppWrites(p)
  PROVE  IInv'
<1>0. TypeOK /\ Good(p)
    BY DEF IInv
<1>1. /\ serving[p] /\ op' \in [Projects -> Ops \cup {None}]
      /\ op[p] = None => op'[p] = None
      /\ op[p] # None =>
           /\ op[p] \in Ops /\ op'[p] \in Ops /\ op'[p] # None /\ op'[p].step = op[p].step
           /\ op'[p].kind = op[p].kind /\ op'[p].slot = op[p].slot /\ op'[p].from = op[p].from
           /\ op'[p].value = op[p].value /\ op'[p].code = op[p].code
           /\ op'[p].archive = op[p].archive /\ (op[p].value # None => op'[p].wrote)
      /\ \A q \in Projects \ {p} : op'[q] = op[q]
  <2>1. CASE ~(op[p] # None /\ op[p].value # None)
      BY <1>0, <2>1, Stands, OpFields DEF AppWrites, TypeOK
  <2>2. CASE op[p] # None /\ op[p].value # None
    <3> DEFINE o == [op[p] EXCEPT !.wrote = TRUE]
    <3>1. op[p] \in Ops /\ serving[p]
        BY <1>0, <2>2, Stands DEF AppWrites
    <3>2. /\ o \in Ops /\ o.step = op[p].step /\ o.kind = op[p].kind /\ o.slot = op[p].slot
          /\ o.from = op[p].from /\ o.value = op[p].value /\ o.code = op[p].code
          /\ o.archive = op[p].archive /\ o.wrote
        BY <3>1 DEF Ops
    <3>3. op' = [op EXCEPT ![p] = o]
        BY <2>2 DEF AppWrites
    <3> HIDE DEF o
    <3> QED
        BY <1>0, <2>2, <3>1, <3>2, <3>3, Changed, OpFields
  <2> QED
      BY <2>1, <2>2
<1>2. /\ code'[p] = code[p] /\ snaps'[p] = snaps[p] /\ store'[p] \in Values
      /\ serving'[p] = serving[p] /\ dump'[p] = dump[p] /\ meta'[p] = meta[p]
      /\ plain'[p] = plain[p] /\ sealed'[p] = sealed[p] /\ receipt'[p] = receipt[p]
      /\ row'[p] = row[p] /\ versions'[p] = versions[p] /\ plan'[p] = plan[p]
      /\ cut' = cut /\ torn' = torn
    BY <1>0, <1>1, Stands DEF AppWrites, tree, live, vault, export, rows, TypeOK
<1>3. row[p] /\ store'[p] # None
    BY <1>0, <1>1, <1>2, NoneAssumption DEF Good, Listed
<1>4. TypeOK'
    BY <1>0, <1>1, <1>2, <1>3, Stands DEF AppWrites, tree, live, vault, export, rows, TypeOK
<1>5. \A q \in Projects \ {p} : Same(q)
    BY <1>0, <1>1, <1>2 DEF AppWrites, tree, live, vault, export, rows, Same, TypeOK
<1>6. Steady(p)'
    BY <1>0, <1>1, <1>2, <1>3 DEF Good, Steady, Matching, Creating, Exporting
<1>7. DumpsMatch(p)'
    BY <1>0, <1>1, <1>2, <1>3 DEF Good, DumpsMatch
<1>8. Safeguard(p)'
    BY <1>0, <1>1, <1>2, <1>3 DEF Good, Safeguard, Saved
<1>9. Importing(p)'
    BY <1>0, <1>1, <1>2, <1>3 DEF Good, Importing, SameDigest
<1>10. Packing(p)'
    BY <1>0, <1>1, <1>2, <1>3 DEF Good, Packing, SameDigest
<1>11. Listed(p)'
    BY <1>0, <1>1, <1>2, <1>3 DEF Good, Listed
<1>12. Offered(p)'
    BY <1>0, <1>1, <1>2, <1>3 DEF Good, Offered, SameDigest, Exporting
<1> QED
    BY <1>4, <1>5, <1>6, <1>7, <1>8, <1>9, <1>10, <1>11, <1>12, Others

LEMMA EditSound ==
  ASSUME IInv, NEW p \in Projects, Edit(p)
  PROVE  IInv'
<1>0. TypeOK /\ Good(p)
    BY DEF IInv
<1>1. /\ op' = op /\ row[p]
      /\ (op[p] # None /\ op[p].step = "digest" => p \in torn') /\ (p \in torn => p \in torn')
    BY <1>0, Stands DEF Edit
<1>2. /\ code'[p] \in Codes /\ snaps'[p] = snaps[p] /\ store'[p] = store[p]
      /\ serving'[p] = serving[p] /\ dump'[p] = dump[p] /\ meta'[p] = meta[p]
      /\ plain'[p] = plain[p] /\ sealed'[p] = sealed[p] /\ receipt'[p] = receipt[p]
      /\ row'[p] = row[p] /\ versions'[p] = versions[p] /\ plan'[p] = plan[p]
      /\ cut' = cut /\ torn' \in {torn, torn \cup {p}}
    BY <1>0, <1>1, Stands DEF Edit, tree, live, vault, export, rows, TypeOK
<1>3. code'[p] # None
    BY <1>2, NoneAssumption
<1>4. TypeOK'
    BY <1>0, <1>1, <1>2, <1>3, Stands DEF Edit, tree, live, vault, export, rows, TypeOK
<1>5. \A q \in Projects \ {p} : Same(q)
    BY <1>0, <1>1, <1>2 DEF Edit, tree, live, vault, export, rows, Same, TypeOK
<1>6. Steady(p)'
    BY <1>0, <1>1, <1>2, <1>3 DEF Good, Steady, Matching, Creating, Exporting
<1>7. DumpsMatch(p)'
    BY <1>0, <1>1, <1>2, <1>3 DEF Good, DumpsMatch
<1>8. Safeguard(p)'
    BY <1>0, <1>1, <1>2, <1>3 DEF Good, Safeguard, Saved
<1>9. Importing(p)'
    BY <1>0, <1>1, <1>2, <1>3 DEF Good, Importing, SameDigest
<1>10. Packing(p)'
    BY <1>0, <1>1, <1>2, <1>3 DEF Good, Packing, SameDigest
<1>11. Listed(p)'
    BY <1>0, <1>1, <1>2, <1>3 DEF Good, Listed
<1>12. Offered(p)'
    BY <1>0, <1>1, <1>2, <1>3 DEF Good, Offered, SameDigest, Exporting
<1> QED
    BY <1>4, <1>5, <1>6, <1>7, <1>8, <1>9, <1>10, <1>11, <1>12, Others

LEMMA SealSound ==
  ASSUME IInv, NEW p \in Projects, Seal(p)
  PROVE  IInv'
<1>0. TypeOK /\ Good(p)
    BY DEF IInv
<1>1. /\ op[p] \in Ops /\ op[p] # None /\ op[p].step = "seal"
      /\ op' \in [Projects -> Ops \cup {None}]
      /\ op'[p] # None =>
           /\ op'[p] \in Ops /\ op'[p].kind = op[p].kind /\ op'[p].slot = op[p].slot
           /\ op'[p].from = op[p].from /\ op'[p].value = op[p].value
           /\ op'[p].wrote = op[p].wrote
           /\ \/ op[p].kind = "preview" /\ op'[p].step = "migrate"
              \/ op[p].kind = "restore" /\ op'[p].step = "stop"
              \/ op[p].kind = "export" /\ op'[p].step = "source"
      /\ \A q \in Projects \ {p} : op'[q] = op[q]
  <2>1. op[p] \in Ops /\ op[p] # None /\ op[p].step = "seal"
      BY <1>0, Stands DEF Seal, Doing
  <2>2. CASE Stop(p)
      BY <1>0, <2>1, <2>2, StopAt
  <2>3. CASE op[p].kind = "preview" /\ Goto(p, "migrate")
      BY <1>0, <2>1, <2>3, GotoAt, Names
  <2>4. CASE op[p].kind = "restore" /\ Goto(p, "stop")
      BY <1>0, <2>1, <2>4, GotoAt, Names
  <2>5. CASE op[p].kind = "export" /\ Goto(p, "source")
      BY <1>0, <2>1, <2>5, GotoAt, Names
  <2> QED
      BY <2>2, <2>3, <2>4, <2>5 DEF Seal
<1>2. /\ code'[p] = code[p] /\ snaps'[p] = snaps[p] /\ store'[p] = store[p]
      /\ serving'[p] = serving[p] /\ dump'[p] = dump[p]
      /\ meta'[p] = [meta[p] EXCEPT ![op[p].slot] = op[p].value] /\ plain'[p] = plain[p]
      /\ sealed'[p] = sealed[p] /\ receipt'[p] = receipt[p] /\ row'[p] = row[p]
      /\ versions'[p] = versions[p] /\ plan'[p] = plan[p] /\ cut' = cut /\ torn' = torn
    BY <1>0, <1>1, Stands DEF Seal, Stop, Goto, tree, live, vault, export, rows, TypeOK
<1>3. /\ op[p].slot \in Slots /\ op[p].value \in Values /\ op[p].value # None
      /\ \A j \in Slots : meta'[p][j] = IF j = op[p].slot THEN op[p].value ELSE meta[p][j]
    BY <1>0, <1>1, <1>2, Stands, OpFields DEF Good, Safeguard, Saved
<1>4. TypeOK'
    BY <1>0, <1>1, <1>2, <1>3, Stands
      DEF Seal, Stop, Goto, tree, live, vault, export, rows, TypeOK
<1>5. \A q \in Projects \ {p} : Same(q)
    BY <1>0, <1>1, <1>2 DEF Seal, Stop, Goto, tree, live, vault, export, rows, Same, TypeOK
<1>6. Steady(p)'
    BY <1>0, <1>1, <1>2, <1>3 DEF Good, Steady, Matching, Creating, Exporting
<1>7. DumpsMatch(p)'
    BY <1>0, <1>1, <1>2, <1>3 DEF Good, DumpsMatch, Safeguard
<1>8. Safeguard(p)'
    BY <1>0, <1>1, <1>2, <1>3 DEF Good, Safeguard, Saved
<1>9. Importing(p)'
    BY <1>0, <1>1, <1>2, <1>3 DEF Good, Importing, SameDigest
<1>10. Packing(p)'
    BY <1>0, <1>1, <1>2, <1>3 DEF Good, Packing, SameDigest
<1>11. Listed(p)'
    BY <1>0, <1>1, <1>2, <1>3 DEF Good, Listed
<1>12. Offered(p)'
    BY <1>0, <1>1, <1>2, <1>3 DEF Good, Offered, SameDigest, Exporting
<1> QED
    BY <1>4, <1>5, <1>6, <1>7, <1>8, <1>9, <1>10, <1>11, <1>12, Others

LEMMA ExportFailsSound ==
  ASSUME IInv, NEW p \in Projects, ExportFails(p)
  PROVE  IInv'
<1>0. TypeOK /\ Good(p)
    BY DEF IInv
<1>1. /\ op[p] \in Ops /\ op[p] # None
      /\ op[p].step \in {"source", "digest", "pack", "encrypt", "receipt"}
      /\ op' \in [Projects -> Ops \cup {None}] /\ op'[p] = None
      /\ \A q \in Projects \ {p} : op'[q] = op[q]
    BY <1>0, Stands, StopAt, OpFields DEF ExportFails, Exporting
<1>2. /\ code'[p] = code[p] /\ snaps'[p] = snaps[p] /\ store'[p] = store[p]
      /\ serving'[p] = serving[p] /\ dump'[p] = dump[p] /\ meta'[p] = meta[p]
      /\ plain'[p] = FALSE /\ sealed'[p] = None /\ receipt'[p] \in BOOLEAN
      /\ row'[p] = row[p] /\ versions'[p] = versions[p] /\ plan'[p] = plan[p]
      /\ cut' \in {cut, cut \cup {p}}
      /\ receipt'[p] # receipt[p] => p \in cut'
      /\ torn' = torn
    BY <1>0, <1>1, Stands DEF ExportFails, tree, live, vault, export, rows, TypeOK
<1>3. row[p] /\ (receipt'[p] => p \in cut')
    BY <1>0, <1>1, <1>2, OpFields DEF Good, Packing, Steady, Matching, Kinds,
       Creating
<1>4. TypeOK'
    BY <1>0, <1>1, <1>2, <1>3, Stands DEF ExportFails, tree, live, vault, export, rows, TypeOK
<1>5. \A q \in Projects \ {p} : Same(q)
    BY <1>0, <1>1, <1>2 DEF ExportFails, tree, live, vault, export, rows, Same, TypeOK
<1>6. Steady(p)'
    BY <1>0, <1>1, <1>2, <1>3 DEF Good, Steady, Matching, Creating, Exporting
<1>7. DumpsMatch(p)'
    BY <1>0, <1>1, <1>2, <1>3 DEF Good, DumpsMatch
<1>8. Safeguard(p)'
    BY <1>0, <1>1, <1>2, <1>3 DEF Good, Safeguard, Saved
<1>9. Importing(p)'
    BY <1>0, <1>1, <1>2, <1>3 DEF Good, Importing, SameDigest
<1>10. Packing(p)'
    BY <1>0, <1>1, <1>2, <1>3 DEF Good, Packing, SameDigest
<1>11. Listed(p)'
    BY <1>0, <1>1, <1>2, <1>3 DEF Good, Listed
<1>12. Offered(p)'
    BY <1>0, <1>1, <1>2, <1>3 DEF Good, Offered, SameDigest, Exporting
<1> QED
    BY <1>4, <1>5, <1>6, <1>7, <1>8, <1>9, <1>10, <1>11, <1>12, Others

LEMMA RecoveredTyped == ASSUME NEW pl \in PlanRows PROVE Recovered(pl) \in PlanRows
BY DEF Recovered, PlanRows, PlanStates

LEMMA CommitSound ==
  ASSUME IInv, NEW p \in Projects, Commit(p)
  PROVE  IInv'
<1>0. TypeOK /\ Good(p)
    BY DEF IInv
<1>1. /\ op[p] \in Ops /\ op[p] # None /\ op[p].step = "commit"
      /\ op' \in [Projects -> Ops \cup {None}]
      /\ \/ op'[p] = None /\ cut' = cut
         \/ /\ op'[p] \in Ops /\ op'[p] # None /\ op'[p].step = "undo" /\ cut' = cut \cup {p}
            /\ op'[p].kind = op[p].kind
      /\ \A q \in Projects \ {p} : op'[q] = op[q]
  <2>1. op[p] \in Ops /\ op[p] # None /\ op[p].step = "commit"
      BY <1>0, Stands DEF Commit, Doing
  <2>2. CASE Stop(p) /\ UNCHANGED cut
      BY <1>0, <2>1, <2>2, StopAt
  <2>3. CASE Goto(p, "undo") /\ cut' = cut \cup {p}
      BY <1>0, <2>1, <2>3, GotoAt, OpFields, Names
  <2> QED
      BY <2>2, <2>3 DEF Commit
<1>2. /\ code'[p] = code[p] /\ snaps'[p] = snaps[p] \cup versions'[p]
      /\ store'[p] = store[p] /\ serving'[p] = serving[p] /\ dump'[p] = dump[p]
      /\ meta'[p] = meta[p] /\ plain'[p] = plain[p] /\ sealed'[p] = sealed[p]
      /\ receipt'[p] = receipt[p] /\ row'[p] = TRUE
      /\ versions'[p] = IF op[p].archive.versions = {} THEN {code[p]} ELSE op[p].archive.versions
      /\ plan'[p] = Recovered(op[p].archive.plan) /\ cut' \in {cut, cut \cup {p}}
      /\ torn' = torn
    BY <1>0, <1>1, Stands DEF Commit, Insert, tree, live, vault, export, rows, TypeOK
<1>3. /\ op[p].archive \in Archives /\ code[p] \in Codes /\ code[p] # None
      /\ store[p] = op[p].archive.data /\ op[p].kind = "import"
    BY <1>0, <1>1, OpFields, ArchiveFields
      DEF Good, Importing, Steady, Matching, Creating, Exporting, Kinds
<1>4. versions'[p] \in SUBSET Codes /\ versions'[p] # {} /\ store[p] # None
    BY <1>2, <1>3, ArchiveFields
<1>5. snaps'[p] \in SUBSET Codes /\ versions'[p] \subseteq snaps'[p]
    BY <1>0, <1>2, <1>4, Stands
<1>6. plan'[p] \in PlanRows /\ plan'[p] # None
    BY <1>2, <1>3, ArchiveFields, RecoveredTyped, NoneAssumption
<1>7. TypeOK'
    BY <1>0, <1>1, <1>2, <1>3, <1>4, <1>5, <1>6, Stands
      DEF Commit, Insert, tree, live, vault, export, rows, TypeOK
<1>8. \A q \in Projects \ {p} : Same(q)
    BY <1>0, <1>1, <1>2 DEF Commit, Insert, tree, live, vault, export, rows, Same, TypeOK
<1>9. Steady(p)'
    BY <1>0, <1>1, <1>2, <1>3, <1>4, <1>5, <1>6 DEF Good, Steady, Matching, Creating, Exporting
<1>10. DumpsMatch(p)'
    BY <1>0, <1>1, <1>2, <1>3, <1>4, <1>5, <1>6 DEF Good, DumpsMatch
<1>11. Safeguard(p)'
    BY <1>0, <1>1, <1>2, <1>3, <1>4, <1>5, <1>6 DEF Good, Safeguard, Saved
<1>12. Importing(p)'
    BY <1>0, <1>1, <1>2, <1>3, <1>4, <1>5, <1>6 DEF Good, Importing, SameDigest
<1>13. Packing(p)'
    BY <1>0, <1>1, <1>2, <1>3, <1>4, <1>5, <1>6 DEF Good, Packing, SameDigest
<1>14. Listed(p)'
    BY <1>0, <1>1, <1>2, <1>3, <1>4, <1>5, <1>6 DEF Good, Listed
<1>15. Offered(p)'
    BY <1>0, <1>1, <1>2, <1>3, <1>4, <1>5, <1>6 DEF Good, Offered, SameDigest, Exporting
<1> QED
    BY <1>7, <1>8, <1>9, <1>10, <1>11, <1>12, <1>13, <1>14, <1>15, Others

LEMMA DamageSound == ASSUME IInv, Damage PROVE IInv'
<1>1. copy \in Archives
    BY DEF Damage, IInv, TypeOK
<1>2. copy' \in Archives
    BY <1>1 DEF Damage, Archives
<1>3. TypeOK'
    BY <1>2 DEF Damage, IInv, TypeOK, tree, live, vault, export, rows
<1>4. \A q \in Projects : Same(q)
    BY DEF Damage, Same, tree, live, vault, export, rows
<1> QED
    BY <1>3, <1>4, SameGood DEF IInv

(* The builder dies: what an import or an export was doing stays as it is.    *)
LEMMA CrashSound == ASSUME IInv, Crash PROVE IInv'
<1>1. TypeOK'
    BY DEF Crash, IInv, TypeOK, tree, live, vault, export, rows
<1>2. ASSUME NEW p \in Projects
      PROVE  Good(p)'
  <2>0. TypeOK /\ Good(p)
      BY DEF IInv
  <2>1. /\ op'[p] = None /\ (p \in cut => p \in cut')
        /\ op[p] # None /\ op[p].kind = "export" => p \in cut'
      BY DEF Crash
  <2>2. /\ code'[p] = code[p] /\ snaps'[p] = snaps[p] /\ store'[p] = store[p]
        /\ serving'[p] = serving[p] /\ dump'[p] = dump[p] /\ meta'[p] = meta[p]
        /\ plain'[p] = plain[p] /\ sealed'[p] = sealed[p] /\ receipt'[p] = receipt[p]
        /\ row'[p] = row[p] /\ versions'[p] = versions[p] /\ plan'[p] = plan[p] /\ torn' = torn
      BY DEF Crash, tree, live, vault, export, rows
  <2>3. plain[p] /\ p \notin cut => p \in cut'
      BY <2>0, <2>1, Stands, OpFields
        DEF Good, Offered, Steady, Matching, Creating, Exporting, Kinds
  <2>4. Steady(p)' /\ DumpsMatch(p)' /\ Safeguard(p)' /\ Importing(p)' /\ Packing(p)'
      BY <2>0, <2>1, <2>2 DEF Good, Steady, DumpsMatch, Safeguard, Importing, Packing
  <2>5. Listed(p)' /\ Offered(p)'
      BY <2>0, <2>1, <2>2, <2>3 DEF Good, Listed, Offered, SameDigest
  <2> QED
      BY <2>4, <2>5 DEF Good
<1> QED
    BY <1>1, <1>2 DEF IInv

LEMMA InitSound == Init => IInv
<1> SUFFICES ASSUME Init PROVE IInv
    OBVIOUS
<1>0. PICK c \in Codes, v \in Values, pl \in Plans :
        /\ code = [p \in Projects |-> IF p = Origin THEN c ELSE None]
        /\ snaps = [p \in Projects |-> IF p = Origin THEN {c} ELSE {}] /\ versions = snaps
        /\ store = [p \in Projects |-> IF p = Origin THEN v ELSE None]
        /\ serving = [p \in Projects |-> FALSE]
        /\ dump = [p \in Projects |-> [i \in Slots |-> None]] /\ meta = dump
        /\ plain = [p \in Projects |-> FALSE] /\ sealed = [p \in Projects |-> None]
        /\ row = [p \in Projects |-> p = Origin] /\ receipt = plain
        /\ plan = [p \in Projects |-> IF p = Origin THEN pl ELSE None]
        /\ copy = None /\ op = [p \in Projects |-> None] /\ ops = 0
        /\ cut = {} /\ torn = {}
    BY DEF Init
<1>1. pl \in PlanRows /\ MaxOps \in Nat
    BY RecoveryAssumption
<1>2. TypeOK
    BY <1>0, <1>1 DEF TypeOK
<1>3. ASSUME NEW p \in Projects
      PROVE  Good(p)
  <2>1. Steady(p) /\ DumpsMatch(p) /\ Safeguard(p) /\ Importing(p) /\ Packing(p) /\ Offered(p)
      BY <1>0 DEF Steady, DumpsMatch, Safeguard, Importing, Packing, Offered
  <2>2. Listed(p)
      BY <1>0, <1>1, NoneAssumption DEF Listed
  <2> QED
      BY <2>1, <2>2 DEF Good
<1> QED
    BY <1>2, <1>3 DEF IInv

LEMMA InvInductive == IInv /\ [Next]_vars => IInv'
<1> SUFFICES ASSUME IInv, [Next]_vars PROVE IInv'
    OBVIOUS
<1>1. CASE UNCHANGED vars
  <2>1. TypeOK' /\ \A q \in Projects : Same(q)
      BY <1>1 DEF vars, tree, live, vault, export, rows, Same, IInv, TypeOK
  <2> QED
      BY <2>1, SameGood DEF IInv
<1>2. CASE Damage \/ Crash
    BY <1>2, DamageSound, CrashSound
<1>3. ASSUME NEW p \in Projects,
             \/ AppWrites(p) \/ Edit(p) \/ SaveVersion(p)
             \/ Backup(p) \/ Preview(p) \/ Export(p) \/ Import(p) \/ Download(p)
             \/ Place(p) \/ Seal(p) \/ Unplace(p) \/ Fail(p)
             \/ Migrate(p) \/ StartApp(p) \/ Halt(p) \/ StopApp(p) \/ RestoreDb(p)
      PROVE  IInv'
    BY <1>3, AppWritesSound, EditSound, SaveVersionSound, BackupSound, PreviewSound,
      ExportSound,
       ImportSound, DownloadSound, PlaceSound, SealSound, UnplaceSound, FailSound, MigrateSound,
       StartAppSound, HaltSound, StopAppSound, RestoreDbSound
<1>4. ASSUME NEW p \in Projects,
             \/ ReadSource(p) \/ ReadManifest(p) \/ Pack(p) \/ Encrypt(p) \/ InsertReceipt(p)
             \/ ExportFails(p)
             \/ Unpack(p) \/ Database(p) \/ Commit(p) \/ ImportFails(p) \/ Undo(p)
      PROVE  IInv'
    BY <1>4, ReadSourceSound, ReadManifestSound, PackSound, EncryptSound, InsertReceiptSound,
       ExportFailsSound, UnpackSound, DatabaseSound, CommitSound, ImportFailsSound, UndoSound
<1>5. ASSUME NEW p \in Projects, NEW i \in Slots, Restore(p, i) \/ Dump(p, i)
      PROVE  IInv'
    BY <1>5, RestoreSound, DumpSound
<1> QED
    BY <1>1, <1>2, <1>3, <1>4, <1>5 DEF Next

(* The inductive invariant: what the listed projects and backups stand for,   *)
(* and what each operation has read, put on disk and still owes at each of    *)
(* its steps (create, import_archive and the restores of a backup).           *)
THEOREM RecoveryInvariant == Spec => []IInv
BY InitSound, InvInductive, PTL DEF Spec

(* ProjectsWhole: a listed project has its files, its database and a snapshot *)
(* of each version; a listed backup has its dump and a listed export a file   *)
(* that can be imported; no plaintext archive outlives its export.            *)
THEOREM WholeSound == Spec => []ProjectsWhole
<1>1. IInv => ProjectsWhole
    BY DEF IInv, ProjectsWhole, ListedIsWhole, OfferedIsWhole, Good, Listed, Offered, DumpsMatch
<1> QED
    BY <1>1, RecoveryInvariant, PTL

(* DataKept: what replaces a database has a usable backup of it behind it.    *)
THEOREM DataKeptSound == Spec => DataKept
<1> DEFINE Kept == \A p \in Projects :
         (row[p] /\ store'[p] # store[p] /\ (Doing(p, "migrate") \/ Doing(p, "restore"))
          /\ ~AppWrites(p))
         => op[p].wrote \/ \E i \in Slots : Verified(p, i) /\ dump[p][i] = store[p]
<1>1. ASSUME IInv, NEW p \in Projects, Doing(p, "migrate") \/ Doing(p, "restore")
      PROVE  op[p].wrote \/ \E i \in Slots : Verified(p, i) /\ dump[p][i] = store[p]
  <2>1. Safeguard(p) /\ DumpsMatch(p)
      BY <1>1 DEF IInv, Good
  <2>2. /\ op[p].slot \in Slots /\ meta[p][op[p].slot] = op[p].value /\ op[p].value # None
        /\ op[p].wrote \/ op[p].value = store[p]
      BY <1>1, <2>1 DEF Safeguard, Saved, Doing
  <2>3. Verified(p, op[p].slot) /\ dump[p][op[p].slot] = op[p].value
      BY <2>1, <2>2 DEF DumpsMatch, Verified
  <2> QED
      BY <2>2, <2>3
<1>2. IInv /\ [Next]_vars => [Kept]_vars
    BY <1>1
<1> QED
    BY <1>2, RecoveryInvariant, PTL DEF Spec, DataKept

(* Only the transaction at the end of an import lists a project.              *)
LEMMA ListedByCommit ==
  ASSUME IInv, Next, NEW p \in Projects, row'[p], ~row[p]
  PROVE  Commit(p)
<1>1. row \in [Projects -> BOOLEAN]
    BY DEF IInv, TypeOK
<1>2. ASSUME NEW q \in Projects, Commit(q)
      PROVE  Commit(p)
  <2>1. row' = [row EXCEPT ![q] = TRUE]
      BY <1>2 DEF Commit, Insert
  <2>2. q = p
      BY <1>1, <2>1
  <2> QED
      BY <1>2, <2>2
<1>3. ASSUME NEW q \in Projects, NEW i \in Slots, Restore(q, i) \/ Dump(q, i) PROVE UNCHANGED row
    BY <1>3 DEF Restore, Dump, rows
<1>4. ASSUME Damage \/ Crash PROVE UNCHANGED row
    BY <1>4 DEF Damage, Crash, rows
<1>5. ASSUME NEW q \in Projects,
             \/ AppWrites(q) \/ Edit(q) \/ SaveVersion(q)
             \/ Backup(q) \/ Preview(q) \/ Export(q) \/ Import(q) \/ Download(q)
             \/ Place(q) \/ Seal(q) \/ Unplace(q) \/ Fail(q)
             \/ Migrate(q) \/ StartApp(q) \/ Halt(q) \/ StopApp(q) \/ RestoreDb(q)
      PROVE  UNCHANGED row
    BY <1>5
      DEF AppWrites, Edit, SaveVersion, Backup, Preview, Export, Import, Download, Place, Seal,
       Unplace, Fail, Migrate, StartApp, Halt, StopApp, RestoreDb, rows
<1>6. ASSUME NEW q \in Projects,
             \/ ReadSource(q) \/ ReadManifest(q) \/ Pack(q) \/ Encrypt(q) \/ InsertReceipt(q)
             \/ ExportFails(q) \/ Unpack(q) \/ Database(q) \/ ImportFails(q) \/ Undo(q)
      PROVE  UNCHANGED row
    BY <1>6
      DEF ReadSource, ReadManifest, Pack, Encrypt, InsertReceipt, ExportFails, Unpack, Database,
       ImportFails, Undo, rows
<1> QED
    BY <1>2, <1>3, <1>4, <1>5, <1>6 DEF Next

(* What the import's plan keeps of the exported one.                          *)
LEMMA RecoveredKeeps ==
  ASSUME NEW pl \in PlanRows
  PROVE  LET r == Recovered(pl) IN
         /\ r.status = "needs_review" /\ r.item \in {"completed", "needs_review"}
         /\ (r.item = "completed") = (pl.item = "completed")
         /\ r.usage + r.reserved = pl.usage + pl.reserved
BY DEF Recovered

(* ImportedAsExported: a project that appears is the one that was exported,   *)
(* with its plans paused and their bills and reservations kept.               *)
THEOREM ImportedSound == Spec => ImportedAsExported
<1> DEFINE As(p) == LET archive == op[p].archive IN
       /\ code'[p] = archive.digest /\ store'[p] = archive.data
       /\ archive.versions \subseteq versions'[p]
       /\ plan'[p].status = "needs_review" /\ plan'[p].item \in {"completed", "needs_review"}
       /\ (plan'[p].item = "completed") = (archive.plan.item = "completed")
       /\ plan'[p].usage + plan'[p].reserved = archive.plan.usage + archive.plan.reserved
<1>1. ASSUME IInv, NEW p \in Projects, Commit(p) PROVE As(p)
  <2>0. TypeOK /\ Good(p)
      BY <1>1 DEF IInv
  <2>1. op[p] \in Ops /\ op[p] # None /\ op[p].step = "commit"
      BY <1>1, <2>0, Stands DEF Commit, Doing
  <2>2. /\ op[p].archive \in Archives /\ op[p].archive.plan \in PlanRows
        /\ code[p] = op[p].archive.digest /\ store[p] = op[p].archive.data
      BY <2>0, <2>1, OpFields, ArchiveFields DEF Good, Importing, SameDigest
  <2>3. /\ code'[p] = code[p] /\ store'[p] = store[p] /\ plan'[p] = Recovered(op[p].archive.plan)
        /\ op[p].archive.versions \subseteq versions'[p]
      BY <1>1, <2>0 DEF Commit, Insert, TypeOK, live
  <2> QED
      BY <2>2, <2>3, RecoveredKeeps
<1> HIDE DEF As
<1>2. IInv /\ [Next]_vars => [\A p \in Projects : row'[p] /\ ~row[p] => As(p)]_vars
    BY <1>1, ListedByCommit
<1>3. Spec => [][\A p \in Projects : row'[p] /\ ~row[p] => As(p)]_vars
    BY <1>2, RecoveryInvariant, PTL DEF Spec
<1> QED
    BY <1>3 DEF ImportedAsExported, As

-----------------------------------------------------------------------------
(* The releases.                                                              *)
(* Whatever was or may be served passed staging.                               *)
PassedAgree ==
  /\ staged \in passed \cup {Missing}
  /\ state.current \in passed \cup {Missing} /\ state.previous \in passed \cup {Missing}
  /\ command # Missing /\ command.kind \in {"deploy", "rollback"} => command.data \in passed

(* All backups were made with one key.  An empty key file means there is none. *)
KeysAgree ==
  /\ \A i, j \in Ids : backups[i] # Missing /\ backups[j] # Missing =>
       backups[i].key = backups[j].key
  /\ key = 0 => \A i \in Ids : backups[i] = Missing
  /\ KeyOpensAll

(* Which operation takes which steps, and with which backup.                   *)
StepsAgree ==
  command # Missing =>
    /\ command.step \in {"record", "check", "fail"} => command.kind = "deploy"
    /\ command.step \in {"migrate", "up", "close"} => command.kind \in {"deploy", "rollback"}
    /\ command.kind = "rollback" => command.step \in {"migrate", "up", "close"}
    /\ command.step \in {"drill", "record", "migrate"} /\ command.kind # "rollback"
         => command.backup # Missing
    /\ command.step = "key" => command.backup = Missing
    /\ command.backup # Missing => backups[command.backup] # Missing

(* A deployment migrates a database whose backup was restored once.            *)
BackedUp ==
  command # Missing /\ command.kind = "deploy" =>
    /\ command.backup # Missing
       /\ command.step \in {"backup", "dump", "drill", "record", "migrate"} =>
         backups[command.backup].ledger = ledger
    /\ command.step \in {"record", "migrate"} => backups[command.backup].record = "restored"
    /\ command.step \in {"migrate", "up", "check", "fail", "close"} => state.phase = "deploying"

(* How far the containers are, and what a rollback that is cut short leaves.   *)
RolledOut ==
  command # Missing =>
    /\ command.step \in {"backup", "key", "dump", "drill", "record", "migrate"}
         => command.service = 1
    /\ command.step \in {"up", "check", "close"} =>
         \A s \in 1..Services : s < command.service => running[s] = command.data
    /\ command.step \in {"check", "close"} => command.service = Services + 1
    /\ command.step = "close" \/ command.kind = "rollback" => ledger = Needs[command.data.release]
    /\ command.kind = "rollback" /\ state.phase = "healthy" =>
         /\ command.data = state.previous
         /\ strayed \/ \A s \in 1..Services : s >= command.service => running[s] = state.current

(* The inductive invariant.                                                    *)
ReleaseInv == ReleaseTypeOK /\ OnlyStagedRuns /\ PassedAgree /\ KeysAgree /\ StepsAgree /\ BackedUp
               /\ RolledOut /\ HealthyIsServed

CommandKinds == {"deploy", "rollback", "backup", "drill"}
CommandSteps == {"backup", "key", "dump", "drill", "record", "migrate", "up", "check", "fail",
                 "close"}

-----------------------------------------------------------------------------
(* The records: what they are made of, and how they are changed.               *)
LEMMA ConstantFacts ==
  /\ Services \in Nat /\ MaxImages \in Nat /\ MaxBackups \in Nat /\ MaxKeys \in Nat
  /\ Needs \in [Releases -> SUBSET Migrations]
  /\ Missing \notin Nat /\ Missing \notin Backups /\ Missing \notin Data /\ Missing \notin Commands
BY ReleaseOpsAssumption, MissingAssumption

LEMMA CommandFields ==
  ASSUME NEW o \in Commands
  PROVE  /\ o.kind \in CommandKinds /\ o.data \in Data /\ o.step \in CommandSteps
         /\ o.service \in 1..(Services + 1) /\ o.backup \in Ids \cup {Missing}
BY DEF Commands, CommandKinds, CommandSteps

LEMMA CommandMoved ==
  ASSUME NEW o \in Commands, NEW step \in CommandSteps
  PROVE  LET n == [o EXCEPT !.step = step] IN
         /\ n \in Commands /\ n.step = step /\ n.kind = o.kind /\ n.data = o.data
         /\ n.service = o.service /\ n.backup = o.backup
BY DEF Commands, CommandSteps

LEMMA CommandBegun ==
  ASSUME NEW kind \in CommandKinds, NEW data \in Data, NEW step \in CommandSteps,
         NEW i \in Ids \cup {Missing}
  PROVE  LET n == [kind |-> kind, data |-> data, step |-> step, service |-> 1, backup |-> i] IN
         /\ n \in Commands /\ n.step = step /\ n.kind = kind /\ n.data = data
         /\ n.service = 1 /\ n.backup = i
BY ConstantFacts DEF Commands, CommandSteps, CommandKinds

LEMMA BackupFields ==
  ASSUME NEW b \in Backups
  PROVE  /\ b.ledger \in SUBSET Migrations /\ b.key \in 1..MaxKeys
         /\ \A r \in {"none", "made", "restored"} :
              LET n == [b EXCEPT !.record = r] IN
              n \in Backups /\ n.key = b.key /\ n.ledger = b.ledger /\ n.record = r
BY DEF Backups

LEMMA StateFields ==
  ASSUME NEW st \in States
  PROVE  /\ st.current \in Data \cup {Missing} /\ st.previous \in Data \cup {Missing}
         /\ \A ph \in {"deploying", "failed_needs_review"} :
              LET n == [st EXCEPT !.phase = ph] IN
              /\ n \in States /\ n.phase = ph
              /\ n.current = st.current /\ n.previous = st.previous
BY DEF States

-----------------------------------------------------------------------------
LEMMA ReleaseInitSound == ReleaseInit => ReleaseInv
<1> SUFFICES ASSUME ReleaseInit PROVE ReleaseInv
  OBVIOUS
<1>1. state \in States
  BY DEF ReleaseInit, States
<1>2. /\ image \in [Releases -> 0..MaxImages]
      /\ running \in [1..Services -> Data \cup {Missing}]
      /\ backups \in [Ids -> Backups \cup {Missing}]
  BY ConstantFacts DEF ReleaseInit
<1>3. 0 \in 0..MaxKeys
  BY ConstantFacts
<1>4. ReleaseTypeOK
  BY <1>1, <1>2, <1>3 DEF ReleaseInit, ReleaseTypeOK
<1> QED
  BY <1>4, ConstantFacts
    DEF ReleaseInit, ReleaseInv, OnlyStagedRuns, PassedAgree, KeysAgree, KeyOpensAll,
       Usable, StepsAgree, BackedUp, RolledOut, HealthyIsServed

(* Installing, building, waiting and staging change nothing that is served.    *)
LEMMA StageKeeps ==
  ASSUME ReleaseInv, Install \/ BuildImages \/ Expire \/ StageRuns
  PROVE  ReleaseInv'
<1>1. ReleaseTypeOK'
  <2>1. CASE Install
    BY <2>1 DEF ReleaseInv, ReleaseTypeOK, Install, stage, site, safe, Usable
  <2>2. CASE BuildImages
    BY <2>2, ConstantFacts DEF ReleaseInv, ReleaseTypeOK, BuildImages, stage, site, safe
  <2>3. CASE Expire
    BY <2>3 DEF ReleaseInv, ReleaseTypeOK, Expire, shop, site, safe
  <2>4. CASE StageRuns
    <3>1. Candidate \in Data
      BY <2>4, ConstantFacts DEF ReleaseInv, ReleaseTypeOK, StageRuns, Built, Candidate, Data
    <3>2. stageLedger' \subseteq Migrations
      BY <2>4, ConstantFacts DEF ReleaseInv, ReleaseTypeOK, StageRuns, Migrated
    <3> QED
      BY <2>4, <3>1, <3>2 DEF ReleaseInv, ReleaseTypeOK, StageRuns, shop, site, safe
  <2> QED BY <2>1, <2>2, <2>3, <2>4
<1>2. /\ passed \subseteq passed' /\ staged' \in passed' \cup {Missing}
      /\ UNCHANGED <<site, state, safe, command, strayed>>
  BY DEF ReleaseInv, PassedAgree, Install, BuildImages, Expire, StageRuns, shop, stage
<1>3. OnlyStagedRuns' /\ PassedAgree'
  BY <1>2 DEF ReleaseInv, OnlyStagedRuns, PassedAgree, site
<1>4. KeysAgree'
  BY <1>2 DEF ReleaseInv, KeysAgree, KeyOpensAll, Usable, safe
<1>5. StepsAgree' /\ BackedUp'
  BY <1>2 DEF ReleaseInv, StepsAgree, BackedUp, safe, site
<1>6. RolledOut' /\ HealthyIsServed'
  BY <1>2 DEF ReleaseInv, RolledOut, HealthyIsServed, site
<1> QED BY <1>1, <1>3, <1>4, <1>5, <1>6 DEF ReleaseInv

(* A key that is lost or put back, a backup that is removed.                   *)
LEMMA KeyKeeps ==
  ASSUME ReleaseInv, LoseKey \/ \E i \in Ids : RecoverKey(i) \/ Remove(i)
  PROVE  ReleaseInv'
<1>1. CASE LoseKey
  <2>1. ReleaseTypeOK'
    BY <1>1 DEF ReleaseInv, ReleaseTypeOK, LoseKey, shop, stage, site
  <2>2. KeysAgree'
    BY <1>1, ConstantFacts DEF ReleaseInv, KeysAgree, KeyOpensAll, Usable, LoseKey
  <2> QED
    BY <1>1, <2>1, <2>2 DEF ReleaseInv, LoseKey, shop, stage, site, OnlyStagedRuns, PassedAgree,
         StepsAgree, BackedUp, RolledOut, HealthyIsServed
<1>2. ASSUME NEW i \in Ids, RecoverKey(i) PROVE ReleaseInv'
  <2>1. backups[i] \in Backups /\ key' = backups[i].key /\ key' \in 1..MaxKeys
    BY <1>2, BackupFields DEF ReleaseInv, ReleaseTypeOK, RecoverKey
  <2>2. ReleaseTypeOK'
    BY <1>2, <2>1, ConstantFacts DEF ReleaseInv, ReleaseTypeOK, RecoverKey, shop, stage, site
  <2>3. KeysAgree'
    BY <1>2, <2>1, ConstantFacts DEF ReleaseInv, KeysAgree, KeyOpensAll, Usable, RecoverKey
  <2> QED
    BY <1>2, <2>2, <2>3
      DEF ReleaseInv, RecoverKey, shop, stage, site, OnlyStagedRuns, PassedAgree,
         StepsAgree, BackedUp, RolledOut, HealthyIsServed
<1>3. ASSUME NEW i \in Ids, Remove(i) PROVE ReleaseInv'
  <2>1. /\ backups' \in [Ids -> Backups \cup {Missing}]
        /\ \A j \in Ids : backups'[j] = IF j = i THEN Missing ELSE backups[j]
    BY <1>3 DEF ReleaseInv, ReleaseTypeOK, Remove
  <2>2. ReleaseTypeOK'
    BY <1>3, <2>1 DEF ReleaseInv, ReleaseTypeOK, Remove, shop, stage, site
  <2>3. KeysAgree'
    BY <1>3, <2>1 DEF ReleaseInv, KeysAgree, KeyOpensAll, Usable, Remove
  <2>4. command # Missing /\ command.backup # Missing =>
          backups'[command.backup] = backups[command.backup]
    BY <1>3, <2>1, CommandFields DEF ReleaseInv, ReleaseTypeOK, Remove
  <2>5. StepsAgree' /\ BackedUp'
    BY <1>3, <2>4 DEF ReleaseInv, StepsAgree, BackedUp, Remove, site
  <2> QED
    BY <1>3, <2>2, <2>3, <2>5
      DEF ReleaseInv, Remove, shop, stage, site, OnlyStagedRuns, PassedAgree,
         RolledOut, HealthyIsServed
<1> QED BY <1>1, <1>2, <1>3

(* Taking the lock: nothing else changes.                                      *)
LEMMA BeginKeeps ==
  ASSUME ReleaseInv, NEW kind \in CommandKinds, NEW data \in Data, NEW step \in CommandSteps,
         NEW i \in Ids \cup {Missing},
         command = Missing, BeginCommand(kind, data, step, i),
         UNCHANGED <<shop, stage, site, state, safe, passed, strayed>>,
         kind \in {"deploy", "rollback"} => data \in passed,
         \/ kind \in {"deploy", "backup"} /\ step = "backup" /\ i = Missing
         \/ kind = "drill" /\ step = "drill" /\ i # Missing /\ backups[i] # Missing
         \/ /\ kind = "rollback" /\ step = "migrate" /\ i = Missing /\ ledger = Needs[data.release]
            /\ state.phase = "healthy" => data = state.previous
  PROVE  ReleaseInv'
<1>1. /\ command' \in Commands /\ command'.step = step /\ command'.kind = kind
      /\ command'.data = data
      /\ command'.service = 1 /\ command'.backup = i /\ command' # Missing
  BY CommandBegun, ConstantFacts DEF BeginCommand
<1>2. ReleaseTypeOK' /\ OnlyStagedRuns' /\ PassedAgree'
  BY <1>1 DEF ReleaseInv, ReleaseTypeOK, OnlyStagedRuns, PassedAgree, shop, stage, site, safe
<1>3. KeysAgree'
  BY DEF ReleaseInv, KeysAgree, KeyOpensAll, Usable, safe
<1>4. StepsAgree' /\ BackedUp'
  BY <1>1, ConstantFacts DEF StepsAgree, BackedUp, safe, CommandKinds
<1>5. HealthyIsServed'
  BY <1>1, ConstantFacts DEF ReleaseInv, HealthyIsServed, site
<1>6. RolledOut'
  <2>1. kind = "rollback" /\ state.phase = "healthy" =>
          strayed \/ \A s \in 1..Services : s >= 1 => running[s] = state.current
    BY DEF ReleaseInv, HealthyIsServed
  <2> QED
    BY <1>1, <2>1 DEF RolledOut, site
<1> QED BY <1>2, <1>3, <1>4, <1>5, <1>6 DEF ReleaseInv

LEMMA CommandKeeps ==
  ASSUME ReleaseInv, Deploy \/ BackupNow \/ (\E i \in Ids : DrillNow(i)) \/ Rollback
  PROVE  ReleaseInv'
<1>1. Built => Candidate \in Data
  BY ConstantFacts DEF ReleaseInv, ReleaseTypeOK, Built, Candidate, Data
<1>2. CASE Deploy
  <2>1. Candidate \in passed
    BY <1>1, <1>2, ConstantFacts DEF ReleaseInv, PassedAgree, Deploy, Staged
  <2> QED
    BY <1>1, <1>2, <2>1, BeginKeeps DEF Deploy, CommandKinds, CommandSteps
<1>3. CASE BackupNow
  BY <1>1, <1>3, BeginKeeps DEF BackupNow, CommandKinds, CommandSteps
<1>4. ASSUME NEW i \in Ids, DrillNow(i) PROVE ReleaseInv'
  <2>1. i # Missing
    BY ConstantFacts DEF Ids
  <2> QED
    BY <1>1, <1>4, <2>1, BeginKeeps DEF DrillNow, CommandKinds, CommandSteps
<1>5. CASE Rollback
  <2>1. Target \in passed /\ Target \in Data
    BY <1>5 DEF ReleaseInv, ReleaseTypeOK, PassedAgree, Rollback, Compatible, Target
  <2>2. state.phase = "healthy" => Target = state.previous
    BY DEF Target
  <2> QED
    BY <1>5, <2>1, <2>2, BeginKeeps DEF Rollback, Compatible, CommandKinds, CommandSteps
<1> QED BY <1>2, <1>3, <1>4, <1>5

-----------------------------------------------------------------------------
(* The parts of a deployment before it touches the site: key, file, records.   *)
LEMMA CreateKeyKeeps ==
  ASSUME ReleaseInv, CreateKey \/ WriteKey
  PROVE  ReleaseInv'
<1>1. /\ command \in Commands /\ command # Missing /\ command.step \in {"backup", "key"}
      /\ command.service = 1 /\ command.kind # "rollback" /\ command.backup = Missing
  <2>1. CreateKey => command.backup = Missing
    BY CommandFields DEF ReleaseInv, ReleaseTypeOK, StepsAgree, CreateKey, MayCreate, At
  <2> QED
    BY <2>1 DEF ReleaseInv, ReleaseTypeOK, StepsAgree, RolledOut, CreateKey, WriteKey, At
<1>2. /\ command' \in Commands /\ command' # Missing /\ command'.step \in {"key", "dump"}
      /\ command'.kind = command.kind /\ command'.data = command.data
      /\ command'.service = 1 /\ command'.backup = Missing
  <2>1. CASE CreateKey
    <3>1. "key" \in CommandSteps /\ command' = [command EXCEPT !.step = "key"]
      BY <2>1 DEF CreateKey, Proceed, CommandSteps
    <3> QED
      BY <1>1, <3>1, CommandMoved, ConstantFacts
  <2>2. CASE WriteKey
    <3>1. "dump" \in CommandSteps /\ command' = [command EXCEPT !.step = "dump"]
      BY <2>2 DEF WriteKey, Proceed, CommandSteps
    <3> QED
      BY <1>1, <3>1, CommandMoved, ConstantFacts
  <2> QED BY <2>1, <2>2
<1>3. UNCHANGED <<shop, stage, site, state, backups, passed, strayed>>
  BY DEF CreateKey, WriteKey
<1>4. key' \in {Missing} \cup 0..MaxKeys /\ keys' \in 0..MaxKeys
  BY ConstantFacts DEF ReleaseInv, ReleaseTypeOK, CreateKey, WriteKey
<1>5. ReleaseTypeOK' /\ OnlyStagedRuns' /\ PassedAgree'
  BY <1>1, <1>2, <1>3, <1>4
    DEF ReleaseInv, ReleaseTypeOK, OnlyStagedRuns, PassedAgree, shop, stage, site
<1>6. KeysAgree'
  <2>1. \A i \in Ids : backups[i] = Missing
    BY DEF ReleaseInv, KeysAgree, CreateKey, MayCreate, WriteKey
  <2> QED
    BY <1>3, <2>1 DEF KeysAgree, KeyOpensAll
<1>7. StepsAgree' /\ BackedUp'
  BY <1>1, <1>2 DEF StepsAgree, BackedUp
<1>8. RolledOut' /\ HealthyIsServed'
  BY <1>1, <1>2, <1>3 DEF ReleaseInv, RolledOut, HealthyIsServed, site
<1> QED BY <1>5, <1>6, <1>7, <1>8 DEF ReleaseInv

LEMMA DumpKeeps ==
  ASSUME ReleaseInv, NEW i \in Ids, DumpDatabase(i)
  PROVE  ReleaseInv'
<1> DEFINE b == [ledger |-> ledger, key |-> key, record |-> "none"]
<1>1. /\ command \in Commands /\ command # Missing
      /\ command.step \in {"backup", "dump"} /\ command.backup = Missing
      /\ ledger \in SUBSET Migrations /\ i # Missing /\ backups[i] = Missing
  BY ConstantFacts DEF ReleaseInv, ReleaseTypeOK, DumpDatabase, Dumping, At, Ids
<1>2. key \in 1..MaxKeys
  BY ConstantFacts DEF ReleaseInv, ReleaseTypeOK, DumpDatabase, Usable
<1>3. b \in Backups /\ b.key = key /\ b.ledger = ledger /\ b # Missing
  BY <1>1, <1>2, ConstantFacts DEF Backups
<1> HIDE DEF b
<1>4. /\ backups' = [backups EXCEPT ![i] = b]
      /\ backups' \in [Ids -> Backups \cup {Missing}]
      /\ \A j \in Ids : backups'[j] = IF j = i THEN b ELSE backups[j]
  BY <1>3 DEF ReleaseInv, ReleaseTypeOK, DumpDatabase, b
<1>5. /\ command' \in Commands /\ command' # Missing /\ command'.step = command.step
      /\ command'.kind = command.kind
      /\ command'.data = command.data /\ command'.service = command.service /\ command'.backup = i
  BY <1>1, ConstantFacts DEF DumpDatabase, Commands
<1>6. ReleaseTypeOK' /\ OnlyStagedRuns' /\ PassedAgree'
  BY <1>1, <1>4, <1>5
    DEF ReleaseInv, ReleaseTypeOK, OnlyStagedRuns, PassedAgree, DumpDatabase, shop, stage, site
<1>7. KeysAgree'
  BY <1>2, <1>3, <1>4 DEF ReleaseInv, KeysAgree, KeyOpensAll, Usable, DumpDatabase
<1>8. StepsAgree' /\ BackedUp'
  BY <1>1, <1>3, <1>4, <1>5 DEF ReleaseInv, StepsAgree, BackedUp, DumpDatabase, site
<1>9. RolledOut' /\ HealthyIsServed'
  BY <1>1, <1>5 DEF ReleaseInv, RolledOut, HealthyIsServed, DumpDatabase, site
<1> QED BY <1>6, <1>7, <1>8, <1>9 DEF ReleaseInv

(* A backup's record says more than before, and the operation goes on or ends. *)
LEMMA RecordKeeps ==
  ASSUME ReleaseInv, RecordBackup \/ Drill
  PROVE  ReleaseInv'
<1>1. /\ command \in Commands /\ command # Missing /\ command.step \in {"backup", "dump", "drill"}
      /\ command.backup \in Ids /\ backups[command.backup] \in Backups
  BY CommandFields DEF ReleaseInv, ReleaseTypeOK, StepsAgree, RecordBackup, Dumping, Drill, At
<1> DEFINE r == IF RecordBackup THEN "made" ELSE "restored"
           k == command.backup
           b == [backups[k] EXCEPT !.record = r]
<1>2. backups' = [backups EXCEPT ![k] = b]
  BY DEF RecordBackup, Drill
<1>3. b \in Backups /\ b.key = backups[k].key /\ b.ledger = backups[k].ledger /\ b.record = r
  <2>1. r \in {"none", "made", "restored"}
    OBVIOUS
  <2> HIDE DEF r
  <2> QED BY <1>1, <2>1, BackupFields
<1>4. Drill => command.step = "drill"
  BY DEF Drill, At
<1>5. RecordBackup => command.step \in {"backup", "dump"}
  BY DEF RecordBackup, Dumping, At
<1>6. CASE RecordBackup
  <2>1. /\ command' \in Commands /\ command'.step = "drill" /\ command'.kind = command.kind
        /\ command'.data = command.data
        /\ command'.service = command.service /\ command'.backup = k
    <3>1. "drill" \in CommandSteps /\ command' = [command EXCEPT !.step = "drill"]
      BY <1>6 DEF RecordBackup, Proceed, CommandSteps
    <3> QED
      BY <1>1, <3>1, CommandMoved
  <2>2. UNCHANGED <<shop, stage, site, state, key, keys, passed, strayed>>
    BY <1>6 DEF RecordBackup
  <2> HIDE DEF r, b, k
  <2>3. /\ backups' \in [Ids -> Backups \cup {Missing}]
        /\ \A j \in Ids : backups'[j] = IF j = k THEN b ELSE backups[j]
    BY <1>1, <1>2, <1>3 DEF ReleaseInv, ReleaseTypeOK, k
  <2>4. command' # Missing /\ b # Missing /\ backups[k] # Missing /\ k \in Ids /\ k # Missing
    BY <1>1, <1>3, <2>1, ConstantFacts DEF k, Ids
  <2>5. ReleaseTypeOK' /\ OnlyStagedRuns' /\ PassedAgree'
    BY <1>1, <2>1, <2>2, <2>3
      DEF ReleaseInv, ReleaseTypeOK, OnlyStagedRuns, PassedAgree, shop, stage, site
  <2>6. KeysAgree'
    BY <1>3, <2>2, <2>3, <2>4 DEF ReleaseInv, KeysAgree, KeyOpensAll, Usable
  <2>7. StepsAgree' /\ BackedUp'
    BY <1>1, <1>3, <1>5, <1>6, <2>1, <2>2, <2>3, <2>4
      DEF ReleaseInv, StepsAgree, BackedUp, site, k
  <2>8. RolledOut' /\ HealthyIsServed'
    BY <1>1, <2>1, <2>2, <2>4 DEF ReleaseInv, RolledOut, HealthyIsServed, site
  <2> QED BY <2>5, <2>6, <2>7, <2>8 DEF ReleaseInv
<1>7. CASE Drill /\ ~RecordBackup
  <2>0. command' = Missing \/ (command.kind = "deploy" /\ Proceed("record"))
    BY <1>7 DEF Drill, EndCommand
  <2>1. \/ command' = Missing
        \/ /\ command.kind = "deploy"
           /\ command' \in Commands /\ command'.step = "record"
           /\ command'.kind = command.kind /\ command'.data = command.data
           /\ command'.service = command.service /\ command'.backup = k
    <3>1. "record" \in CommandSteps
      BY DEF CommandSteps
    <3>2. CASE command.kind = "deploy" /\ command' = [command EXCEPT !.step = "record"]
      BY <1>1, <3>1, <3>2, CommandMoved
    <3> QED
      BY <2>0, <3>2 DEF Proceed
  <2>2. UNCHANGED <<shop, stage, site, state, key, keys, passed, strayed>>
    BY <1>7 DEF Drill
  <2>3. r = "restored"
    BY <1>7
  <2>4. command.kind # "rollback"
    BY <1>1, <1>4, <1>7 DEF ReleaseInv, StepsAgree
  <2> HIDE DEF r, b, k
  <2>5. /\ backups' \in [Ids -> Backups \cup {Missing}]
        /\ \A j \in Ids : backups'[j] = IF j = k THEN b ELSE backups[j]
    BY <1>1, <1>2, <1>3 DEF ReleaseInv, ReleaseTypeOK, k
  <2>6. b # Missing /\ backups[k] # Missing /\ k \in Ids /\ k # Missing
    BY <1>1, <1>3, ConstantFacts DEF k, Ids
  <2>7. ReleaseTypeOK' /\ OnlyStagedRuns' /\ PassedAgree'
    BY <1>1, <2>1, <2>2, <2>5
      DEF ReleaseInv, ReleaseTypeOK, OnlyStagedRuns, PassedAgree, shop, stage, site
  <2>8. KeysAgree'
    BY <1>3, <2>2, <2>5, <2>6 DEF ReleaseInv, KeysAgree, KeyOpensAll, Usable
  <2>9. StepsAgree' /\ BackedUp'
    BY <1>1, <1>3, <1>4, <1>7, <2>1, <2>2, <2>3, <2>5, <2>6
       DEF ReleaseInv, StepsAgree, BackedUp, site, k
  <2>10. RolledOut' /\ HealthyIsServed'
    BY <1>1, <1>4, <1>7, <2>1, <2>2, <2>4 DEF ReleaseInv, RolledOut, HealthyIsServed, site
  <2> QED BY <2>7, <2>8, <2>9, <2>10 DEF ReleaseInv
<1> QED BY <1>6, <1>7

(* Steps of an operation that change neither the site nor state.json.          *)
LEMMA MoveKeeps ==
  ASSUME ReleaseInv, command # Missing, NEW step \in CommandSteps,
         Proceed(step), UNCHANGED <<shop, stage, site, state, safe, passed, strayed>>,
         \/ /\ command.step = "up" /\ command.service > Services
            /\ step = IF command.kind = "deploy" THEN "check" ELSE "close"
         \/ /\ command.step = "check"
            /\ step = IF ledger = Needs[command.data.release] THEN "close" ELSE "fail"
         \/ command.step \in {"migrate", "up", "check"} /\ command.kind = "deploy" /\ step = "fail"
  PROVE  ReleaseInv'
<1>1. command \in Commands /\ command.service \in 1..(Services + 1)
  BY CommandFields DEF ReleaseInv, ReleaseTypeOK
<1>2. /\ command' \in Commands /\ command'.step = step /\ command'.kind = command.kind
      /\ command'.data = command.data
      /\ command'.service = command.service /\ command'.backup = command.backup
      /\ command' # Missing
  BY <1>1, CommandMoved, ConstantFacts DEF Proceed
<1>3. ReleaseTypeOK' /\ OnlyStagedRuns' /\ PassedAgree'
  BY <1>2 DEF ReleaseInv, ReleaseTypeOK, OnlyStagedRuns, PassedAgree, shop, stage, site, safe
<1>4. KeysAgree'
  BY DEF ReleaseInv, KeysAgree, KeyOpensAll, Usable, safe
<1>5. StepsAgree'
  BY <1>2 DEF ReleaseInv, StepsAgree, safe
<1>6. BackedUp'
  BY <1>2 DEF ReleaseInv, StepsAgree, BackedUp, safe, site
<1>7. RolledOut'
  BY <1>1, <1>2, ConstantFacts DEF ReleaseInv, StepsAgree, RolledOut, site
<1>8. HealthyIsServed'
  BY <1>2 DEF ReleaseInv, HealthyIsServed, site
<1> QED BY <1>3, <1>4, <1>5, <1>6, <1>7, <1>8 DEF ReleaseInv

LEMMA UpKeeps ==
  ASSUME ReleaseInv, Started \/ CheckSchema \/ UpFails
  PROVE  ReleaseInv'
<1>1. CASE Started
  BY <1>1, MoveKeeps DEF Started, At, CommandSteps
<1>2. CASE CheckSchema
  BY <1>2, MoveKeeps DEF CheckSchema, At, CommandSteps
<1>3. CASE UpFails
  BY <1>3, MoveKeeps DEF UpFails, At, CommandSteps
<1> QED BY <1>1, <1>2, <1>3

-----------------------------------------------------------------------------
(* What the site runs and what state.json says.                                *)
LEMMA RecordDeployKeeps ==
  ASSUME ReleaseInv, Record
  PROVE  ReleaseInv'
<1>1. /\ command \in Commands /\ command # Missing /\ command.step = "record"
      /\ command.kind = "deploy"
      /\ command.service = 1 /\ command.backup # Missing
      /\ backups[command.backup].record = "restored"
      /\ backups[command.backup].ledger = ledger
  BY DEF ReleaseInv, ReleaseTypeOK, StepsAgree, BackedUp, RolledOut, Record, At
<1>2. /\ command' \in Commands /\ command'.step = "migrate" /\ command'.kind = command.kind
      /\ command'.data = command.data
      /\ command'.service = command.service /\ command'.backup = command.backup
      /\ command' # Missing
  <2>1. "migrate" \in CommandSteps /\ command' = [command EXCEPT !.step = "migrate"]
    BY DEF Record, Proceed, CommandSteps
  <2> QED
    BY <1>1, <2>1, CommandMoved, ConstantFacts
<1>3. /\ state' \in States /\ state'.phase = "deploying"
      /\ state'.current = state.current /\ state'.previous = state.previous
  BY StateFields DEF ReleaseInv, ReleaseTypeOK, Record
<1>4. UNCHANGED <<shop, stage, site, safe, passed, strayed>>
  BY DEF Record
<1>5. ReleaseTypeOK' /\ OnlyStagedRuns' /\ PassedAgree'
  BY <1>1, <1>2, <1>3, <1>4
     DEF ReleaseInv, ReleaseTypeOK, OnlyStagedRuns, PassedAgree, shop, stage, site, safe
<1>6. KeysAgree'
  BY <1>4 DEF ReleaseInv, KeysAgree, KeyOpensAll, Usable, safe
<1>7. StepsAgree' /\ BackedUp'
  BY <1>1, <1>2, <1>3, <1>4 DEF ReleaseInv, StepsAgree, BackedUp, safe, site
<1>8. RolledOut' /\ HealthyIsServed'
  BY <1>1, <1>2, <1>3, <1>4 DEF RolledOut, HealthyIsServed, site
<1> QED BY <1>5, <1>6, <1>7, <1>8 DEF ReleaseInv

LEMMA MigrateKeeps ==
  ASSUME ReleaseInv, MigrateSite
  PROVE  ReleaseInv'
<1>1. /\ command \in Commands /\ command # Missing /\ command.step = "migrate"
      /\ command.kind \in {"deploy", "rollback"}
      /\ command.service = 1 /\ command.data \in Data
      /\ Needs[command.data.release] \subseteq Migrations
  BY ConstantFacts, CommandFields
    DEF ReleaseInv, ReleaseTypeOK, StepsAgree, RolledOut, MigrateSite, At, Data
<1>2. /\ command' \in Commands /\ command'.step = "up" /\ command'.kind = command.kind
      /\ command'.data = command.data
      /\ command'.service = command.service /\ command'.backup = command.backup
      /\ command' # Missing
  <2>1. "up" \in CommandSteps /\ command' = [command EXCEPT !.step = "up"]
    BY DEF MigrateSite, Proceed, CommandSteps
  <2> QED
    BY <1>1, <2>1, CommandMoved, ConstantFacts
<1>3. ledger' \subseteq Migrations /\ ledger' = ledger \cup Needs[command.data.release]
  BY <1>1 DEF ReleaseInv, ReleaseTypeOK, MigrateSite, Migrated
<1>4. command.kind = "rollback" => ledger' = ledger
  BY <1>1, <1>3 DEF ReleaseInv, RolledOut
<1>5. command.kind = "deploy" => state.phase = "deploying"
  BY <1>1 DEF ReleaseInv, BackedUp
<1>6. UNCHANGED <<shop, stage, running, state, safe, passed, strayed>>
  BY DEF MigrateSite
<1>7. ReleaseTypeOK' /\ OnlyStagedRuns' /\ PassedAgree'
  BY <1>1, <1>2, <1>3, <1>6
    DEF ReleaseInv, ReleaseTypeOK, OnlyStagedRuns, PassedAgree, shop, stage, safe
<1>8. KeysAgree'
  BY <1>6 DEF ReleaseInv, KeysAgree, KeyOpensAll, Usable, safe
<1>9. StepsAgree' /\ BackedUp'
  BY <1>1, <1>2, <1>5, <1>6 DEF ReleaseInv, StepsAgree, BackedUp, safe
<1>10. RolledOut'
  BY <1>1, <1>2, <1>4, <1>5, <1>6 DEF ReleaseInv, RolledOut
<1>11. HealthyIsServed'
  BY <1>1, <1>2, <1>4, <1>5, <1>6 DEF ReleaseInv, HealthyIsServed
<1> QED BY <1>7, <1>8, <1>9, <1>10, <1>11 DEF ReleaseInv

LEMMA ReplaceKeeps ==
  ASSUME ReleaseInv, Replace
  PROVE  ReleaseInv'
<1>1. /\ command \in Commands /\ command # Missing /\ command.step = "up"
      /\ command.kind \in {"deploy", "rollback"}
      /\ command.service \in 1..Services /\ command.data \in Data /\ command.data \in passed
  BY ConstantFacts, CommandFields
    DEF ReleaseInv, ReleaseTypeOK, StepsAgree, PassedAgree, Replace, At
<1>2. /\ command' \in Commands /\ command'.step = "up" /\ command'.kind = command.kind
      /\ command'.data = command.data
      /\ command'.service = command.service + 1 /\ command'.backup = command.backup
      /\ command' # Missing
  BY <1>1, ConstantFacts DEF Replace, Commands
<1>3. /\ running' \in [1..Services -> Data \cup {Missing}]
      /\ \A s \in 1..Services :
           running'[s] = IF s = command.service THEN command.data ELSE running[s]
  BY <1>1 DEF ReleaseInv, ReleaseTypeOK, Replace
<1>4. UNCHANGED <<shop, stage, ledger, state, safe, passed, strayed>>
  BY DEF Replace
<1>5. command.kind = "deploy" => state.phase = "deploying"
  BY <1>1 DEF ReleaseInv, BackedUp
<1>6. ReleaseTypeOK'
  BY <1>2, <1>3, <1>4 DEF ReleaseInv, ReleaseTypeOK, shop, stage, safe
<1>7. OnlyStagedRuns' /\ PassedAgree'
  BY <1>1, <1>2, <1>3, <1>4 DEF ReleaseInv, OnlyStagedRuns, PassedAgree, stage
<1>8. KeysAgree'
  BY <1>4 DEF ReleaseInv, KeysAgree, KeyOpensAll, Usable, safe
<1>9. StepsAgree' /\ BackedUp'
  BY <1>1, <1>2, <1>4, <1>5 DEF ReleaseInv, StepsAgree, BackedUp, safe
<1>10. RolledOut'
  <2>1. \A s \in 1..Services : s < command.service + 1 => running'[s] = command.data
    BY <1>1, <1>3, ConstantFacts DEF ReleaseInv, RolledOut
  <2>2. command.kind = "rollback" => ledger = Needs[command.data.release]
    BY <1>1 DEF ReleaseInv, RolledOut
  <2>3. command.kind = "rollback" /\ state.phase = "healthy" =>
          /\ command.data = state.previous
          /\ \/ strayed
             \/ \A s \in 1..Services :
                  s >= command.service + 1 => running'[s] = state.current
    BY <1>1, <1>3, ConstantFacts DEF ReleaseInv, RolledOut
  <2> QED
    BY <1>1, <1>2, <1>4, <2>1, <2>2, <2>3 DEF RolledOut
<1>11. HealthyIsServed'
  <2> SUFFICES ASSUME state.phase = "healthy"
      PROVE  /\ ledger = Needs[state.current.release]
             /\ \A s \in 1..Services : running'[s] \in {state.current, state.previous}
    BY <1>1, <1>2, <1>4, <1>5 DEF HealthyIsServed
  <2> QED
    BY <1>1, <1>3, <1>5 DEF ReleaseInv, RolledOut, HealthyIsServed
<1> QED BY <1>6, <1>7, <1>8, <1>9, <1>10, <1>11 DEF ReleaseInv

LEMMA RecordFailureKeeps ==
  ASSUME ReleaseInv, RecordFailure
  PROVE  ReleaseInv'
<1>1. /\ state' \in States /\ state'.phase = "failed_needs_review"
      /\ state'.current = state.current /\ state'.previous = state.previous
  BY StateFields DEF ReleaseInv, ReleaseTypeOK, RecordFailure
<1>2. command' = Missing /\ UNCHANGED <<shop, stage, site, safe, passed, strayed>>
  BY DEF RecordFailure, EndCommand
<1>3. ReleaseTypeOK' /\ OnlyStagedRuns' /\ PassedAgree'
  BY <1>1, <1>2
    DEF ReleaseInv, ReleaseTypeOK, OnlyStagedRuns, PassedAgree, shop, stage, site, safe
<1>4. KeysAgree'
  BY <1>2 DEF ReleaseInv, KeysAgree, KeyOpensAll, Usable, safe
<1>5. StepsAgree' /\ BackedUp' /\ RolledOut' /\ HealthyIsServed'
  BY <1>1, <1>2 DEF StepsAgree, BackedUp, RolledOut, HealthyIsServed
<1> QED BY <1>3, <1>4, <1>5 DEF ReleaseInv

LEMMA CloseKeeps ==
  ASSUME ReleaseInv, Close
  PROVE  ReleaseInv'
<1>1. /\ command \in Commands /\ command # Missing /\ command.step = "close"
      /\ command.kind \in {"deploy", "rollback"}
      /\ command.service = Services + 1 /\ command.data \in Data /\ command.data \in passed
      /\ ledger = Needs[command.data.release]
  BY CommandFields DEF ReleaseInv, ReleaseTypeOK, StepsAgree, PassedAgree, RolledOut, Close, At
<1>2. \A s \in 1..Services : running[s] = command.data
  BY <1>1, ConstantFacts DEF ReleaseInv, RolledOut
<1>3. /\ state' \in States /\ state'.phase = "healthy"
      /\ state'.current = command.data /\ state'.previous = state.current
  BY <1>1, StateFields DEF ReleaseInv, ReleaseTypeOK, Close, Closed, States
<1>4. command' = Missing /\ strayed' = FALSE /\ UNCHANGED <<shop, stage, site, safe, passed>>
  BY DEF Close, EndCommand
<1>5. ReleaseTypeOK' /\ OnlyStagedRuns'
  BY <1>3, <1>4 DEF ReleaseInv, ReleaseTypeOK, OnlyStagedRuns, shop, stage, site, safe
<1>6. PassedAgree'
  BY <1>1, <1>3, <1>4 DEF ReleaseInv, PassedAgree, stage
<1>7. KeysAgree'
  BY <1>4 DEF ReleaseInv, KeysAgree, KeyOpensAll, Usable, safe
<1>8. StepsAgree' /\ BackedUp' /\ RolledOut'
  BY <1>4 DEF StepsAgree, BackedUp, RolledOut
<1>9. HealthyIsServed'
  BY <1>1, <1>2, <1>3, <1>4 DEF HealthyIsServed, site
<1> QED BY <1>5, <1>6, <1>7, <1>8, <1>9 DEF ReleaseInv

LEMMA AbortKeeps ==
  ASSUME ReleaseInv, Abort
  PROVE  ReleaseInv'
<1>1. /\ command' = Missing /\ command # Missing /\ command \in Commands
      /\ UNCHANGED <<shop, stage, site, state, safe, passed>>
  BY DEF ReleaseInv, ReleaseTypeOK, Abort, EndCommand
<1>2. strayed' \in BOOLEAN
  BY DEF ReleaseInv, ReleaseTypeOK, Abort
<1>3. ReleaseTypeOK' /\ OnlyStagedRuns' /\ PassedAgree'
  BY <1>1, <1>2
    DEF ReleaseInv, ReleaseTypeOK, OnlyStagedRuns, PassedAgree, shop, stage, site, safe
<1>4. KeysAgree'
  BY <1>1 DEF ReleaseInv, KeysAgree, KeyOpensAll, Usable, safe
<1>5. StepsAgree' /\ BackedUp' /\ RolledOut'
  BY <1>1 DEF StepsAgree, BackedUp, RolledOut
<1>6. HealthyIsServed'
  <2>1. CASE command.kind = "rollback"
    <3>1. command.step \in {"migrate", "up", "close"} /\ command.service \in 1..(Services + 1)
          /\ (command.step = "migrate" => command.service = 1)
      BY <1>1, <2>1, CommandFields DEF ReleaseInv, StepsAgree, RolledOut
    <3>2. ~strayed' => ~strayed /\ command.service = 1
      <4>1. ~strayed' => ~strayed /\ ~(command.step \in {"up", "close"} /\ command.service > 1)
        BY <2>1 DEF Abort
      <4>2. command.service = 1 \/ command.service > 1
        BY <3>1, ConstantFacts
      <4> QED
        BY <3>1, <4>1, <4>2
    <3>3. ~strayed' /\ state.phase = "healthy" =>
            \A s \in 1..Services : running[s] = state.current
      BY <1>1, <2>1, <3>2 DEF ReleaseInv, RolledOut
    <3> QED
      BY <1>1, <2>1, <3>3 DEF ReleaseInv, HealthyIsServed, site
  <2>2. CASE command.kind # "rollback"
    <3>1. strayed' = strayed
      BY <2>2 DEF Abort, ReleaseInv, ReleaseTypeOK
    <3> QED
      BY <1>1, <2>2, <3>1 DEF ReleaseInv, HealthyIsServed, site
  <2> QED BY <2>1, <2>2
<1> QED BY <1>3, <1>4, <1>5, <1>6 DEF ReleaseInv

LEMMA StutterKeeps ==
  ASSUME ReleaseInv, UNCHANGED releaseVars
  PROVE  ReleaseInv'
BY DEF ReleaseInv, releaseVars, shop, stage, site, safe, ReleaseTypeOK, OnlyStagedRuns,
  PassedAgree, KeysAgree,
     KeyOpensAll, Usable, StepsAgree, BackedUp, RolledOut, HealthyIsServed

LEMMA ReleaseNextSound ==
  ASSUME ReleaseInv, [ReleaseNext]_releaseVars
  PROVE  ReleaseInv'
BY StageKeeps, KeyKeeps, CommandKeeps, CreateKeyKeeps, DumpKeeps, RecordKeeps, UpKeeps,
   RecordDeployKeeps, MigrateKeeps, ReplaceKeeps, RecordFailureKeeps, CloseKeeps, AbortKeeps,
   StutterKeeps DEF ReleaseNext

-----------------------------------------------------------------------------
(* The invariant holds in every reachable state.                               *)
THEOREM ReleaseInvariant == ReleaseSpec => []ReleaseInv
BY ReleaseInitSound, ReleaseNextSound, PTL DEF ReleaseSpec

(* What state.json calls healthy is what is there: the schema and the images,  *)
(* but for containers that a rollback which was cut short had replaced.        *)
THEOREM HealthyServed == ReleaseSpec => []HealthyIsServed
<1>1. ReleaseInv => HealthyIsServed
  BY DEF ReleaseInv
<1> QED BY <1>1, ReleaseInvariant, PTL

(* Only images that passed staging serve, and an existing key opens every      *)
(* backup.                                                                     *)
THEOREM OnlyStagedAndSealed == ReleaseSpec => []StagedAndSealed
<1>1. ReleaseInv => StagedAndSealed
  BY DEF ReleaseInv, StagedAndSealed, KeysAgree
<1> QED BY <1>1, ReleaseInvariant, PTL

(* The production database is migrated only by a deployment on record, while a *)
(* backup of just that database exists which was restored once.                *)
THEOREM DrillFirst == ReleaseSpec => MigratedAfterDrill
<1>1. ASSUME ReleaseInv, [ReleaseNext]_releaseVars
      PROVE  [ledger' # ledger =>
               /\ state.phase = "deploying" /\ command.kind = "deploy"
               /\ backups[command.backup].record = "restored"
               /\ backups[command.backup].ledger = ledger]_releaseVars
  <2> SUFFICES ASSUME ledger' # ledger
      PROVE  /\ state.phase = "deploying" /\ command.kind = "deploy"
             /\ backups[command.backup].record = "restored"
             /\ backups[command.backup].ledger = ledger
    OBVIOUS
  <2>1. MigrateSite
    BY <1>1
      DEF ReleaseNext, releaseVars, site, Install, BuildImages, Expire, LoseKey, RecoverKey,
      Remove,
         StageRuns, Deploy, BackupNow, DrillNow, Rollback, CreateKey, WriteKey, DumpDatabase,
         RecordBackup, Drill, Record, Replace, Started, CheckSchema, UpFails, RecordFailure,
         Close, Abort
  <2>2. /\ command \in Commands /\ command # Missing /\ command.step = "migrate"
        /\ command.kind \in {"deploy", "rollback"}
    BY <1>1, <2>1 DEF ReleaseInv, ReleaseTypeOK, StepsAgree, MigrateSite, At
  <2>3. command.kind # "rollback"
    BY <1>1, <2>1, <2>2 DEF ReleaseInv, RolledOut, MigrateSite, Migrated
  <2> QED
    BY <1>1, <2>2, <2>3 DEF ReleaseInv, StepsAgree, BackedUp
<1> QED BY <1>1, ReleaseInvariant, PTL DEF ReleaseSpec, MigratedAfterDrill
=============================================================================
