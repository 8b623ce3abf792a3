--------------------------- MODULE FilePlansProofs ---------------------------
(* Proofs about file automation, for any folder, number of plans, operations, *)
(* changes by the user and crashes.                                           *)
EXTENDS FilePlans, TLAPS

(* Operations that take a file from where it is, and that put one somewhere.  *)
Takes(a) == a.op \in {"move", "trash"}
Makes(a) == a.op \in {"mkdir", "move"}

(* What validation leaves of a plan, whatever happens to the folder later: no *)
(* operation takes, makes or needs what another one takes or makes, except    *)
(* for a directory that is made before what is put into it.                   *)
Separate(a, b) ==
  /\ Takes(a) /\ Takes(b) => a.from # b.from
  /\ a.op = b.op /\ Makes(a) => a.to # b.to
Clear(a, b) ==
  /\ Takes(a) /\ Takes(b) => Parent[a.from] # b.from
  /\ Takes(a) /\ Makes(b) => a.from # b.to /\ Parent[a.from] # b.to

Shape(ops) ==
  /\ ops \in Seq(Proposals)
  /\ \A i, j \in 1..Len(ops) :
       /\ i # j => Separate(ops[i], ops[j])
       /\ Clear(ops[i], ops[j])
       /\ ops[i].op = "mkdir" /\ Makes(ops[j]) /\ Parent[ops[j].to] = ops[i].to => i < j

(* ... and of a plan against the files d that it was validated with.          *)
Fits(a, d) ==
  /\ Takes(a) => /\ \E c \in Contents : <<a.from, c>> \in d
                 /\ \A c \in Contents : <<Parent[a.from], c>> \notin d
  /\ Makes(a) => \A c \in Contents : <<a.to, c>> \notin d
Against(ops, d) == \A i \in 1..Len(ops) : Fits(ops[i], d)

Digest(d) ==
  d \subseteq Paths \X Contents /\ \A p \in Paths, b, c \in Contents :
    <<p, b>> \in d /\ <<p, c>> \in d => b = c

(* The files v are what the first k operations make of the files d.           *)
After(v, ops, d, k) ==
  /\ \A i \in 1..k : Takes(ops[i]) => \A c \in Contents : <<ops[i].from, c>> \notin v
  /\ \A i \in 1..k : ops[i].op = "move" =>
       \A c \in Contents : <<ops[i].to, c>> \in v <=> <<ops[i].from, c>> \in d
  /\ \A p \in Paths :
       (\A i \in 1..k : (Takes(ops[i]) => ops[i].from # p) /\ (ops[i].op = "move" => ops[i].to # p))
         => \A c \in Contents : <<p, c>> \in v <=> <<p, c>> \in d

(* Files are in one place, directories hold what is in them.                  *)
Placed ==
  /\ \A p \in Paths : tree[p] # Nothing /\ Parent[p] # Root => tree[Parent[p]] = Dir
  /\ \A p \in litter : tree[p] = Dir
  /\ \A p, q \in Paths : tree[p] \in Contents /\ tree[p] = tree[q] => p = q
  /\ \A p, q \in Paths, pl \in Plans : tree[p] \in Contents => trash[pl][q] # tree[p]
  /\ \A p, q \in Paths, pl, pm \in Plans :
       trash[pl][p] # Nothing /\ trash[pl][p] = trash[pm][q] => pl = pm /\ p = q
  /\ \A c \in unused : /\ \A p \in Paths : tree[p] # c
                       /\ \A p \in Paths, pl \in Plans : trash[pl][p] # c

(* How many of the plan's operations are in effect.                           *)
Ops(pl) == plan[pl].ops
InEffect(pl) ==
  IF job.plan # pl THEN Len(Ops(pl))
  ELSE IF job.mode \in {"rolling_back", "undoing"} THEN Len(job.todo)
  ELSE Len(Ops(pl)) - Len(job.todo)

Keeps(pl) ==
  /\ plan[pl].status = "none" => plan[pl] = NoPlan
  /\ draft[pl] # <<>> => plan[pl].status = "none" /\ Shape(draft[pl])
  /\ plan[pl].status # "none" => Shape(Ops(pl)) /\ Digest(plan[pl].digest)
  /\ plan[pl].status \in {"applied", "undone"} =>
       /\ Len(plan[pl].undo) = Len(Ops(pl))
       /\ \A i \in 1..Len(Ops(pl)) : plan[pl].undo[i] = Converse(Ops(pl)[i])
  /\ \A p \in Paths : trash[pl][p] # Nothing =>
       \E i \in 1..Len(Ops(pl)) : Ops(pl)[i] = Trash(p)
  /\ \A c \in Contents : victim[c] = pl => plan[pl].status # "none"

(* No other plan and no user came in between.                                 *)
Calm(pl) ==
  /\ draft[pl] # <<>> => Against(draft[pl], Visible(tree))
  /\ plan[pl].status # "none" => Against(Ops(pl), plan[pl].digest)
  /\ \A p \in Paths : trash[pl][p] # Nothing => <<p, trash[pl][p]>> \in plan[pl].digest
  /\ plan[pl].status \in {"applied", "undone"} =>
       /\ plan[pl].post \subseteq Paths \X Contents
       /\ After(plan[pl].post, Ops(pl), plan[pl].digest, Len(Ops(pl)))
       /\ \A i, j \in 1..Len(Ops(pl)) :
            Ops(pl)[i].op = "mkdir" /\ Ops(pl)[j].op = "move" => Ops(pl)[i].to # Ops(pl)[j].to
  /\ job.plan # pl /\ pl \notin mishap /\ plan[pl].status # "applied"
       => \A p \in Paths : trash[pl][p] = Nothing

(* The directories and the trash are those that the operations made.          *)
Exact(pl, k) ==
  \A i \in 1..k : LET a == Ops(pl)[i] IN
    /\ a.op = "mkdir" =>
         /\ tree[a.to] = Dir /\ a.to \notin litter
         /\ \A p \in Paths : Parent[p] = a.to /\ tree[p] # Nothing =>
              \E j \in 1..k : Makes(Ops(pl)[j]) /\ Ops(pl)[j].to = p
    /\ Takes(a) => tree[a.from] = Nothing
    /\ a.op = "trash" => trash[pl][a.from] # Nothing
Still(pl) ==
  /\ job.plan = pl => job.mode # "redoing"
  /\ plan[pl].status = "applied" \/ (job.plan = pl /\ job.mode = "applying")
       => (job.plan = pl /\ job.mode = "rolling_back") \/ Exact(pl, InEffect(pl))

(* The job: where it is in its plan's operations.                             *)
Follows(pl, k, n) ==
  /\ job.mode \in {"applying", "redoing"} =>
       \A i \in 1..Len(job.todo) : job.todo[i] = Ops(pl)[k + i]
  /\ job.mode \in {"rolling_back", "undoing"} =>
       \A i \in 1..k : job.todo[i] = Converse(Ops(pl)[k + 1 - i])
  /\ job.mode = "applying" =>
       Len(job.done) = k /\ \A i \in 1..k : job.done[i] = Converse(Ops(pl)[i])
  /\ job.mode = "undoing" =>
       Len(job.done) = n - k /\ \A i \in 1..(n - k) : job.done[i] = Ops(pl)[n + 1 - i]
Running(pl, k, n) ==
  /\ Len(job.todo) <= n
  /\ job.mode = "applying" => plan[pl].status = "planned"
  /\ job.mode = "rolling_back" =>
       plan[pl].status = "planned" \/ (plan[pl].status = "applied" /\ pl \in mishap)
  /\ job.mode = "undoing" => plan[pl].status = "applied"
  /\ job.mode = "redoing" =>
       plan[pl].status = "applied" \/ (plan[pl].status = "undone" /\ pl \in mishap)
  /\ Follows(pl, k, n)
  /\ job.mode \in {"undoing", "redoing"} =>
       \A i \in (k + 1)..n : Takes(Ops(pl)[i]) => tree[Ops(pl)[i].from] # Dir

(* The job of a plan that nobody disturbs.                                    *)
CalmJob(pl, k, n) ==
  /\ After(Visible(tree), Ops(pl), plan[pl].digest, k)
  /\ \A p \in Paths : trash[pl][p] # Nothing => \E i \in 1..k : Ops(pl)[i] = Trash(p)
  /\ job.mode \in {"applying", "rolling_back"} =>
       \A i \in 1..k : /\ Takes(Ops(pl)[i]) => tree[Ops(pl)[i].from] = Nothing
                       /\ Ops(pl)[i].op = "trash" => trash[pl][Ops(pl)[i].from] # Nothing
  /\ job.mode = "applying" =>
       \A i \in 1..k : Ops(pl)[i].op = "mkdir" => tree[Ops(pl)[i].to] = Dir
  /\ job.mode \in {"undoing", "redoing"} =>
       \A i \in (k + 1)..n : LET a == Ops(pl)[i] IN
         /\ a.op = "move" => tree[a.to] = Nothing
         /\ Makes(a) => \/ IsDir(Parent[a.to])
                        \/ \E j \in (k + 1)..(i - 1) : Ops(pl)[j] = Mkdir(Parent[a.to])

Jobs ==
  \/ job = Idle
  \/ /\ job.plan \in Plans /\ job.mode # "idle"
     /\ Running(job.plan, InEffect(job.plan), Len(Ops(job.plan)))
     /\ Undisturbed(job.plan) => CalmJob(job.plan, InEffect(job.plan), Len(Ops(job.plan)))

IInv ==
  /\ TypeOK /\ Placed /\ Jobs /\ NothingLost
  /\ \A pl \in Plans :
       /\ Keeps(pl)
       /\ Undisturbed(pl) => Calm(pl)
       /\ touched[pl] = "no" /\ pl \notin mishap => Still(pl)

-----------------------------------------------------------------------------
(* The constants, the paths and the operations.                               *)
LEMMA ConstantFacts ==
  /\ Dir \notin Contents /\ Nothing \notin Contents /\ Dir # Nothing
  /\ None \notin Contents /\ None \notin Paths /\ None \notin Plans
  /\ Root \notin Paths
  /\ \A p \in Paths : Parent[p] \in Paths \cup {Root}
BY FilePlansAssumption

LEMMA ParentFacts ==
  ASSUME NEW p \in Paths
  PROVE  Parent[p] # p /\ (Parent[p] # Root => Parent[p] \in Paths /\ Parent[Parent[p]] = Root)
BY FilePlansAssumption

LEMMA VisibleIs ==
  ASSUME NEW t, NEW p, NEW c
  PROVE  <<p, c>> \in Visible(t) <=> p \in Paths /\ c \in Contents /\ t[p] = c
BY DEF Visible

LEMMA VisibleDigest ==
  ASSUME NEW t
  PROVE  Digest(Visible(t))
BY VisibleIs DEF Digest, Visible

LEMMA ProposalFacts ==
  ASSUME NEW a \in Proposals
  PROVE  /\ a \in Operation /\ a.op \in {"mkdir", "move", "trash"}
         /\ a.op = "mkdir" => a.from = None /\ a.to \in Paths /\ a = Mkdir(a.to)
         /\ a.op = "move" => a.from \in Paths /\ a.to \in Paths
         /\ a.op = "trash" => a.from \in Paths /\ a.to = None /\ a = Trash(a.from)
BY DEF Proposals, Operation, Mkdir, Move, Trash

LEMMA ConverseFacts ==
  ASSUME NEW a \in Proposals
  PROVE  /\ Converse(a) \in Operation /\ Converse(Converse(a)) = a
         /\ Converse(a).from = a.to /\ Converse(a).to = a.from
         /\ a.op = "mkdir" => Converse(a).op = "rmdir"
         /\ a.op = "move" => Converse(a).op = "move"
         /\ a.op = "trash" => Converse(a).op = "trash_restore"
<1>1. CASE a.op = "mkdir"
  BY <1>1, ProposalFacts DEF Converse, Opposite, Operation, Mkdir
<1>2. CASE a.op = "move"
  BY <1>2, ProposalFacts DEF Converse, Opposite, Operation
<1>3. CASE a.op = "trash"
  BY <1>3, ProposalFacts DEF Converse, Opposite, Operation, Trash
<1> QED
  BY <1>1, <1>2, <1>3, ProposalFacts

LEMMA ReverseFacts ==
  ASSUME NEW S, NEW s \in Seq(S)
  PROVE  /\ Reverse(s) \in Seq(S) /\ Len(Reverse(s)) = Len(s)
         /\ \A i \in 1..Len(s) : Reverse(s)[i] = s[Len(s) + 1 - i]
BY DEF Reverse

LEMMA AppendFacts ==
  ASSUME NEW S, NEW s \in Seq(S), NEW e \in S
  PROVE  /\ Append(s, e) \in Seq(S) /\ Len(Append(s, e)) = Len(s) + 1
         /\ Append(s, e)[Len(s) + 1] = e
         /\ \A i \in 1..Len(s) : Append(s, e)[i] = s[i]
OBVIOUS

LEMMA TailFacts ==
  ASSUME NEW S, NEW s \in Seq(S), s # <<>>
  PROVE  /\ Head(s) = s[1] /\ Head(s) \in S /\ Tail(s) \in Seq(S)
         /\ Len(s) \in Nat \ {0} /\ Len(Tail(s)) = Len(s) - 1
         /\ \A i \in 1..(Len(s) - 1) : Tail(s)[i] = s[i + 1]
OBVIOUS

-----------------------------------------------------------------------------
(* Operations carried out and undone: t is the folder before, u after, c the  *)
(* file that is put back.                                                     *)
Forward(t, u, a) ==
  /\ Takes(a) => u[a.from] = Nothing
  /\ a.op = "mkdir" => u[a.to] = Dir
  /\ a.op = "move" => u[a.to] = t[a.from]
  /\ \A p \in Paths : (Takes(a) => p # a.from) /\ (Makes(a) => p # a.to) => u[p] = t[p]

Backward(t, u, a, c) ==
  /\ Makes(a) => u[a.to] = Nothing
  /\ Takes(a) => u[a.from] = c
  /\ \A p \in Paths : (Takes(a) => p # a.from) /\ (Makes(a) => p # a.to) =>
       \/ u[p] = t[p]
       \/ t[p] = Nothing /\ u[p] = Dir /\ Takes(a) /\ p = Parent[a.from]

LEMMA ShapeFacts ==
  ASSUME NEW ops, Shape(ops), NEW i \in 1..Len(ops), NEW j \in 1..Len(ops)
  PROVE  /\ ops[i] \in Proposals
         /\ Takes(ops[i]) => ops[i].from \in Paths
         /\ Makes(ops[i]) => ops[i].to \in Paths
         /\ i # j /\ Takes(ops[i]) /\ Takes(ops[j]) => ops[i].from # ops[j].from
         /\ i # j /\ ops[i].op = ops[j].op /\ Makes(ops[i]) => ops[i].to # ops[j].to
         /\ Takes(ops[i]) /\ Takes(ops[j]) => Parent[ops[i].from] # ops[j].from
         /\ Takes(ops[i]) /\ Makes(ops[j]) => ops[i].from # ops[j].to
         /\ Takes(ops[i]) /\ Makes(ops[j]) => Parent[ops[i].from] # ops[j].to
<1>1. ops[i] \in Proposals
  BY DEF Shape
<1>2. /\ Takes(ops[i]) => ops[i].from \in Paths
      /\ Makes(ops[i]) => ops[i].to \in Paths
  BY <1>1, ProposalFacts DEF Takes, Makes
<1>3. (i # j => Separate(ops[i], ops[j])) /\ Clear(ops[i], ops[j])
  BY DEF Shape
<1> QED
  BY <1>1, <1>2, <1>3 DEF Separate, Clear

(* The next operation is in effect, too.                                      *)
LEMMA AfterForward ==
  ASSUME NEW ops, NEW d, NEW k \in Nat, NEW t, NEW u,
         Shape(ops), Against(ops, d), k + 1 \in 1..Len(ops),
         After(Visible(t), ops, d, k), Forward(t, u, ops[k + 1]),
         Takes(ops[k + 1]) => t[ops[k + 1].from] \in Contents,
         ops[k + 1].op = "mkdir" => t[ops[k + 1].to] \notin Contents
  PROVE  After(Visible(u), ops, d, k + 1)
<1> DEFINE a == ops[k + 1]
<1>0. Len(ops) \in Nat /\ a \in Proposals
  BY ShapeFacts DEF Shape
<1>a. \A i \in 1..k : i \in 1..Len(ops) /\ i # k + 1
  BY <1>0
<1>b. \A i \in 1..(k + 1) : i \in 1..k \/ i = k + 1
  BY <1>0
<1>1. ASSUME NEW i \in 1..(k + 1), Takes(ops[i]), NEW c \in Contents
      PROVE  <<ops[i].from, c>> \notin Visible(u)
  <2>1. CASE i = k + 1
    BY <1>1, <2>1, VisibleIs, ConstantFacts DEF Forward
  <2>2. CASE i \in 1..k
    <3>1. /\ ops[i].from \in Paths
          /\ Makes(a) => ops[i].from # a.to
          /\ Takes(a) => ops[i].from # a.from
      BY <1>1, <1>a, <2>2, ShapeFacts
    <3>2. u[ops[i].from] = t[ops[i].from]
      BY <3>1 DEF Forward
    <3>3. <<ops[i].from, c>> \notin Visible(t)
      BY <1>1, <2>2 DEF After
    <3> QED
      BY <3>2, <3>3, VisibleIs
  <2> QED
    BY <1>b, <2>1, <2>2
<1>2. ASSUME NEW i \in 1..(k + 1), ops[i].op = "move", NEW c \in Contents
      PROVE  <<ops[i].to, c>> \in Visible(u) <=> <<ops[i].from, c>> \in d
  <2>0. Takes(ops[i]) /\ Makes(ops[i])
    BY <1>2 DEF Takes, Makes
  <2>1. CASE i = k + 1
    <3>1. u[a.to] = t[a.from] /\ a.to \in Paths /\ a.from \in Paths
      BY <1>2, <2>0, <2>1, ShapeFacts DEF Forward
    <3>2. \A j \in 1..k : /\ Takes(ops[j]) => ops[j].from # a.from
                          /\ ops[j].op = "move" => ops[j].to # a.from
      BY <1>a, <2>0, <2>1, ShapeFacts DEF Makes
    <3>3. <<a.from, c>> \in Visible(t) <=> <<a.from, c>> \in d
      BY <3>1, <3>2 DEF After
    <3> QED
      BY <2>1, <3>1, <3>3, VisibleIs
  <2>2. CASE i \in 1..k
    <3>1. <<ops[i].to, c>> \in Visible(t) <=> <<ops[i].from, c>> \in d
      BY <1>2, <2>2 DEF After
    <3>2. ops[i].to \in Paths /\ (Takes(a) => ops[i].to # a.from)
      BY <1>a, <2>0, <2>2, ShapeFacts
    <3>3. Makes(a) => ops[i].to # a.to
      <4>1. CASE a.op = "move"
        BY <1>2, <1>a, <2>0, <2>2, <4>1, ShapeFacts
      <4>2. CASE a.op = "mkdir"
        <5>1. PICK e \in Contents : <<ops[i].from, e>> \in d
          BY <1>a, <2>0, <2>2 DEF Against, Fits
        <5>2. <<ops[i].to, e>> \in Visible(t)
          BY <1>2, <2>2, <5>1 DEF After
        <5> QED
          BY <4>2, <5>2, VisibleIs
      <4> QED
        BY <4>1, <4>2 DEF Makes
    <3>4. u[ops[i].to] = t[ops[i].to]
      BY <3>2, <3>3 DEF Forward
    <3> QED
      BY <3>1, <3>4, VisibleIs
  <2> QED
    BY <1>b, <2>1, <2>2
<1>3. ASSUME NEW p \in Paths, NEW c \in Contents,
             \A i \in 1..(k + 1) : /\ Takes(ops[i]) => ops[i].from # p
                                   /\ ops[i].op = "move" => ops[i].to # p
      PROVE  <<p, c>> \in Visible(u) <=> <<p, c>> \in d
  <2>1. <<p, c>> \in Visible(t) <=> <<p, c>> \in d
    BY <1>3, <1>0 DEF After
  <2>2. (Takes(a) => a.from # p) /\ (a.op = "move" => a.to # p)
    BY <1>3, <1>0
  <2>3. CASE a.op = "mkdir" /\ a.to = p
    BY <2>1, <2>3, VisibleIs, ConstantFacts DEF Forward
  <2>4. CASE ~(a.op = "mkdir" /\ a.to = p)
    <3>1. u[p] = t[p]
      BY <2>2, <2>4 DEF Forward, Makes
    <3> QED
      BY <2>1, <3>1, VisibleIs
  <2> QED
    BY <2>3, <2>4
<1> QED
  BY <1>1, <1>2, <1>3 DEF After

(* The last operation in effect is no more.                                   *)
LEMMA AfterBackward ==
  ASSUME NEW ops, NEW d, NEW k \in Nat, NEW t, NEW u, NEW e,
         Shape(ops), Against(ops, d), Digest(d), k \in 1..Len(ops),
         After(Visible(t), ops, d, k), Backward(t, u, ops[k], e),
         ops[k].op = "trash" => e \in Contents /\ <<ops[k].from, e>> \in d,
         ops[k].op = "move" => e \in Contents /\ t[ops[k].to] = e,
         ops[k].op = "mkdir" => t[ops[k].to] \notin Contents
  PROVE  After(Visible(u), ops, d, k - 1)
<1> DEFINE a == ops[k]
<1>0. Len(ops) \in Nat /\ a \in Proposals
  BY ShapeFacts DEF Shape
<1>a. \A i \in 1..(k - 1) : i \in 1..k /\ i \in 1..Len(ops) /\ i # k
  BY <1>0
<1>b. \A i \in 1..k : i \in 1..(k - 1) \/ i = k
  BY <1>0
<1>c. /\ Takes(a) => a.from \in Paths
      /\ Makes(a) => a.to \in Paths
  BY ShapeFacts
<1>1. ASSUME NEW i \in 1..(k - 1), Takes(ops[i]), NEW c \in Contents
      PROVE  <<ops[i].from, c>> \notin Visible(u)
  <2>1. /\ ops[i].from \in Paths
        /\ Makes(a) => ops[i].from # a.to
        /\ Takes(a) => ops[i].from # a.from
    BY <1>1, <1>a, ShapeFacts
  <2>2. u[ops[i].from] \in {t[ops[i].from], Dir}
    BY <2>1 DEF Backward
  <2>3. <<ops[i].from, c>> \notin Visible(t)
    BY <1>1, <1>a DEF After
  <2> QED
    BY <2>2, <2>3, VisibleIs, ConstantFacts
<1>2. ASSUME NEW i \in 1..(k - 1), ops[i].op = "move", NEW c \in Contents
      PROVE  <<ops[i].to, c>> \in Visible(u) <=> <<ops[i].from, c>> \in d
  <2>0. Takes(ops[i]) /\ Makes(ops[i])
    BY <1>2 DEF Takes, Makes
  <2>1. <<ops[i].to, c>> \in Visible(t) <=> <<ops[i].from, c>> \in d
    BY <1>2, <1>a DEF After
  <2>2. ops[i].to \in Paths /\ (Takes(a) => ops[i].to # a.from)
    BY <1>a, <2>0, ShapeFacts
  <2>3. PICK f \in Contents : <<ops[i].from, f>> \in d
    BY <1>a, <2>0 DEF Against, Fits
  <2>4. <<ops[i].to, f>> \in Visible(t)
    BY <1>2, <1>a, <2>3 DEF After
  <2>5. t[ops[i].to] \in Contents
    BY <2>4, VisibleIs
  <2>6. Makes(a) => ops[i].to # a.to
    <3>1. CASE a.op = "move"
      BY <1>2, <1>a, <2>0, <3>1, ShapeFacts
    <3>2. CASE a.op = "mkdir"
      BY <2>5, <3>2
    <3> QED
      BY <3>1, <3>2 DEF Makes
  <2>7. u[ops[i].to] = t[ops[i].to]
    BY <2>2, <2>5, <2>6, ConstantFacts DEF Backward
  <2> QED
    BY <2>1, <2>7, VisibleIs
<1>3. ASSUME NEW p \in Paths, NEW c \in Contents,
             \A i \in 1..(k - 1) : /\ Takes(ops[i]) => ops[i].from # p
                                   /\ ops[i].op = "move" => ops[i].to # p
      PROVE  <<p, c>> \in Visible(u) <=> <<p, c>> \in d
  <2>1. CASE Takes(a) /\ a.from = p
    <3>1. u[p] = e
      BY <2>1 DEF Backward
    <3>2. CASE a.op = "trash"
      BY <2>1, <3>1, <3>2, VisibleIs DEF Digest
    <3>3. CASE a.op = "move"
      <4>1. <<a.to, c>> \in Visible(t) <=> <<p, c>> \in d
        BY <2>1, <3>3 DEF After
      <4> QED
        BY <1>c, <2>1, <3>1, <3>3, <4>1, VisibleIs DEF Makes
    <3> QED
      BY <2>1, <3>2, <3>3 DEF Takes
  <2>2. CASE Makes(a) /\ a.to = p
    <3>1. <<p, c>> \notin d
      BY <2>2 DEF Against, Fits
    <3>2. u[p] = Nothing
      BY <2>2 DEF Backward
    <3> QED
      BY <3>1, <3>2, VisibleIs, ConstantFacts
  <2>3. CASE (Takes(a) => p # a.from) /\ (Makes(a) => p # a.to)
    <3>1. \A i \in 1..k : /\ Takes(ops[i]) => ops[i].from # p
                          /\ ops[i].op = "move" => ops[i].to # p
      BY <1>3, <1>b, <2>3 DEF Makes
    <3>2. <<p, c>> \in Visible(t) <=> <<p, c>> \in d
      BY <3>1 DEF After
    <3>3. u[p] = t[p] \/ (t[p] = Nothing /\ u[p] = Dir)
      BY <2>3 DEF Backward
    <3> QED
      BY <3>2, <3>3, VisibleIs, ConstantFacts
  <2> QED
    BY <2>1, <2>2, <2>3
<1> QED
  BY <1>1, <1>2, <1>3 DEF After

-----------------------------------------------------------------------------
(* What one rename, mkdir or rmdir does.                                      *)
LEMMA TypeFacts ==
  ASSUME TypeOK
  PROVE  /\ DOMAIN tree = Paths /\ DOMAIN trash = Plans /\ DOMAIN plan = Plans
         /\ DOMAIN draft = Plans /\ DOMAIN victim = Contents /\ DOMAIN touched = Plans
         /\ \A p \in Paths : tree[p] \in Contents \cup {Dir, Nothing}
         /\ \A pl \in Plans : DOMAIN trash[pl] = Paths
         /\ \A pl \in Plans, p \in Paths : trash[pl][p] \in Contents \cup {Nothing}
         /\ \A pl \in Plans :
              /\ plan[pl].status \in {"none", "planned", "applied", "undone"}
              /\ plan[pl].ops \in Seq(Operation) /\ plan[pl].undo \in Seq(Operation)
              /\ plan[pl].digest \subseteq Paths \X Contents
              /\ plan[pl].post \subseteq Paths \X Contents
         /\ job.mode \in {"idle", "applying", "rolling_back", "undoing", "redoing"}
         /\ job.plan \in Plans \cup {None}
         /\ job.todo \in Seq(Operation) /\ job.done \in Seq(Operation)
BY DEF TypeOK, Row, Job

LEMMA DisturbFacts ==
  ASSUME TypeOK, NEW actor, Disturb(actor)
  PROVE  /\ touched' \in [Plans -> {"no", "unseen", "yes"}]
         /\ \A q \in Plans : q = actor => touched'[q] = touched[q]
         /\ \A q \in Plans : touched[q] = "yes" => touched'[q] = "yes"
         /\ \A q \in Plans : q # actor =>
              /\ touched'[q] # "no"
              /\ touched'[q] # "yes" => draft[q] = <<>> /\ job.plan # q
<1>1. touched \in [Plans -> {"no", "unseen", "yes"}]
  BY DEF TypeOK
<1> QED
  BY <1>1 DEF Disturb

(* An operation is carried out, in apply() or when an undo() is put back.     *)
LEMMA ForwardEffect ==
  ASSUME TypeOK, NEW a \in Proposals, job.plan \in Plans, Applies(a), Do(a),
         a.op = "move" => a.from # a.to
  PROVE  /\ tree' \in [Paths -> Contents \cup {Dir, Nothing}]
         /\ trash' \in [Plans -> [Paths -> Contents \cup {Nothing}]]
         /\ Forward(tree, tree', a)
         /\ \A pl \in Plans, p \in Paths : trash'[pl][p] =
              IF pl = job.plan /\ a.op = "trash" /\ p = a.from THEN tree[p] ELSE trash[pl][p]
         /\ Takes(a) => tree[a.from] \in Contents
         /\ Makes(a) => IsDir(Parent[a.to]) /\ tree[a.to] # Dir
         /\ a.op = "mkdir" => tree[a.to] = Nothing
<1>0. /\ a.op \in {"mkdir", "move", "trash"}
      /\ a.op = "mkdir" => a.to \in Paths
      /\ a.op = "move" => a.from \in Paths /\ a.to \in Paths
      /\ a.op = "trash" => a.from \in Paths
  BY ProposalFacts
<1>t. tree \in [Paths -> Contents \cup {Dir, Nothing}]
      /\ trash \in [Plans -> [Paths -> Contents \cup {Nothing}]]
  BY DEF TypeOK
<1>1. CASE a.op = "mkdir"
  <2>1. tree' = [tree EXCEPT ![a.to] = Dir] /\ trash' = trash
    BY <1>1 DEF Do
  <2>2. tree[a.to] = Nothing /\ IsDir(Parent[a.to])
    BY <1>1 DEF Applies, Exists
  <2> QED
    BY <1>0, <1>t, <1>1, <2>1, <2>2, ConstantFacts DEF Forward, Takes, Makes
<1>2. CASE a.op = "move"
  <2>1. IsFile(a.from) /\ IsDir(Parent[a.to]) /\ tree[a.to] # Dir
    BY <1>2 DEF Applies
  <2>2. WithParent(a.to) = tree
    BY <1>0, <1>2, <2>1, ConstantFacts DEF WithParent, IsDir
  <2>3. /\ tree' = [tree EXCEPT ![a.to] = tree[a.from], ![a.from] = Nothing]
        /\ trash' = trash
    BY <1>2, <2>2 DEF Do
  <2> QED
    BY <1>0, <1>t, <1>2, <2>1, <2>3 DEF Forward, Takes, Makes, IsFile
<1>3. CASE a.op = "trash"
  <2>1. IsFile(a.from)
    BY <1>3 DEF Applies
  <2>2. /\ tree' = [tree EXCEPT ![a.from] = Nothing]
        /\ trash' = [trash EXCEPT ![job.plan][a.from] = tree[a.from]]
    BY <1>3 DEF Do
  <2> QED
    BY <1>0, <1>t, <1>3, <2>1, <2>2 DEF Forward, Takes, Makes, IsFile
<1> QED
  BY <1>0, <1>1, <1>2, <1>3

(* The operation a is undone, in undo() or by a rollback.                     *)
PutsBack(a) == IF a.op = "trash" THEN trash[job.plan][a.from] ELSE tree[a.to]

LEMMA BackwardEffect ==
  ASSUME TypeOK, NEW a \in Proposals, job.plan \in Plans, Undoes(Converse(a)), Do(Converse(a)),
         a.op = "move" => a.from # a.to /\ Parent[a.from] # a.to
  PROVE  /\ tree' \in [Paths -> Contents \cup {Dir, Nothing}]
         /\ trash' \in [Plans -> [Paths -> Contents \cup {Nothing}]]
         /\ Backward(tree, tree', a, PutsBack(a))
         /\ \A pl \in Plans, p \in Paths : trash'[pl][p] =
              IF pl = job.plan /\ a.op = "trash" /\ p = a.from THEN Nothing ELSE trash[pl][p]
         /\ Takes(a) => /\ tree[a.from] = Nothing /\ PutsBack(a) \in Contents
                        /\ Parent[a.from] # Root => tree'[Parent[a.from]] = Dir
         /\ a.op = "mkdir" => IsDir(a.to) /\ IsEmpty(a.to)
<1> DEFINE b == Converse(a)
<1>0. /\ a.op \in {"mkdir", "move", "trash"}
      /\ a.op = "mkdir" => a.to \in Paths /\ b.op = "rmdir"
      /\ a.op = "move" => a.from \in Paths /\ a.to \in Paths /\ b.op = "move"
      /\ a.op = "trash" => a.from \in Paths /\ b.op = "trash_restore"
      /\ b.from = a.to /\ b.to = a.from
  BY ProposalFacts, ConverseFacts
<1> HIDE DEF b
<1>b. Undoes(b) /\ Do(b)
  BY DEF b
<1>t. tree \in [Paths -> Contents \cup {Dir, Nothing}]
      /\ trash \in [Plans -> [Paths -> Contents \cup {Nothing}]]
  BY DEF TypeOK
<1>1. CASE a.op = "mkdir"
  <2>1. tree' = [tree EXCEPT ![a.to] = Nothing] /\ trash' = trash
    BY <1>0, <1>1, <1>b DEF Do
  <2>2. IsDir(a.to) /\ IsEmpty(a.to)
    BY <1>0, <1>1, <1>b DEF Undoes, Reverses
  <2> QED
    BY <1>0, <1>t, <1>1, <2>1, <2>2 DEF Backward, Takes, Makes
<1>p. ASSUME Takes(a)
      PROVE  /\ a.from \in Paths
             /\ WithParent(a.from) \in [Paths -> Contents \cup {Dir, Nothing}]
             /\ Parent[a.from] # Root => Parent[a.from] \in Paths /\ Parent[a.from] # a.from
                                         /\ WithParent(a.from)[Parent[a.from]] = Dir
             /\ \A p \in Paths : \/ WithParent(a.from)[p] = tree[p]
                                 \/ /\ tree[p] = Nothing /\ WithParent(a.from)[p] = Dir
                                    /\ p = Parent[a.from]
  <2>1. a.from \in Paths /\ ~IsFile(Parent[a.from])
    BY <1>0, <1>b, <1>p, ConstantFacts DEF Takes, Undoes, ParentIsFile
  <2>2. Parent[a.from] # Root => Parent[a.from] \in Paths /\ Parent[a.from] # a.from
                                 /\ tree[Parent[a.from]] \in {Dir, Nothing}
    BY <1>t, <2>1, ParentFacts DEF IsFile
  <2> QED
    BY <1>t, <2>1, <2>2, ConstantFacts DEF WithParent
<1>2. CASE a.op = "move"
  <2>1. IsFile(a.to) /\ tree[a.from] = Nothing
    BY <1>0, <1>2, <1>b DEF Undoes, Reverses, Exists
  <2>3. /\ tree' = [WithParent(a.from) EXCEPT ![a.from] = tree[a.to], ![a.to] = Nothing]
        /\ trash' = trash
    BY <1>0, <1>2, <1>b DEF Do
  <2> QED
    BY <1>0, <1>t, <1>2, <1>p, <2>1, <2>3 DEF Backward, Takes, Makes, IsFile, PutsBack
<1>3. CASE a.op = "trash"
  <2>1. trash[job.plan][a.from] \in Contents /\ tree[a.from] = Nothing
    BY <1>0, <1>t, <1>3, <1>b DEF Undoes, Reverses, Exists
  <2>2. /\ tree' = [WithParent(a.from) EXCEPT ![a.from] = trash[job.plan][a.from]]
        /\ trash' = [trash EXCEPT ![job.plan][a.from] = Nothing]
    BY <1>0, <1>3, <1>b DEF Do
  <2> QED
    BY <1>0, <1>t, <1>3, <1>p, <2>1, <2>2 DEF Backward, Takes, Makes, PutsBack
<1> QED
  BY <1>0, <1>1, <1>2, <1>3

Held(c) == \E p \in Paths : tree[p] = c \/ \E pl \in Plans : trash[pl][p] = c

LEMMA ForwardPlaced ==
  ASSUME TypeOK, Placed, NEW a \in Proposals, job.plan \in Plans, Applies(a), Do(a),
         a.op = "move" => a.from # a.to
  PROVE  Placed' /\ \A c \in Contents : Held(c) /\ ~Replaces(a, c) => Held(c)'
<1>0. /\ a.op \in {"mkdir", "move", "trash"}
      /\ Makes(a) => a.to \in Paths
      /\ Takes(a) => a.from \in Paths
  BY ProposalFacts DEF Makes, Takes
<1>1. /\ tree \in [Paths -> Contents \cup {Dir, Nothing}]
      /\ trash \in [Plans -> [Paths -> Contents \cup {Nothing}]]
      /\ litter \subseteq Paths /\ unused \subseteq Contents
      /\ litter' = litter /\ unused' = unused
  BY DEF TypeOK, Do
<1>2. /\ tree' \in [Paths -> Contents \cup {Dir, Nothing}]
      /\ trash' \in [Plans -> [Paths -> Contents \cup {Nothing}]]
      /\ Forward(tree, tree', a)
      /\ \A pl \in Plans, p \in Paths : trash'[pl][p] =
           IF pl = job.plan /\ a.op = "trash" /\ p = a.from THEN tree[p] ELSE trash[pl][p]
      /\ Takes(a) => tree[a.from] \in Contents
      /\ Makes(a) => IsDir(Parent[a.to]) /\ tree[a.to] # Dir
      /\ a.op = "mkdir" => tree[a.to] = Nothing
  BY ForwardEffect
<1>3. \A p \in Paths : tree[p] = Dir => tree'[p] = Dir
  BY <1>0, <1>2, ConstantFacts DEF Forward
<1>4. \A p \in Paths : tree'[p] = Nothing \/ tree'[p] = tree[p] \/ (Makes(a) /\ p = a.to)
  BY <1>0, <1>2 DEF Forward
<1>5. \A p \in Paths : tree'[p] \in Contents =>
        \/ tree'[p] = tree[p] /\ (Takes(a) => p # a.from)
        \/ a.op = "move" /\ p = a.to /\ tree'[p] = tree[a.from]
  BY <1>0, <1>2, ConstantFacts DEF Forward, Makes
<1>a. \A p \in Paths : tree'[p] # Nothing /\ Parent[p] # Root => tree'[Parent[p]] = Dir
  BY <1>0, <1>2, <1>3, <1>4, ParentFacts DEF Placed, IsDir
<1>b. \A p \in litter' : tree'[p] = Dir
  BY <1>1, <1>3 DEF Placed
<1>c. ASSUME NEW p \in Paths, NEW q \in Paths, tree'[p] \in Contents, tree'[p] = tree'[q]
      PROVE  p = q
  BY <1>0, <1>2, <1>5, <1>c DEF Placed, Takes
<1>d. ASSUME NEW p \in Paths, NEW q \in Paths, NEW pl \in Plans, tree'[p] \in Contents
      PROVE  trash'[pl][q] # tree'[p]
  BY <1>0, <1>2, <1>5, <1>d DEF Placed, Takes
<1>e. ASSUME NEW p \in Paths, NEW q \in Paths, NEW pl \in Plans, NEW pm \in Plans,
             trash'[pl][p] # Nothing, trash'[pl][p] = trash'[pm][q]
      PROVE  pl = pm /\ p = q
  BY <1>0, <1>2, <1>e DEF Placed, Takes
<1>f. ASSUME NEW c \in unused, NEW p \in Paths
      PROVE  tree'[p] # c /\ \A pl \in Plans : trash'[pl][p] # c
  BY <1>0, <1>1, <1>2, <1>5, <1>f DEF Placed, Takes
<1>g. ASSUME NEW c \in Contents, Held(c), ~Replaces(a, c)
      PROVE  Held(c)'
  <2>1. PICK p \in Paths : tree[p] = c \/ \E pl \in Plans : trash[pl][p] = c
    BY <1>g DEF Held
  <2>2. CASE tree[p] = c
    <3>1. CASE a.op = "mkdir"
      BY <1>0, <1>2, <2>2, <3>1, ConstantFacts DEF Held, Forward, Takes, Makes
    <3>2. CASE a.op = "move"
      BY <1>0, <1>2, <1>g, <2>2, <3>2 DEF Held, Forward, Takes, Makes, Replaces
    <3>3. CASE a.op = "trash"
      BY <1>0, <1>2, <2>2, <3>3 DEF Held, Forward, Takes, Makes
    <3> QED
      BY <1>0, <3>1, <3>2, <3>3
  <2>3. CASE \E pl \in Plans : trash[pl][p] = c
    BY <1>0, <1>2, <1>g, <2>3 DEF Held, Replaces
  <2> QED
    BY <2>1, <2>2, <2>3
<1>h. Placed'
  BY <1>1, <1>a, <1>b, <1>c, <1>d, <1>e, <1>f DEF Placed
<1> QED
  BY <1>g, <1>h

LEMMA BackwardPlaced ==
  ASSUME TypeOK, Placed, NEW a \in Proposals, job.plan \in Plans, Undoes(Converse(a)),
         Do(Converse(a)), a.op = "move" => a.from # a.to /\ Parent[a.from] # a.to
  PROVE  Placed' /\ \A c \in Contents : Held(c) => Held(c)' /\ ~Replaces(Converse(a), c)
<1>0. /\ a.op \in {"mkdir", "move", "trash"}
      /\ Makes(a) => a.to \in Paths
      /\ Takes(a) => a.from \in Paths
      /\ a.op = "mkdir" => Converse(a).op = "rmdir"
      /\ a.op = "move" => Converse(a).op = "move"
      /\ a.op = "trash" => Converse(a).op = "trash_restore"
      /\ Converse(a).to = a.from
  BY ProposalFacts, ConverseFacts DEF Makes, Takes
<1>1. /\ tree \in [Paths -> Contents \cup {Dir, Nothing}]
      /\ trash \in [Plans -> [Paths -> Contents \cup {Nothing}]]
      /\ litter \subseteq Paths /\ unused \subseteq Contents
      /\ litter' = litter /\ unused' = unused
  BY DEF TypeOK, Do
<1>2. /\ tree' \in [Paths -> Contents \cup {Dir, Nothing}]
      /\ trash' \in [Plans -> [Paths -> Contents \cup {Nothing}]]
      /\ Backward(tree, tree', a, PutsBack(a))
      /\ \A pl \in Plans, p \in Paths : trash'[pl][p] =
           IF pl = job.plan /\ a.op = "trash" /\ p = a.from THEN Nothing ELSE trash[pl][p]
      /\ Takes(a) => /\ tree[a.from] = Nothing /\ PutsBack(a) \in Contents
                     /\ Parent[a.from] # Root => tree'[Parent[a.from]] = Dir
      /\ a.op = "mkdir" => IsDir(a.to) /\ IsEmpty(a.to)
  BY BackwardEffect
<1>3. \A p \in Paths : tree[p] = Dir /\ ~(a.op = "mkdir" /\ p = a.to) => tree'[p] = Dir
  BY <1>0, <1>2, ConstantFacts DEF Backward, Makes, Takes, PutsBack
<1>4. \A p \in Paths : \/ tree'[p] = Nothing \/ tree'[p] = tree[p]
                       \/ Takes(a) /\ p = a.from
                       \/ tree'[p] = Dir /\ Takes(a) /\ p = Parent[a.from]
  BY <1>0, <1>2 DEF Backward
<1>5. \A p \in Paths : tree'[p] \in Contents =>
        \/ tree'[p] = tree[p] /\ (Makes(a) => p # a.to)
        \/ Takes(a) /\ p = a.from /\ tree'[p] = PutsBack(a)
  BY <1>0, <1>2, ConstantFacts DEF Backward
<1>6. a.op = "mkdir" => \A p \in Paths : Parent[p] = a.to => tree'[p] = Nothing
  BY <1>0, <1>2, ParentFacts DEF IsEmpty, Exists, Backward, Takes, Makes
<1>a. ASSUME NEW p \in Paths, tree'[p] # Nothing, Parent[p] # Root
      PROVE  tree'[Parent[p]] = Dir
  <2>1. CASE tree'[p] = tree[p]
    BY <1>3, <1>6, <1>a, <2>1, ParentFacts DEF Placed
  <2>2. CASE Takes(a) /\ p = a.from
    BY <1>2, <1>a, <2>2
  <2>3. CASE Takes(a) /\ p = Parent[a.from]
    BY <1>0, <1>a, <2>3, ParentFacts, ConstantFacts
  <2> QED
    BY <1>4, <1>a, <2>1, <2>2, <2>3
<1>b. \A p \in litter' : tree'[p] = Dir
  BY <1>1, <1>2, <1>3 DEF Placed, IsEmpty
<1>p. \A p \in Paths : Takes(a) /\ tree[p] = PutsBack(a) => a.op = "move" /\ p = a.to
  <2>1. CASE a.op = "trash"
    <3>1. PutsBack(a) = trash[job.plan][a.from] /\ PutsBack(a) \in Contents /\ a.from \in Paths
      BY <1>0, <1>2, <2>1 DEF PutsBack, Takes
    <3>2. \A p \in Paths : tree[p] # PutsBack(a)
      BY <3>1 DEF Placed
    <3> QED
      BY <3>2
  <2>2. CASE a.op = "move"
    BY <1>0, <1>2, <2>2 DEF Placed, PutsBack, Takes, Makes
  <2> QED
    BY <2>1, <2>2 DEF Takes
<1>q. \A pl \in Plans, p \in Paths : Takes(a) => trash'[pl][p] # PutsBack(a)
  BY <1>0, <1>1, <1>2, ConstantFacts DEF Placed, PutsBack, Takes, Makes
<1>c. ASSUME NEW p \in Paths, NEW q \in Paths, tree'[p] \in Contents, tree'[p] = tree'[q]
      PROVE  p = q
  BY <1>0, <1>5, <1>c, <1>p DEF Placed, Makes
<1>d. ASSUME NEW p \in Paths, NEW q \in Paths, NEW pl \in Plans, tree'[p] \in Contents
      PROVE  trash'[pl][q] # tree'[p]
  BY <1>0, <1>2, <1>5, <1>d, <1>q, ConstantFacts DEF Placed
<1>e. ASSUME NEW p \in Paths, NEW q \in Paths, NEW pl \in Plans, NEW pm \in Plans,
             trash'[pl][p] # Nothing, trash'[pl][p] = trash'[pm][q]
      PROVE  pl = pm /\ p = q
  BY <1>2, <1>e DEF Placed
<1>f. ASSUME NEW c \in unused, NEW p \in Paths
      PROVE  tree'[p] # c /\ \A pl \in Plans : trash'[pl][p] # c
  BY <1>0, <1>1, <1>2, <1>5, <1>f, ConstantFacts DEF Placed, PutsBack, Makes, Takes
<1>g. ASSUME NEW c \in Contents, Held(c)
      PROVE  Held(c)'
  <2>1. PICK p \in Paths : tree[p] = c \/ \E pl \in Plans : trash[pl][p] = c
    BY <1>g DEF Held
  <2>2. CASE tree[p] = c
    <3>1. CASE a.op = "mkdir"
      BY <1>0, <1>2, <2>2, <3>1, ConstantFacts DEF Held, Backward, Takes, Makes, IsDir
    <3>2. CASE a.op = "move"
      BY <1>0, <1>2, <2>2, <3>2, ConstantFacts DEF Held, Backward, Takes, Makes, PutsBack
    <3>3. CASE a.op = "trash"
      BY <1>0, <1>2, <2>2, <3>3, ConstantFacts DEF Held, Backward, Takes, Makes
    <3> QED
      BY <1>0, <3>1, <3>2, <3>3
  <2>3. ASSUME NEW pl \in Plans, trash[pl][p] = c
        PROVE  Held(c)'
    <3>1. CASE pl = job.plan /\ a.op = "trash" /\ p = a.from
      BY <1>0, <1>2, <2>3, <3>1 DEF Held, Backward, Takes, PutsBack
    <3>2. CASE ~(pl = job.plan /\ a.op = "trash" /\ p = a.from)
      BY <1>2, <2>3, <3>2 DEF Held
    <3> QED
      BY <3>1, <3>2
  <2> QED
    BY <2>1, <2>2, <2>3
<1>h. Placed'
  BY <1>1, <1>a, <1>b, <1>c, <1>d, <1>e, <1>f DEF Placed
<1>i. \A c \in Contents : ~Replaces(Converse(a), c)
  BY <1>0, <1>2, ConstantFacts DEF Replaces, Takes
<1> QED
  BY <1>g, <1>h, <1>i

LEMMA LostKept ==
  ASSUME TypeOK, NothingLost, job.plan \in Plans, NEW a, Do(a),
         \A c \in Contents : Held(c) /\ ~Replaces(a, c) => Held(c)',
         Undisturbed(job.plan) => \A c \in Contents : ~Replaces(a, c)
  PROVE  NothingLost' /\ victim' \in [Contents -> Plans \cup {None}]
<1>1. /\ victim \in [Contents -> Plans \cup {None}]
      /\ victim' = [c \in Contents |-> IF Replaces(a, c) THEN job.plan ELSE victim[c]]
      /\ unused' = unused /\ gone' = gone /\ Disturb(job.plan)
  BY DEF TypeOK, Do
<1>2. ASSUME NEW c \in Contents \ (unused \cup gone)
      PROVE  Held(c)' \/ (victim'[c] # None /\ touched'[victim'[c]] = "yes")
  <2>1. Held(c) \/ (victim[c] # None /\ touched[victim[c]] = "yes")
    BY <1>2 DEF NothingLost, Held, Undisturbed
  <2>2. CASE Replaces(a, c)
    BY <1>1, <2>2, DisturbFacts, ConstantFacts DEF Undisturbed
  <2>3. CASE ~Replaces(a, c)
    BY <1>1, <2>1, <2>3, DisturbFacts, ConstantFacts
  <2> QED
    BY <2>2, <2>3
<1>3. NothingLost'
  BY <1>1, <1>2 DEF NothingLost, Held, Undisturbed
<1> QED
  BY <1>1, <1>3

-----------------------------------------------------------------------------
(* Where nothing was put yet, there is no file.                               *)
LEMMA AfterNew ==
  ASSUME NEW ops, NEW d, NEW k, NEW t, NEW i \in 1..Len(ops),
         Shape(ops), Against(ops, d), k \in 0..Len(ops), After(Visible(t), ops, d, k),
         Makes(ops[i]), \A j \in 1..k : ops[j].op = "move" => ops[j].to # ops[i].to
  PROVE  t[ops[i].to] \notin Contents
<1>1. Len(ops) \in Nat /\ \A j \in 1..k : j \in 1..Len(ops)
  BY DEF Shape
<1>2. \A j \in 1..k : Takes(ops[j]) => ops[j].from # ops[i].to
  BY <1>1, ShapeFacts
<1>3. ops[i].to \in Paths /\ \A c \in Contents : <<ops[i].to, c>> \notin d
  BY ShapeFacts DEF Against, Fits
<1>4. \A c \in Contents : <<ops[i].to, c>> \in Visible(t) <=> <<ops[i].to, c>> \in d
  BY <1>2, <1>3 DEF After
<1> QED
  BY <1>3, <1>4, VisibleIs

(* What the folder t holds when k operations of a calm plan are in effect.    *)
LEMMA AfterFacts ==
  ASSUME NEW ops, NEW d, NEW k, NEW t,
         Shape(ops), Against(ops, d), k \in 0..Len(ops), After(Visible(t), ops, d, k)
  PROVE  \A i \in 1..Len(ops) :
           /\ i <= k /\ ops[i].op = "move" => t[ops[i].to] \in Contents
           /\ i > k /\ Takes(ops[i]) =>
                t[ops[i].from] \in Contents /\ <<ops[i].from, t[ops[i].from]>> \in d
           /\ Takes(ops[i]) /\ Parent[ops[i].from] \in Paths =>
                t[Parent[ops[i].from]] \notin Contents
           /\ i > k /\ ops[i].op = "move" => t[ops[i].to] \notin Contents
<1>0. Len(ops) \in Nat /\ \A j \in 1..k : j \in 1..Len(ops)
  BY DEF Shape
<1> TAKE i \in 1..Len(ops)
<1>i. Fits(ops[i], d)
  BY DEF Against
<1>f. \A p \in Paths :
        (\A j \in 1..k : /\ Takes(ops[j]) => ops[j].from # p
                         /\ ops[j].op = "move" => ops[j].to # p)
          => /\ \A c \in Contents : t[p] = c <=> <<p, c>> \in d
             /\ t[p] \in Contents => <<p, t[p]>> \in d
  BY VisibleIs DEF After
<1>1. ASSUME i <= k, ops[i].op = "move"
      PROVE  t[ops[i].to] \in Contents
  <2>1. PICK c \in Contents : <<ops[i].from, c>> \in d
    BY <1>1, <1>i DEF Fits, Takes
  <2>2. <<ops[i].to, c>> \in Visible(t)
    BY <1>0, <1>1, <2>1 DEF After
  <2> QED
    BY <2>2, VisibleIs
<1>2. ASSUME i > k, Takes(ops[i])
      PROVE  t[ops[i].from] \in Contents /\ <<ops[i].from, t[ops[i].from]>> \in d
  <2>1. PICK c \in Contents : <<ops[i].from, c>> \in d
    BY <1>2, <1>i DEF Fits
  <2>2. \A j \in 1..k : /\ Takes(ops[j]) => ops[j].from # ops[i].from
                        /\ ops[j].op = "move" => ops[j].to # ops[i].from
    BY <1>0, <1>2, ShapeFacts DEF Makes
  <2>3. ops[i].from \in Paths
    BY <1>2, ShapeFacts
  <2> QED
    BY <1>f, <2>1, <2>2, <2>3
<1>3. ASSUME Takes(ops[i]), Parent[ops[i].from] \in Paths
      PROVE  t[Parent[ops[i].from]] \notin Contents
  <2>2. \A j \in 1..k : /\ Takes(ops[j]) => ops[j].from # Parent[ops[i].from]
                        /\ ops[j].op = "move" => ops[j].to # Parent[ops[i].from]
    BY <1>0, <1>3, ShapeFacts DEF Makes
  <2>3. \A c \in Contents : <<Parent[ops[i].from], c>> \notin d
    BY <1>3, <1>i DEF Fits
  <2> QED
    BY <1>3, <1>f, <2>2, <2>3
<1>5. ASSUME i > k, ops[i].op = "move"
      PROVE  t[ops[i].to] \notin Contents
  <2>1. \A j \in 1..k : ops[j].op = "move" => ops[j].to # ops[i].to
    BY <1>0, <1>5, ShapeFacts DEF Makes
  <2> QED
    BY <1>5, <2>1, AfterNew DEF Makes
<1> QED
  BY <1>1, <1>2, <1>3, <1>5

LEMMA AfterMkdir ==
  ASSUME NEW ops, NEW d, NEW v, NEW k \in Nat, ops[k + 1].op = "mkdir"
  PROVE  After(v, ops, d, k) <=> After(v, ops, d, k + 1)
<1>1. \A i \in 1..k : i \in 1..(k + 1)
  OBVIOUS
<1>2. \A i \in 1..(k + 1) : i \in 1..k \/ i = k + 1
  OBVIOUS
<1>3. ~Takes(ops[k + 1]) /\ ops[k + 1].op # "move"
  BY DEF Takes
<1>5. After(v, ops, d, k) => After(v, ops, d, k + 1)
  BY <1>1, <1>2, <1>3 DEF After
<1>6. After(v, ops, d, k + 1) => After(v, ops, d, k)
  BY <1>1, <1>2, <1>3 DEF After
<1> QED
  BY <1>5, <1>6

(* Two folders that the same operations made of the same files.               *)
LEMMA AfterUnique ==
  ASSUME NEW ops, NEW d, NEW k, NEW v, NEW w, Shape(ops), k \in 0..Len(ops),
         v \subseteq Paths \X Contents, w \subseteq Paths \X Contents,
         After(v, ops, d, k), After(w, ops, d, k)
  PROVE  v = w
<1>1. ASSUME NEW p \in Paths, NEW c \in Contents
      PROVE  <<p, c>> \in v <=> <<p, c>> \in w
  <2>1. CASE \E i \in 1..k : Takes(ops[i]) /\ ops[i].from = p
    BY <2>1 DEF After
  <2>2. CASE \E i \in 1..k : ops[i].op = "move" /\ ops[i].to = p
    BY <2>2 DEF After
  <2>3. CASE \A i \in 1..k : /\ Takes(ops[i]) => ops[i].from # p
                             /\ ops[i].op = "move" => ops[i].to # p
    BY <2>3 DEF After
  <2> QED
    BY <2>1, <2>2, <2>3
<1>2. \A x \in Paths \X Contents : x \in v <=> x \in w
  BY <1>1
<1> QED
  BY <1>2

LEMMA AfterNone ==
  ASSUME NEW ops, NEW d, NEW v, v \subseteq Paths \X Contents, d \subseteq Paths \X Contents
  PROVE  After(v, ops, d, 0) <=> v = d
<1>1. 1..0 = {}
  OBVIOUS
<1>2. After(v, ops, d, 0) <=> \A p \in Paths, c \in Contents : <<p, c>> \in v <=> <<p, c>> \in d
  BY <1>1 DEF After
<1>3. (\A p \in Paths, c \in Contents : <<p, c>> \in v <=> <<p, c>> \in d)
        => \A x \in Paths \X Contents : x \in v <=> x \in d
  OBVIOUS
<1> QED
  BY <1>2, <1>3

-----------------------------------------------------------------------------
(* The job, its plan and what comes next.                                     *)
LEMMA JobFacts ==
  ASSUME IInv, job # Idle
  PROVE  /\ job.plan \in Plans /\ job.mode \in {"applying", "rolling_back", "undoing", "redoing"}
         /\ plan[job.plan].status # "none" /\ draft[job.plan] = <<>>
         /\ Shape(Ops(job.plan)) /\ Digest(plan[job.plan].digest)
         /\ Len(Ops(job.plan)) \in Nat /\ InEffect(job.plan) \in 0..Len(Ops(job.plan))
         /\ Len(job.todo) \in 0..Len(Ops(job.plan))
         /\ InEffect(job.plan) = IF job.mode \in {"rolling_back", "undoing"} THEN Len(job.todo)
                                 ELSE Len(Ops(job.plan)) - Len(job.todo)
         /\ Running(job.plan, InEffect(job.plan), Len(Ops(job.plan)))
         /\ Keeps(job.plan)
         /\ Undisturbed(job.plan) =>
              /\ Calm(job.plan) /\ Against(Ops(job.plan), plan[job.plan].digest)
              /\ CalmJob(job.plan, InEffect(job.plan), Len(Ops(job.plan)))
         /\ touched[job.plan] = "no" /\ job.plan \notin mishap => Still(job.plan)
<1>1. /\ TypeOK /\ job.plan \in Plans /\ job.mode # "idle"
      /\ Running(job.plan, InEffect(job.plan), Len(Ops(job.plan)))
      /\ Undisturbed(job.plan) => CalmJob(job.plan, InEffect(job.plan), Len(Ops(job.plan)))
  BY DEF IInv, Jobs
<1>2. /\ Keeps(job.plan) /\ (Undisturbed(job.plan) => Calm(job.plan))
      /\ touched[job.plan] = "no" /\ job.plan \notin mishap => Still(job.plan)
  BY <1>1 DEF IInv
<1>3. /\ job.mode \in {"applying", "rolling_back", "undoing", "redoing"}
      /\ job.todo \in Seq(Operation) /\ Ops(job.plan) \in Seq(Operation)
  BY <1>1, TypeFacts DEF Ops
<1>4. plan[job.plan].status # "none" /\ Len(job.todo) <= Len(Ops(job.plan))
  BY <1>1, <1>3 DEF Running
<1>5. /\ draft[job.plan] = <<>>
      /\ Shape(Ops(job.plan)) /\ Digest(plan[job.plan].digest)
      /\ Undisturbed(job.plan) => Against(Ops(job.plan), plan[job.plan].digest)
  BY <1>2, <1>4 DEF Keeps, Calm
<1>6. Len(job.todo) \in Nat /\ Len(Ops(job.plan)) \in Nat
  BY <1>3
<1>7. InEffect(job.plan) = IF job.mode \in {"rolling_back", "undoing"} THEN Len(job.todo)
                           ELSE Len(Ops(job.plan)) - Len(job.todo)
  BY DEF InEffect
<1>8. Len(job.todo) \in 0..Len(Ops(job.plan)) /\ InEffect(job.plan) \in 0..Len(Ops(job.plan))
  <2>1. Len(job.todo) \in 0..Len(Ops(job.plan))
    BY <1>4, <1>6
  <2>2. CASE job.mode \in {"rolling_back", "undoing"}
    BY <1>7, <2>1, <2>2
  <2>3. CASE ~(job.mode \in {"rolling_back", "undoing"})
    <3>1. InEffect(job.plan) = Len(Ops(job.plan)) - Len(job.todo)
      BY <1>7, <2>3
    <3>2. \A m \in Nat : \A l \in 0..m : m - l \in 0..m
      OBVIOUS
    <3> QED
      BY <1>6, <2>1, <3>1, <3>2
  <2> QED
    BY <2>2, <2>3
<1> QED
  BY <1>1, <1>2, <1>3, <1>4, <1>5, <1>6, <1>7, <1>8

LEMMA NextForward ==
  ASSUME IInv, job.mode \in {"applying", "redoing"}, job.todo # <<>>,
         NEW k, k = InEffect(job.plan)
  PROVE  /\ job # Idle /\ k \in Nat /\ k + 1 \in 1..Len(Ops(job.plan))
         /\ Head(job.todo) = Ops(job.plan)[k + 1]
         /\ Head(job.todo) \in Proposals /\ Head(job.todo) \in Operation
         /\ Tail(job.todo) \in Seq(Operation) /\ Len(job.todo) = Len(Ops(job.plan)) - k
         /\ Len(Tail(job.todo)) = Len(Ops(job.plan)) - (k + 1)
         /\ \A i \in 1..(Len(job.todo) - 1) : Tail(job.todo)[i] = Ops(job.plan)[(k + 1) + i]
         /\ Head(job.todo).op = "move" => Head(job.todo).from # Head(job.todo).to
<1> DEFINE s == job.todo
           o == Ops(job.plan)
<1>1. job # Idle
  BY DEF Idle
<1>2. /\ Len(o) \in Nat /\ k = Len(o) - Len(s) /\ Len(s) \in 0..Len(o) /\ Shape(o)
      /\ \A i \in 1..Len(s) : s[i] = o[k + i]
  BY <1>1, JobFacts DEF Running, Follows
<1>3. /\ s \in Seq(Operation) /\ Head(s) = s[1] /\ Tail(s) \in Seq(Operation)
      /\ Len(s) \in Nat \ {0} /\ Len(Tail(s)) = Len(s) - 1
      /\ \A i \in 1..(Len(s) - 1) : Tail(s)[i] = s[i + 1]
  BY TypeFacts, TailFacts DEF IInv
<1> HIDE DEF s, o
<1>4. k \in Nat /\ k + 1 \in 1..Len(o) /\ Head(s) = o[k + 1] /\ Len(Tail(s)) = Len(o) - (k + 1)
      /\ Len(s) = Len(o) - k
  BY <1>2, <1>3
<1>5. Head(s) \in Proposals /\ Head(s) \in Operation
  BY <1>2, <1>4, ShapeFacts, ProposalFacts
<1>6. Head(s).op = "move" => Head(s).from # Head(s).to
  BY <1>2, <1>4, ShapeFacts DEF Takes, Makes
<1>7. ASSUME NEW i \in 1..(Len(s) - 1)
      PROVE  Tail(s)[i] = o[(k + 1) + i]
  <2>0. Len(s) \in Nat /\ k \in Nat
    BY <1>3, <1>4
  <2>1. i + 1 \in 1..Len(s) /\ k + (i + 1) = (k + 1) + i
    BY <2>0
  <2> QED
    BY <1>2, <1>3, <2>1
<1> QED
  BY <1>1, <1>3, <1>4, <1>5, <1>6, <1>7 DEF s, o

LEMMA NextBackward ==
  ASSUME IInv, job.mode \in {"rolling_back", "undoing"}, job.todo # <<>>,
         NEW k, k = InEffect(job.plan)
  PROVE  /\ job # Idle /\ k \in 1..Len(Ops(job.plan)) /\ k \in Nat /\ k - 1 \in Nat
         /\ Head(job.todo) = Converse(Ops(job.plan)[k])
         /\ Ops(job.plan)[k] \in Proposals /\ Len(job.todo) = k
         /\ Tail(job.todo) \in Seq(Operation) /\ Len(Tail(job.todo)) = k - 1
         /\ \A i \in 1..(k - 1) : Tail(job.todo)[i] = Converse(Ops(job.plan)[(k - 1) + 1 - i])
         /\ Ops(job.plan)[k].op = "move" =>
              /\ Ops(job.plan)[k].from # Ops(job.plan)[k].to
              /\ Parent[Ops(job.plan)[k].from] # Ops(job.plan)[k].to
<1> DEFINE s == job.todo
           o == Ops(job.plan)
<1>1. job # Idle
  BY DEF Idle
<1>2. /\ Len(o) \in Nat /\ k = Len(s) /\ Len(s) \in 0..Len(o) /\ Shape(o)
      /\ \A i \in 1..k : s[i] = Converse(o[k + 1 - i])
  BY <1>1, JobFacts DEF Running, Follows
<1>3. /\ s \in Seq(Operation) /\ Head(s) = s[1] /\ Tail(s) \in Seq(Operation)
      /\ Len(s) \in Nat \ {0} /\ Len(Tail(s)) = Len(s) - 1
      /\ \A i \in 1..(Len(s) - 1) : Tail(s)[i] = s[i + 1]
  BY TypeFacts, TailFacts DEF IInv
<1> HIDE DEF s, o
<1>4. /\ k \in Nat /\ k - 1 \in Nat /\ k \in 1..Len(o) /\ Head(s) = Converse(o[k])
      /\ Len(Tail(s)) = k - 1
  <2>1. k \in Nat \ {0} /\ 1 \in 1..k /\ k + 1 - 1 = k
    BY <1>2, <1>3
  <2> QED
    BY <1>2, <1>3, <2>1
<1>5. o[k] \in Proposals
  BY <1>2, <1>4, ShapeFacts
<1>6. o[k].op = "move" => o[k].from # o[k].to /\ Parent[o[k].from] # o[k].to
  BY <1>2, <1>4, ShapeFacts DEF Takes, Makes
<1>7. ASSUME NEW i \in 1..(k - 1)
      PROVE  Tail(s)[i] = Converse(o[(k - 1) + 1 - i])
  <2>1. i + 1 \in 1..k /\ k + 1 - (i + 1) = (k - 1) + 1 - i
    BY <1>4
  <2> QED
    BY <1>2, <1>3, <1>4, <2>1
<1> QED
  BY <1>1, <1>2, <1>3, <1>4, <1>5, <1>6, <1>7 DEF s, o

(* The plans that do not act.                                                 *)
LEMMA OthersKept ==
  ASSUME IInv, job.plan \in Plans, job'.plan = job.plan, NEW a, Do(a), mishap' = mishap,
         NEW pl \in Plans, pl # job.plan,
         \A p \in Paths : trash'[pl][p] = trash[pl][p]
  PROVE  Keeps(pl)' /\ (Undisturbed(pl)' => Calm(pl)') /\ touched'[pl] # "no"
<1>1. /\ plan' = plan /\ draft' = draft /\ Disturb(job.plan)
      /\ victim' = [c \in Contents |-> IF Replaces(a, c) THEN job.plan ELSE victim[c]]
  BY DEF Do
<1>2. TypeOK /\ Keeps(pl) /\ (Undisturbed(pl) => Calm(pl))
  BY DEF IInv
<1>3. \A c \in Contents : victim'[c] = pl => victim[c] = pl
  BY <1>1
<1>4. Keeps(pl)'
  BY <1>1, <1>2, <1>3 DEF Keeps, Ops
<1>5. /\ touched'[pl] # "no"
      /\ touched'[pl] # "yes" => draft[pl] = <<>> /\ touched[pl] # "yes"
  BY <1>1, <1>2, DisturbFacts
<1>6. ASSUME Undisturbed(pl)'
      PROVE  Calm(pl)'
  <2>1. Calm(pl) /\ draft'[pl] = <<>>
    BY <1>1, <1>2, <1>5, <1>6 DEF Undisturbed
  <2> QED
    BY <1>1, <2>1 DEF Calm, Ops
<1> QED
  BY <1>4, <1>5, <1>6

-----------------------------------------------------------------------------
(* An operation of the plan is carried out.                                   *)
LEMMA ForwardCalm ==
  ASSUME IInv, job.mode \in {"applying", "redoing"}, job.todo # <<>>,
         Undisturbed(job.plan), NEW k, k = InEffect(job.plan)
  PROVE  LET a == Head(job.todo) IN
         /\ \A c \in Contents : ~Replaces(a, c)
         /\ Takes(a) => <<a.from, tree[a.from]>> \in plan[job.plan].digest
                        /\ tree[a.from] \in Contents
         /\ a.op = "trash" => trash[job.plan][a.from] = Nothing
<1> DEFINE a == Head(job.todo)
           o == Ops(job.plan)
           d == plan[job.plan].digest
<1>0. TypeOK
  BY DEF IInv
<1>1. /\ job # Idle /\ k \in Nat /\ k + 1 \in 1..Len(o) /\ a = o[k + 1] /\ a \in Proposals
  BY NextForward
<1>2. /\ job.plan \in Plans /\ Shape(o) /\ Against(o, d) /\ CalmJob(job.plan, k, Len(o))
      /\ k \in 0..Len(o)
  BY <1>1, JobFacts
<1>3. /\ After(Visible(tree), o, d, k)
      /\ \A p \in Paths : trash[job.plan][p] # Nothing => \E i \in 1..k : o[i] = Trash(p)
  BY <1>2 DEF CalmJob
<1>n. k + 1 > k /\ \A i \in 1..k : i \in 1..Len(o) /\ i # k + 1
  BY <1>1
<1>4. /\ a.op = "move" => tree[a.to] \notin Contents
      /\ Takes(a) => tree[a.from] \in Contents /\ <<a.from, tree[a.from]>> \in d
  BY <1>1, <1>2, <1>3, <1>n, AfterFacts
<1>5. ASSUME a.op = "trash", trash[job.plan][a.from] # Nothing
      PROVE  FALSE
  <2>1. a.from \in Paths /\ Takes(a)
    BY <1>1, <1>5, ProposalFacts DEF Takes
  <2>2. PICK i \in 1..k : o[i] = Trash(a.from)
    BY <1>3, <1>5, <2>1
  <2>3. Takes(o[i]) /\ o[i].from = a.from
    BY <2>2 DEF Takes, Trash
  <2> QED
    BY <1>1, <1>2, <1>n, <2>1, <2>3, ShapeFacts
<1> QED
  BY <1>4, <1>5, ConstantFacts DEF Replaces

LEMMA ForwardKeeps ==
  ASSUME IInv, job.mode \in {"applying", "redoing"}, job.todo # <<>>,
         Applies(Head(job.todo)), Do(Head(job.todo)), job'.plan = job.plan, job' \in Job,
         NEW k, k = InEffect(job.plan)
  PROVE  /\ TypeOK' /\ Placed' /\ NothingLost'
         /\ \A pl \in Plans : /\ Keeps(pl)' /\ (Undisturbed(pl)' => Calm(pl)')
                              /\ pl # job.plan => touched'[pl] # "no"
         /\ touched'[job.plan] = touched[job.plan]
         /\ Undisturbed(job.plan) =>
              After(Visible(tree'), Ops(job.plan), plan[job.plan].digest, k + 1)
<1> DEFINE a == Head(job.todo)
           o == Ops(job.plan)
           d == plan[job.plan].digest
<1>0. TypeOK /\ Placed /\ NothingLost
  BY DEF IInv
<1>1. /\ job # Idle /\ k \in Nat /\ k + 1 \in 1..Len(o) /\ a = o[k + 1] /\ a \in Proposals
      /\ a.op = "move" => a.from # a.to
  BY NextForward
<1>2. /\ job.plan \in Plans /\ plan[job.plan].status # "none" /\ draft[job.plan] = <<>>
      /\ Shape(o) /\ Keeps(job.plan)
      /\ Undisturbed(job.plan) =>
           /\ Calm(job.plan) /\ Against(o, d) /\ CalmJob(job.plan, k, Len(o))
  BY <1>1, JobFacts
<1>3. /\ tree' \in [Paths -> Contents \cup {Dir, Nothing}]
      /\ trash' \in [Plans -> [Paths -> Contents \cup {Nothing}]]
      /\ Forward(tree, tree', a)
      /\ \A pl \in Plans, p \in Paths : trash'[pl][p] =
           IF pl = job.plan /\ a.op = "trash" /\ p = a.from THEN tree[p] ELSE trash[pl][p]
      /\ Takes(a) => tree[a.from] \in Contents
      /\ a.op = "mkdir" => tree[a.to] = Nothing
  BY <1>0, <1>1, <1>2, ForwardEffect
<1>4. Placed' /\ \A c \in Contents : Held(c) /\ ~Replaces(a, c) => Held(c)'
  BY <1>0, <1>1, <1>2, ForwardPlaced
<1>5. /\ Undisturbed(job.plan) => \A c \in Contents : ~Replaces(a, c)
      /\ Undisturbed(job.plan) /\ Takes(a) => <<a.from, tree[a.from]>> \in d
  BY ForwardCalm
<1>6. NothingLost' /\ victim' \in [Contents -> Plans \cup {None}]
  <2>1. Do(a)
    OBVIOUS
  <2> HIDE DEF a
  <2> QED
    BY <1>0, <1>2, <1>4, <1>5, <2>1, LostKept
<1>7. /\ plan' = plan /\ draft' = draft /\ mishap' = mishap /\ litter' = litter
      /\ unused' = unused /\ gone' = gone /\ users' = users /\ crashes' = crashes
      /\ Disturb(job.plan)
      /\ victim' = [c \in Contents |-> IF Replaces(a, c) THEN job.plan ELSE victim[c]]
  BY DEF Do
<1>8. touched' \in [Plans -> {"no", "unseen", "yes"}] /\ touched'[job.plan] = touched[job.plan]
  BY <1>0, <1>2, <1>7, DisturbFacts
<1>9. TypeOK'
  BY <1>0, <1>3, <1>6, <1>7, <1>8 DEF TypeOK
<1>10. ASSUME NEW pl \in Plans, pl # job.plan
       PROVE  Keeps(pl)' /\ (Undisturbed(pl)' => Calm(pl)') /\ touched'[pl] # "no"
  <2>1. \A p \in Paths : trash'[pl][p] = trash[pl][p]
    BY <1>3, <1>10
  <2> QED
    BY <1>2, <1>7, <1>10, <2>1, OthersKept
<1>11. \A p \in Paths : trash'[job.plan][p] # Nothing =>
          \/ trash'[job.plan][p] = trash[job.plan][p]
          \/ a = Trash(p) /\ trash'[job.plan][p] = tree[p]
  BY <1>1, <1>2, <1>3, ProposalFacts
<1>12. Keeps(job.plan)'
  <2>1. \A p \in Paths : trash'[job.plan][p] # Nothing => \E i \in 1..Len(o) : o[i] = Trash(p)
    BY <1>1, <1>2, <1>11 DEF Keeps
  <2> QED
    BY <1>2, <1>7, <2>1 DEF Keeps, Ops
<1>13. ASSUME Undisturbed(job.plan)'
       PROVE  Calm(job.plan)'
  <2>1. Undisturbed(job.plan) /\ Calm(job.plan)
    BY <1>2, <1>8, <1>13 DEF Undisturbed
  <2>2. \A p \in Paths : trash'[job.plan][p] # Nothing => <<p, trash'[job.plan][p]>> \in d
    <3>1. \A p \in Paths : trash[job.plan][p] # Nothing => <<p, trash[job.plan][p]>> \in d
      BY <2>1 DEF Calm
    <3>2. \A p \in Paths : a = Trash(p) => <<p, tree[p]>> \in d
      <4>1. \A p \in Paths : a = Trash(p) => Takes(a) /\ a.from = p
        BY DEF Trash, Takes
      <4> QED
        BY <1>5, <2>1, <4>1
    <3> HIDE DEF a, d
    <3> QED
      BY <1>11, <3>1, <3>2
  <2> QED
    BY <1>2, <1>7, <2>1, <2>2 DEF Calm, Ops
<1>14. ASSUME Undisturbed(job.plan)
       PROVE  After(Visible(tree'), o, d, k + 1)
  <2>1. Against(o, d) /\ After(Visible(tree), o, d, k)
    BY <1>2, <1>14 DEF CalmJob
  <2> QED
    BY <1>1, <1>2, <1>3, <2>1, AfterForward, ConstantFacts
<1>15. \A pl \in Plans : /\ Keeps(pl)' /\ (Undisturbed(pl)' => Calm(pl)')
                         /\ pl # job.plan => touched'[pl] # "no"
  <2> TAKE pl \in Plans
  <2>1. CASE pl = job.plan
    BY <1>7, <1>12, <1>13, <2>1 DEF Keeps, Calm, Undisturbed, Ops
  <2>2. CASE pl # job.plan
    BY <1>10, <2>2
  <2> QED
    BY <2>1, <2>2
<1> QED
  BY <1>4, <1>6, <1>8, <1>9, <1>14, <1>15

(* The last operation in effect is undone.                                    *)
LEMMA BackwardKeeps ==
  ASSUME IInv, job.mode \in {"rolling_back", "undoing"}, job.todo # <<>>,
         Undoes(Head(job.todo)), Do(Head(job.todo)), job'.plan = job.plan, job' \in Job,
         NEW k, k = InEffect(job.plan)
  PROVE  /\ TypeOK' /\ Placed' /\ NothingLost'
         /\ \A pl \in Plans : /\ Keeps(pl)' /\ (Undisturbed(pl)' => Calm(pl)')
                              /\ pl # job.plan => touched'[pl] # "no"
         /\ touched'[job.plan] = touched[job.plan]
         /\ Undisturbed(job.plan) =>
              After(Visible(tree'), Ops(job.plan), plan[job.plan].digest, k - 1)
<1> DEFINE b == Head(job.todo)
           a == Ops(job.plan)[k]
           o == Ops(job.plan)
           d == plan[job.plan].digest
<1>0. TypeOK /\ Placed /\ NothingLost
  BY DEF IInv
<1>1. /\ job # Idle /\ k \in Nat /\ k \in 1..Len(o) /\ b = Converse(a) /\ a \in Proposals
      /\ a.op = "move" => a.from # a.to /\ Parent[a.from] # a.to
  BY NextBackward
<1>b. Undoes(Converse(a)) /\ Do(Converse(a))
  BY <1>1
<1>2. /\ job.plan \in Plans /\ plan[job.plan].status # "none" /\ draft[job.plan] = <<>>
      /\ Shape(o) /\ Keeps(job.plan) /\ Digest(d)
      /\ Undisturbed(job.plan) =>
           /\ Calm(job.plan) /\ Against(o, d) /\ CalmJob(job.plan, k, Len(o))
  BY <1>1, JobFacts
<1> HIDE DEF a
<1>3. /\ tree' \in [Paths -> Contents \cup {Dir, Nothing}]
      /\ trash' \in [Plans -> [Paths -> Contents \cup {Nothing}]]
      /\ Backward(tree, tree', a, PutsBack(a))
      /\ \A pl \in Plans, p \in Paths : trash'[pl][p] =
           IF pl = job.plan /\ a.op = "trash" /\ p = a.from THEN Nothing ELSE trash[pl][p]
      /\ Takes(a) => PutsBack(a) \in Contents
      /\ a.op = "mkdir" => IsDir(a.to)
  BY <1>0, <1>1, <1>2, <1>b, BackwardEffect
<1>4. Placed' /\ \A c \in Contents : Held(c) => Held(c)' /\ ~Replaces(Converse(a), c)
  BY <1>0, <1>1, <1>2, <1>b, BackwardPlaced
<1>5. \A c \in Contents : ~Replaces(Converse(a), c)
  <2>1. Converse(a).op = "move" => tree[Converse(a).to] = Nothing
    BY <1>b DEF Undoes, Reverses, Exists
  <2>2. Converse(a).op # "trash"
    BY <1>1, ConverseFacts, ProposalFacts
  <2> QED
    BY <2>1, <2>2, ConstantFacts DEF Replaces
<1>6. NothingLost' /\ victim' \in [Contents -> Plans \cup {None}]
  BY <1>0, <1>2, <1>4, <1>5, <1>b, LostKept
<1>7. /\ plan' = plan /\ draft' = draft /\ mishap' = mishap /\ litter' = litter
      /\ unused' = unused /\ gone' = gone /\ users' = users /\ crashes' = crashes
      /\ Disturb(job.plan)
      /\ victim' = [c \in Contents |-> IF Replaces(Converse(a), c) THEN job.plan ELSE victim[c]]
  BY <1>b DEF Do
<1>8. touched' \in [Plans -> {"no", "unseen", "yes"}] /\ touched'[job.plan] = touched[job.plan]
  BY <1>0, <1>2, <1>7, DisturbFacts
<1>9. TypeOK'
  BY <1>0, <1>3, <1>6, <1>7, <1>8 DEF TypeOK
<1>10. ASSUME NEW pl \in Plans, pl # job.plan
       PROVE  Keeps(pl)' /\ (Undisturbed(pl)' => Calm(pl)') /\ touched'[pl] # "no"
  <2>1. \A p \in Paths : trash'[pl][p] = trash[pl][p]
    BY <1>3, <1>10
  <2> QED
    BY <1>2, <1>7, <1>10, <1>b, <2>1, OthersKept
<1>11. \A p \in Paths : trash'[job.plan][p] # Nothing => trash'[job.plan][p] = trash[job.plan][p]
  BY <1>2, <1>3
<1>12. Keeps(job.plan)'
  <2>1. \A p \in Paths : trash'[job.plan][p] # Nothing => \E i \in 1..Len(o) : o[i] = Trash(p)
    BY <1>2, <1>11 DEF Keeps
  <2> QED
    BY <1>2, <1>7, <2>1 DEF Keeps, Ops
<1>13. ASSUME Undisturbed(job.plan)'
       PROVE  Calm(job.plan)'
  <2>1. Undisturbed(job.plan) /\ Calm(job.plan)
    BY <1>2, <1>8, <1>13 DEF Undisturbed
  <2>2. \A p \in Paths : trash'[job.plan][p] # Nothing => <<p, trash'[job.plan][p]>> \in d
    BY <1>11, <2>1 DEF Calm
  <2> QED
    BY <1>2, <1>7, <2>1, <2>2 DEF Calm, Ops
<1>14. ASSUME Undisturbed(job.plan)
       PROVE  After(Visible(tree'), o, d, k - 1)
  <2>1. Against(o, d) /\ After(Visible(tree), o, d, k)
    BY <1>2, <1>14 DEF CalmJob
  <2>2. a.op = "trash" => PutsBack(a) \in Contents /\ <<a.from, PutsBack(a)>> \in d
    <3>1. \A p \in Paths : trash[job.plan][p] # Nothing => <<p, trash[job.plan][p]>> \in d
      BY <1>2, <1>14 DEF Calm
    <3>2. a.op = "trash" => /\ PutsBack(a) \in Contents /\ a.from \in Paths
                            /\ PutsBack(a) = trash[job.plan][a.from]
      BY <1>1, <1>3, ProposalFacts DEF Takes, PutsBack
    <3> QED
      BY <3>1, <3>2, ConstantFacts
  <2>3. a.op = "move" => PutsBack(a) \in Contents /\ tree[a.to] = PutsBack(a)
    BY <1>3 DEF Takes, PutsBack
  <2>4. a.op = "mkdir" => tree[a.to] \notin Contents
    BY <1>1, <1>3, ProposalFacts, ConstantFacts DEF IsDir
  <2> HIDE DEF o, d
  <2>5. /\ Shape(o) /\ Digest(d) /\ k \in Nat /\ k \in 1..Len(o) /\ a = o[k]
        /\ Backward(tree, tree', o[k], PutsBack(a))
    BY <1>1, <1>2, <1>3 DEF o, d, a
  <2> QED
    BY <2>1, <2>2, <2>3, <2>4, <2>5, AfterBackward
<1>15. \A pl \in Plans : /\ Keeps(pl)' /\ (Undisturbed(pl)' => Calm(pl)')
                         /\ pl # job.plan => touched'[pl] # "no"
  <2> TAKE pl \in Plans
  <2>1. CASE pl = job.plan
    BY <1>7, <1>12, <1>13, <2>1 DEF Keeps, Calm, Undisturbed, Ops
  <2>2. CASE pl # job.plan
    BY <1>10, <2>2
  <2> QED
    BY <2>1, <2>2
<1> QED
  BY <1>4, <1>6, <1>8, <1>9, <1>14, <1>15

-----------------------------------------------------------------------------
(* The steps of the job keep the invariant.                                   *)
LEMMA JobsNext ==
  ASSUME NEW pl \in Plans, NEW k, NEW n, job'.plan = pl, job'.mode # "idle",
         k = InEffect(pl)', n = Len(Ops(pl))', Running(pl, k, n)',
         Undisturbed(pl)' => CalmJob(pl, k, n)'
  PROVE  Jobs'
BY DEF Jobs

LEMMA AdvanceFields ==
  ASSUME TypeOK, job.plan \in Plans, NEW a \in Operation, Tail(job.todo) \in Seq(Operation),
         job' = [job EXCEPT !.todo = Tail(@), !.done = Append(@, a)]
  PROVE  /\ job' \in Job /\ job'.mode = job.mode /\ job'.plan = job.plan
         /\ job'.todo = Tail(job.todo) /\ job'.done = Append(job.done, a)
         /\ Len(job.done) \in Nat /\ Len(job'.done) = Len(job.done) + 1
         /\ job'.done[Len(job.done) + 1] = a
         /\ \A i \in 1..Len(job.done) : job'.done[i] = job.done[i]
<1>1. job \in Job /\ job.done \in Seq(Operation)
  BY TypeFacts DEF TypeOK
<1>2. /\ Append(job.done, a) \in Seq(Operation)
      /\ Len(Append(job.done, a)) = Len(job.done) + 1
      /\ Append(job.done, a)[Len(job.done) + 1] = a
      /\ \A i \in 1..Len(job.done) : Append(job.done, a)[i] = job.done[i]
  BY <1>1, AppendFacts
<1>3. Len(job.done) \in Nat
  BY <1>1
<1>4. /\ job' \in Job /\ job'.mode = job.mode /\ job'.plan = job.plan
      /\ job'.todo = Tail(job.todo) /\ job'.done = Append(job.done, a)
  BY <1>1, <1>2 DEF Job
<1> QED
  BY <1>2, <1>3, <1>4

LEMMA ApplyStepKeeps ==
  ASSUME IInv, ApplyStep
  PROVE  IInv'
<1> PICK k : k = InEffect(job.plan)
  OBVIOUS
<1> PICK pl : pl = job.plan
  OBVIOUS
<1> DEFINE a == Head(job.todo)
           o == Ops(pl)
           d == plan[pl].digest
           n == Len(o)
<1>0. /\ TypeOK /\ Placed /\ job.mode = "applying" /\ job.todo # <<>> /\ Applies(a) /\ Do(a)
      /\ job' = [job EXCEPT !.todo = Tail(@), !.done = Append(@, Converse(a))]
  BY DEF IInv, ApplyStep, Advance
<1>1. /\ job # Idle /\ k \in Nat /\ k + 1 \in 1..n /\ a = o[k + 1] /\ a \in Proposals
      /\ Tail(job.todo) \in Seq(Operation) /\ Len(job.todo) = n - k
      /\ Len(Tail(job.todo)) = n - (k + 1)
      /\ \A i \in 1..(Len(job.todo) - 1) : Tail(job.todo)[i] = o[(k + 1) + i]
      /\ a.op = "move" => a.from # a.to
  BY <1>0, NextForward
<1>2. /\ pl \in Plans /\ plan[pl].status = "planned" /\ Shape(o) /\ n \in Nat
      /\ Len(job.done) = k /\ \A i \in 1..k : job.done[i] = Converse(o[i])
      /\ Undisturbed(pl) => Against(o, d) /\ CalmJob(pl, k, n)
      /\ touched[pl] = "no" /\ pl \notin mishap => Still(pl)
  BY <1>0, <1>1, JobFacts DEF Running, Follows
<1>3. /\ job' \in Job /\ job'.mode = "applying" /\ job'.plan = pl /\ job'.todo = Tail(job.todo)
      /\ Len(job'.done) = k + 1 /\ job'.done[k + 1] = Converse(a)
      /\ \A i \in 1..k : job'.done[i] = job.done[i]
  BY <1>0, <1>1, <1>2, AdvanceFields, ConverseFacts
<1>4. /\ TypeOK' /\ Placed' /\ NothingLost'
      /\ \A q \in Plans : /\ Keeps(q)' /\ (Undisturbed(q)' => Calm(q)')
                          /\ q # pl => touched'[q] # "no"
      /\ touched'[pl] = touched[pl]
      /\ Undisturbed(pl) => After(Visible(tree'), o, d, k + 1)
  BY <1>0, <1>3, ForwardKeeps
<1>5. /\ Forward(tree, tree', a)
      /\ \A p \in Paths : trash'[pl][p] =
           IF a.op = "trash" /\ p = a.from THEN tree[p] ELSE trash[pl][p]
      /\ Takes(a) => tree[a.from] \in Contents
      /\ Makes(a) => tree[a.to] # Dir
      /\ a.op = "mkdir" => tree[a.to] = Nothing
  BY <1>0, <1>1, <1>2, ForwardEffect
<1>6. plan' = plan /\ litter' = litter /\ mishap' = mishap
  BY <1>0 DEF Do
<1>7. o' = o /\ d' = d /\ n' = n /\ InEffect(pl)' = k + 1
  <2>1. o' = o /\ d' = d /\ n' = n /\ InEffect(pl)' = n - Len(job'.todo)
    BY <1>3, <1>6 DEF Ops, InEffect
  <2>2. \A m \in Nat : n - (n - (m + 1)) = m + 1
    BY <1>2
  <2> QED
    BY <1>1, <1>3, <2>1, <2>2
<1> HIDE DEF a, o, d, n
<1>8. Running(pl, k + 1, n)'
  <2>1. Len(job'.todo) = n - (k + 1) /\ \A i \in 1..(n - (k + 1)) : job'.todo[i] = o[(k + 1) + i]
    <3>1. Len(job.todo) - 1 = n - (k + 1)
      BY <1>1, <1>2
    <3> QED
      BY <1>1, <1>3, <3>1
  <2>2. \A i \in 1..(k + 1) : job'.done[i] = Converse(o[i])
    <3>1. \A i \in 1..(k + 1) : i \in 1..k \/ i = k + 1
      BY <1>1
    <3> QED
      BY <1>1, <1>2, <1>3, <3>1
  <2>3. Len(job'.todo) <= n
    BY <1>1, <1>2, <2>1
  <2>4. Follows(pl, k + 1, n)'
    BY <1>3, <1>7, <2>1, <2>2 DEF Follows, o
  <2> QED
    BY <1>2, <1>3, <1>6, <1>7, <2>3, <2>4 DEF Running
<1>c. \A i \in 1..(k + 1) : i \in 1..k \/ i = k + 1
  BY <1>1
<1>d. \A i \in 1..k : i \in 1..n /\ i < k + 1
  BY <1>1, <1>2
<1>e. ASSUME NEW i \in 1..(k + 1),
             i \in 1..k => /\ Takes(o[i]) => tree[o[i].from] = Nothing
                           /\ o[i].op = "trash" => trash[pl][o[i].from] # Nothing
                           /\ o[i].op = "mkdir" => tree[o[i].to] = Dir
      PROVE  /\ Takes(o[i]) => tree'[o[i].from] = Nothing
             /\ o[i].op = "trash" => trash'[pl][o[i].from] # Nothing
             /\ o[i].op = "mkdir" => tree'[o[i].to] = Dir
  <2>1. CASE i = k + 1
    BY <1>1, <1>5, <2>1, ConstantFacts, ProposalFacts DEF Forward, Takes
  <2>2. CASE i \in 1..k
    <3>1. /\ Takes(o[i]) => /\ o[i].from \in Paths
                            /\ Makes(a) => a.to # o[i].from
                            /\ Takes(a) => a.from # o[i].from
          /\ o[i].op = "mkdir" => o[i].to \in Paths
      BY <1>1, <1>2, <1>d, <2>2, ShapeFacts DEF o, n, Makes
    <3>2. Takes(o[i]) => tree'[o[i].from] = Nothing
      BY <1>5, <1>e, <2>2, <3>1 DEF Forward
    <3>3. o[i].op = "trash" => trash'[pl][o[i].from] # Nothing
      BY <1>5, <1>e, <2>2, <3>1 DEF Takes
    <3>4. o[i].op = "mkdir" => tree'[o[i].to] = Dir
      BY <1>5, <1>e, <2>2, <3>1, ConstantFacts DEF Forward
    <3> QED
      BY <3>2, <3>3, <3>4
  <2> QED
    BY <1>c, <2>1, <2>2
<1>9. ASSUME Undisturbed(pl)'
      PROVE  CalmJob(pl, k + 1, n)'
  <2>1. CalmJob(pl, k, n) /\ After(Visible(tree'), o, d, k + 1)
    BY <1>2, <1>4, <1>9 DEF Undisturbed
  <2>2. After(Visible(tree)', o', d', k + 1)
    BY <1>7, <2>1
  <2>3. ASSUME NEW p \in Paths, trash'[pl][p] # Nothing
        PROVE  \E i \in 1..(k + 1) : o[i] = Trash(p)
    BY <1>1, <1>5, <2>1, <2>3, ProposalFacts DEF CalmJob, o
  <2>4. ASSUME NEW i \in 1..(k + 1)
        PROVE  /\ Takes(o[i]) => tree'[o[i].from] = Nothing
               /\ o[i].op = "trash" => trash'[pl][o[i].from] # Nothing
               /\ o[i].op = "mkdir" => tree'[o[i].to] = Dir
    BY <1>0, <1>e, <2>1 DEF CalmJob, o
  <2> QED
    BY <1>3, <1>7, <2>2, <2>3, <2>4 DEF CalmJob, o, d
<1>10. ASSUME touched'[pl] = "no", pl \notin mishap'
       PROVE  Still(pl)'
  <2>1. Exact(pl, k)
    BY <1>0, <1>2, <1>4, <1>6, <1>10 DEF Still
  <2>2. ASSUME NEW i \in 1..(k + 1)
        PROVE  /\ o[i].op = "mkdir" => tree'[o[i].to] = Dir /\ o[i].to \notin litter'
               /\ Takes(o[i]) => tree'[o[i].from] = Nothing
               /\ o[i].op = "trash" => trash'[pl][o[i].from] # Nothing
    <3>1. i \in 1..k => /\ Takes(o[i]) => tree[o[i].from] = Nothing
                        /\ o[i].op = "trash" => trash[pl][o[i].from] # Nothing
                        /\ o[i].op = "mkdir" => tree[o[i].to] = Dir /\ o[i].to \notin litter
      BY <2>1 DEF Exact, o
    <3>2. i = k + 1 /\ o[i].op = "mkdir" => o[i].to \notin litter
      BY <1>0, <1>1, <1>5, ConstantFacts DEF Placed
    <3> QED
      BY <1>6, <1>c, <1>e, <3>1, <3>2
  <2>3. ASSUME NEW i \in 1..(k + 1), o[i].op = "mkdir",
               NEW p \in Paths, Parent[p] = o[i].to, tree'[p] # Nothing
        PROVE  \E j \in 1..(k + 1) : Makes(o[j]) /\ o[j].to = p
    <3>1. CASE Makes(a) /\ a.to = p
      BY <1>1, <3>1
    <3>2. CASE ~(Makes(a) /\ a.to = p)
      <4>1. tree[p] # Nothing
        BY <1>5, <2>3, <3>2 DEF Forward
      <4>2. o[i].to \in Paths /\ tree[o[i].to] = Dir
        <5>1. o[i].to \in Paths
          BY <1>1, <1>2, <1>c, <1>d, <2>3, ShapeFacts DEF Makes, o, n
        <5> QED
          BY <1>0, <2>3, <4>1, <5>1, ConstantFacts DEF Placed
      <4>3. i # k + 1
        BY <1>1, <1>5, <2>3, <4>2, ConstantFacts
      <4>4. i \in 1..k
        BY <1>c, <4>3
      <4>5. \E j \in 1..k : Makes(o[j]) /\ o[j].to = p
        BY <2>1, <2>3, <4>1, <4>4 DEF Exact, o
      <4> QED
        BY <1>1, <4>5
    <3> QED
      BY <3>1, <3>2
  <2> QED
    BY <1>3, <1>7, <2>2, <2>3 DEF Still, Exact, o, Ops
<1>11. Jobs'
  BY <1>2, <1>3, <1>7, <1>8, <1>9, JobsNext DEF o, n
<1> QED
  BY <1>4, <1>10, <1>11 DEF IInv

LEMMA UndoStepKeeps ==
  ASSUME IInv, UndoStep
  PROVE  IInv'
<1> PICK k : k = InEffect(job.plan)
  OBVIOUS
<1> PICK pl : pl = job.plan
  OBVIOUS
<1> DEFINE b == Head(job.todo)
           o == Ops(pl)
           a == o[k]
           d == plan[pl].digest
           n == Len(o)
<1>0. /\ TypeOK /\ Placed /\ job.mode = "undoing" /\ job.todo # <<>> /\ Undoes(b) /\ Do(b)
      /\ job' = [job EXCEPT !.todo = Tail(@), !.done = Append(@, Converse(b))]
  BY DEF IInv, UndoStep, Advance
<1>1. /\ job # Idle /\ k \in Nat /\ k - 1 \in Nat /\ k \in 1..n /\ b = Converse(a)
      /\ a \in Proposals
      /\ Tail(job.todo) \in Seq(Operation) /\ Len(job.todo) = k
      /\ Len(Tail(job.todo)) = k - 1
      /\ \A i \in 1..(k - 1) : Tail(job.todo)[i] = Converse(o[(k - 1) + 1 - i])
      /\ a.op = "move" => a.from # a.to /\ Parent[a.from] # a.to
  BY <1>0, NextBackward
<1>2. /\ pl \in Plans /\ plan[pl].status = "applied" /\ Shape(o) /\ n \in Nat
      /\ Len(job.done) = n - k /\ \A i \in 1..(n - k) : job.done[i] = o[n + 1 - i]
      /\ \A i \in (k + 1)..n : Takes(o[i]) => tree[o[i].from] # Dir
      /\ Undisturbed(pl) => Against(o, d) /\ CalmJob(pl, k, n)
      /\ touched[pl] = "no" /\ pl \notin mishap => Still(pl)
  BY <1>0, <1>1, JobFacts DEF Running, Follows
<1>b. Converse(b) = a /\ Undoes(Converse(a)) /\ Do(Converse(a)) /\ a \in Operation
  BY <1>0, <1>1, ConverseFacts, ProposalFacts
<1>3. /\ job' \in Job /\ job'.mode = "undoing" /\ job'.plan = pl /\ job'.todo = Tail(job.todo)
      /\ Len(job'.done) = (n - k) + 1 /\ job'.done[(n - k) + 1] = a
      /\ \A i \in 1..(n - k) : job'.done[i] = job.done[i]
  BY <1>0, <1>1, <1>2, <1>b, AdvanceFields
<1>4. /\ TypeOK' /\ Placed' /\ NothingLost'
      /\ \A q \in Plans : /\ Keeps(q)' /\ (Undisturbed(q)' => Calm(q)')
                          /\ q # pl => touched'[q] # "no"
      /\ touched'[pl] = touched[pl]
      /\ Undisturbed(pl) => After(Visible(tree'), o, d, k - 1)
  BY <1>0, <1>3, BackwardKeeps
<1> HIDE DEF a
<1>5. /\ Backward(tree, tree', a, PutsBack(a))
      /\ \A p \in Paths : trash'[pl][p] =
           IF a.op = "trash" /\ p = a.from THEN Nothing ELSE trash[pl][p]
      /\ Takes(a) => tree[a.from] = Nothing /\ PutsBack(a) \in Contents
      /\ a.op = "mkdir" => IsDir(a.to) /\ IsEmpty(a.to)
      /\ tree' \in [Paths -> Contents \cup {Dir, Nothing}]
  BY <1>0, <1>1, <1>2, <1>b, BackwardEffect
<1>6. plan' = plan /\ litter' = litter /\ mishap' = mishap
  BY <1>0 DEF Do
<1>7. o' = o /\ d' = d /\ n' = n /\ InEffect(pl)' = k - 1
  BY <1>1, <1>2, <1>3, <1>6 DEF Ops, InEffect
<1>a. a = o[k]
  BY DEF a
<1> HIDE DEF o, d, n, b
<1>c. \A i \in ((k - 1) + 1)..n : i \in (k + 1)..n \/ i = k
  BY <1>1, <1>2
<1>d. /\ \A i \in (k + 1)..n : i \in 1..n /\ i # k
      /\ \A i \in 1..(k - 1) : i \in 1..n /\ i # k /\ i \in 1..k
  BY <1>1, <1>2
<1>e. ASSUME NEW i \in 1..n, i # k
      PROVE  /\ Takes(o[i]) => /\ o[i].from \in Paths
                               /\ tree'[o[i].from] = tree[o[i].from] \/ tree'[o[i].from] = Nothing
                               /\ Takes(a) => a.from # o[i].from
             /\ Makes(o[i]) => /\ o[i].to \in Paths
                               /\ (Makes(a) /\ a.to = o[i].to) \/ tree'[o[i].to] = tree[o[i].to]
  <2>1. /\ Takes(o[i]) => /\ o[i].from \in Paths
                          /\ Makes(a) => a.to # o[i].from
                          /\ Takes(a) => a.from # o[i].from /\ Parent[a.from] # o[i].from
        /\ Makes(o[i]) => /\ o[i].to \in Paths
                          /\ Takes(a) => a.from # o[i].to /\ Parent[a.from] # o[i].to
    BY <1>1, <1>2, <1>a, <1>e, ShapeFacts DEF o, n
  <2> QED
    BY <1>5, <2>1 DEF Backward
<1>8. Running(pl, k - 1, n)'
  <2>1. /\ Len(job'.done) = n - (k - 1)
        /\ \A i \in 1..(n - (k - 1)) : job'.done[i] = o[n + 1 - i]
    <3>1. (n - k) + 1 = n - (k - 1) /\ n + 1 - ((n - k) + 1) = k
      BY <1>1, <1>2
    <3>2. \A i \in 1..(n - (k - 1)) : i \in 1..(n - k) \/ i = (n - k) + 1
      BY <1>1, <1>2
    <3> QED
      BY <1>2, <1>3, <1>a, <3>1, <3>2
  <2>2. Len(job'.todo) <= n
    BY <1>1, <1>2, <1>3
  <2>3. Follows(pl, k - 1, n)'
    BY <1>1, <1>3, <1>7, <2>1 DEF Follows, o
  <2>4. ASSUME NEW i \in ((k - 1) + 1)..n, Takes(o[i])
        PROVE  tree'[o[i].from] # Dir
    <3>1. CASE i = k
      BY <1>5, <1>a, <2>4, <3>1, ConstantFacts DEF Backward
    <3>2. CASE i \in (k + 1)..n
      BY <1>2, <1>d, <1>e, <2>4, <3>2, ConstantFacts
    <3> QED
      BY <1>c, <3>1, <3>2
  <2> QED
    BY <1>2, <1>3, <1>6, <1>7, <2>2, <2>3, <2>4 DEF Running, o
<1>9. ASSUME Undisturbed(pl)'
      PROVE  CalmJob(pl, k - 1, n)'
  <2>1. CalmJob(pl, k, n) /\ After(Visible(tree'), o, d, k - 1)
    BY <1>2, <1>4, <1>9 DEF Undisturbed
  <2>2. After(Visible(tree)', o', d', k - 1)
    BY <1>7, <2>1
  <2>3. ASSUME NEW p \in Paths, trash'[pl][p] # Nothing
        PROVE  \E i \in 1..(k - 1) : o[i] = Trash(p)
    <3>1. PICK i \in 1..k : o[i] = Trash(p)
      BY <1>5, <2>1, <2>3 DEF CalmJob, o
    <3>2. i # k
      BY <1>5, <1>a, <2>3, <3>1 DEF Trash
    <3> QED
      BY <1>1, <3>1, <3>2
  <2>4. ASSUME NEW i \in ((k - 1) + 1)..n
        PROVE  /\ o[i].op = "move" => tree'[o[i].to] = Nothing
               /\ Makes(o[i]) => \/ Parent[o[i].to] = Root
                                 \/ Parent[o[i].to] \in Paths /\ tree'[Parent[o[i].to]] = Dir
                                 \/ \E j \in ((k - 1) + 1)..(i - 1) : o[j] = Mkdir(Parent[o[i].to])
    <3>1. \A p \in Paths : tree[p] = Dir => tree'[p] = Dir \/ (a.op = "mkdir" /\ p = a.to)
      BY <1>5, ConstantFacts DEF Backward, Makes, Takes, PutsBack
    <3>2. CASE i = k
      <4>1. Makes(a) => a.to \in Paths /\ tree[a.to] # Nothing
        BY <1>1, <1>5, ProposalFacts, ConstantFacts DEF Makes, Takes, PutsBack, IsDir
      <4>2. Makes(a) => \/ Parent[a.to] = Root
                        \/ /\ Parent[a.to] \in Paths /\ tree[Parent[a.to]] = Dir
                           /\ Parent[a.to] # a.to
        BY <1>0, <4>1, ParentFacts DEF Placed
      <4> QED
        BY <1>5, <1>a, <3>1, <3>2, <4>2 DEF Backward, Makes
    <3>3. CASE i \in (k + 1)..n
      <4>1. /\ o[i].op = "move" => tree[o[i].to] = Nothing
            /\ Makes(o[i]) => \/ IsDir(Parent[o[i].to])
                             \/ \E j \in (k + 1)..(i - 1) : o[j] = Mkdir(Parent[o[i].to])
        BY <1>0, <2>1, <3>3 DEF CalmJob, o
      <4>2. o[i].op = "move" => tree'[o[i].to] = Nothing
        BY <1>5, <1>d, <1>e, <3>3, <4>1 DEF Makes, Backward
      <4>3. ASSUME Makes(o[i]), IsDir(Parent[o[i].to])
            PROVE  \/ Parent[o[i].to] = Root
                   \/ Parent[o[i].to] \in Paths /\ tree'[Parent[o[i].to]] = Dir
                   \/ \E j \in ((k - 1) + 1)..(i - 1) : o[j] = Mkdir(Parent[o[i].to])
        <5>1. CASE a.op = "mkdir" /\ a.to = Parent[o[i].to]
          <6>1. k \in ((k - 1) + 1)..(i - 1) /\ o[k] = Mkdir(Parent[o[i].to])
            BY <1>1, <1>2, <1>a, <3>3, <5>1, ProposalFacts
          <6> QED
            BY <6>1
        <5>2. CASE ~(a.op = "mkdir" /\ a.to = Parent[o[i].to])
          BY <3>1, <4>3, <5>2 DEF IsDir
        <5> QED
          BY <5>1, <5>2
      <4>4. \A j \in (k + 1)..(i - 1) : j \in ((k - 1) + 1)..(i - 1)
        BY <1>1, <1>2, <3>3
      <4> QED
        BY <4>1, <4>2, <4>3, <4>4
    <3> QED
      BY <1>c, <3>2, <3>3
  <2> QED
    BY <1>3, <1>7, <2>2, <2>3, <2>4 DEF CalmJob, o, d, IsDir
<1>10. ASSUME touched'[pl] = "no", pl \notin mishap'
       PROVE  Still(pl)'
  <2>1. Exact(pl, k)
    BY <1>0, <1>2, <1>4, <1>6, <1>10 DEF Still
  <2>2. ASSUME NEW i \in 1..(k - 1)
        PROVE  /\ o[i].op = "mkdir" => tree'[o[i].to] = Dir /\ o[i].to \notin litter'
               /\ Takes(o[i]) => tree'[o[i].from] = Nothing
               /\ o[i].op = "trash" => trash'[pl][o[i].from] # Nothing
    <3>1. /\ o[i].op = "mkdir" => tree[o[i].to] = Dir /\ o[i].to \notin litter
          /\ Takes(o[i]) => tree[o[i].from] = Nothing
          /\ o[i].op = "trash" => trash[pl][o[i].from] # Nothing
      BY <1>d, <2>1 DEF Exact, o
    <3>2. o[i].op = "mkdir" => ~(Makes(a) /\ a.to = o[i].to)
      <4>1. CASE a.op = "mkdir"
        <5>1. i \in 1..Len(Ops(pl)) /\ k \in 1..Len(Ops(pl)) /\ i # k
          BY <1>1, <1>d DEF o, n
        <5>2. Shape(Ops(pl)) /\ a = Ops(pl)[k]
          BY <1>2, <1>a DEF o
        <5>3. o[i].op = a.op /\ Makes(a) => o[i].to # a.to
          BY <5>1, <5>2, ShapeFacts DEF o, Makes
        <5> QED
          BY <4>1, <5>3
      <4>2. CASE a.op = "move"
        BY <1>5, <3>1, <4>2, ConstantFacts DEF Takes, PutsBack
      <4> QED
        BY <4>1, <4>2 DEF Makes
    <3>3. o[i].op = "trash" => Takes(o[i])
      BY DEF Takes
    <3>4. o[i].op = "mkdir" => Makes(o[i])
      BY DEF Makes
    <3>5. a.op = "trash" => Takes(a)
      BY DEF Takes
    <3> QED
      BY <1>5, <1>6, <1>d, <1>e, <3>1, <3>2, <3>3, <3>4, <3>5
  <2>3. ASSUME NEW i \in 1..(k - 1), o[i].op = "mkdir",
               NEW p \in Paths, Parent[p] = o[i].to, tree'[p] # Nothing
        PROVE  \E j \in 1..(k - 1) : Makes(o[j]) /\ o[j].to = p
    <3>1. CASE tree[p] # Nothing
      <4>1. PICK j \in 1..k : Makes(o[j]) /\ o[j].to = p
        BY <1>d, <2>1, <2>3, <3>1 DEF Exact, o
      <4>2. j # k
        BY <1>5, <1>a, <2>3, <4>1 DEF Backward
      <4> QED
        BY <1>1, <4>1, <4>2
    <3>2. CASE tree[p] = Nothing
      <4>1. Takes(a) /\ (p = a.from \/ p = Parent[a.from])
        BY <1>5, <2>3, <3>2 DEF Backward
      <4>2. /\ o[i].to \in Paths /\ a.from \in Paths
            /\ Parent[a.from] # o[i].to
        <5>1. i \in 1..Len(Ops(pl)) /\ k \in 1..Len(Ops(pl)) /\ Makes(o[i])
          BY <1>1, <1>d, <2>3 DEF o, n, Makes
        <5>2. Shape(Ops(pl)) /\ a = Ops(pl)[k]
          BY <1>2, <1>a DEF o
        <5> QED
          BY <4>1, <5>1, <5>2, ShapeFacts DEF o
      <4> QED
        BY <2>3, <4>1, <4>2, ParentFacts, ConstantFacts
    <3> QED
      BY <3>1, <3>2
  <2> QED
    BY <1>3, <1>7, <2>2, <2>3 DEF Still, Exact, o, Ops
<1>11. Jobs'
  BY <1>2, <1>3, <1>7, <1>8, <1>9, JobsNext DEF o, n
<1> QED
  BY <1>4, <1>10, <1>11 DEF IInv

LEMMA TodoFields ==
  ASSUME TypeOK, job.plan \in Plans, Tail(job.todo) \in Seq(Operation),
         job' = [job EXCEPT !.todo = Tail(@)]
  PROVE  /\ job' \in Job /\ job'.mode = job.mode /\ job'.plan = job.plan
         /\ job'.todo = Tail(job.todo) /\ job'.done = job.done
BY DEF TypeOK, Job

(* Nothing happens but to the job.                                            *)
LEMMA StayKeeps ==
  ASSUME IInv, Stay, job' \in Job
  PROVE  /\ TypeOK' /\ Placed' /\ NothingLost' /\ mishap' = mishap /\ touched' = touched
         /\ plan' = plan /\ tree' = tree /\ trash' = trash /\ litter' = litter
         /\ \A pl \in Plans :
              /\ Keeps(pl)'
              /\ Undisturbed(pl)' /\ (job.plan = pl => job'.plan = pl) => Calm(pl)'
              /\ touched[pl] = "no" /\ pl \notin mishap /\ job.plan # pl /\ job'.plan # pl
                   => Still(pl)'
<1>1. /\ tree' = tree /\ litter' = litter /\ trash' = trash /\ plan' = plan /\ draft' = draft
      /\ touched' = touched /\ unused' = unused /\ gone' = gone /\ victim' = victim
      /\ mishap' = mishap /\ users' = users /\ crashes' = crashes
  BY DEF Stay, history
<1>2. TypeOK /\ Placed /\ NothingLost
  BY DEF IInv
<1>3. TypeOK' /\ Placed' /\ NothingLost'
  BY <1>1, <1>2 DEF TypeOK, Placed, NothingLost, Undisturbed
<1>4. ASSUME NEW pl \in Plans
      PROVE  Keeps(pl)'
  BY <1>1, <1>4 DEF IInv, Keeps, Ops
<1>5. ASSUME NEW pl \in Plans, Undisturbed(pl)', job.plan = pl => job'.plan = pl
      PROVE  Calm(pl)'
  <2>1. Calm(pl)
    BY <1>1, <1>5 DEF IInv, Undisturbed
  <2> QED
    BY <1>1, <1>5, <2>1 DEF Calm, Ops
<1>6. ASSUME NEW pl \in Plans, touched[pl] = "no", pl \notin mishap,
             job.plan # pl, job'.plan # pl
      PROVE  Still(pl)'
  <2>1. Still(pl)
    BY <1>6 DEF IInv
  <2> QED
    BY <1>1, <1>6, <2>1 DEF Still, Exact, InEffect, Ops
<1> QED
  BY <1>1, <1>3, <1>4, <1>5, <1>6

LEMMA RollBackStepKeeps ==
  ASSUME IInv, RollBackStep
  PROVE  IInv'
<1> PICK k : k = InEffect(job.plan)
  OBVIOUS
<1> PICK pl : pl = job.plan
  OBVIOUS
<1> DEFINE b == Head(job.todo)
           o == Ops(pl)
           a == o[k]
           d == plan[pl].digest
           n == Len(o)
<1>0. /\ TypeOK /\ Placed /\ job.mode = "rolling_back" /\ job.todo # <<>>
      /\ job' = [job EXCEPT !.todo = Tail(@)]
      /\ ~(Reverses(b) /\ ParentIsFile(b))
      /\ IF Reverses(b) THEN Do(b) ELSE Stay
  BY DEF IInv, RollBackStep, PutBack
<1>1. /\ job # Idle /\ k \in Nat /\ k - 1 \in Nat /\ k \in 1..n /\ b = Converse(a)
      /\ a \in Proposals
      /\ Tail(job.todo) \in Seq(Operation) /\ Len(job.todo) = k
      /\ Len(Tail(job.todo)) = k - 1
      /\ \A i \in 1..(k - 1) : Tail(job.todo)[i] = Converse(o[(k - 1) + 1 - i])
      /\ a.op = "move" => a.from # a.to /\ Parent[a.from] # a.to
  BY <1>0, NextBackward
<1>2. /\ pl \in Plans /\ Shape(o) /\ n \in Nat
      /\ plan[pl].status = "planned" \/ (plan[pl].status = "applied" /\ pl \in mishap)
      /\ Undisturbed(pl) => Against(o, d) /\ CalmJob(pl, k, n)
  BY <1>0, <1>1, JobFacts DEF Running
<1>3. /\ job' \in Job /\ job'.mode = "rolling_back" /\ job'.plan = pl /\ job'.todo = Tail(job.todo)
  BY <1>0, <1>1, <1>2, TodoFields
<1>a. a = o[k]
  OBVIOUS
<1>d. \A i \in 1..(k - 1) : i \in 1..n /\ i # k /\ i \in 1..k
  BY <1>1, <1>2
<1>s. /\ plan' = plan /\ mishap' = mishap /\ touched'[pl] = touched[pl]
      /\ TypeOK' /\ Placed' /\ NothingLost'
      /\ \A q \in Plans : /\ Keeps(q)' /\ (Undisturbed(q)' => Calm(q)')
                          /\ q # pl /\ touched'[q] = "no" /\ q \notin mishap' => Still(q)'
  <2>1. CASE Reverses(b)
    <3>1. Undoes(b) /\ Do(b)
      BY <1>0, <2>1 DEF Undoes
    <3>2. plan' = plan /\ mishap' = mishap
      BY <3>1 DEF Do
    <3> QED
      BY <1>0, <1>3, <3>1, <3>2, BackwardKeeps
  <2>2. CASE ~Reverses(b)
    BY <1>0, <1>3, <2>2, StayKeeps
  <2> QED
    BY <2>1, <2>2
<1>7. o' = o /\ d' = d /\ n' = n /\ InEffect(pl)' = k - 1
  BY <1>1, <1>2, <1>3, <1>s DEF Ops, InEffect
<1>8. Running(pl, k - 1, n)'
  <2> HIDE DEF a, b, o, d, n
  <2>1. plan'[pl].status = "planned" \/ (plan'[pl].status = "applied" /\ pl \in mishap')
    BY <1>2, <1>s
  <2>2. Len(job'.todo) <= n
    BY <1>1, <1>2, <1>3
  <2>3. Follows(pl, k - 1, n)'
    BY <1>1, <1>3, <1>7 DEF Follows, o
  <2> QED
    BY <1>3, <1>7, <2>1, <2>2, <2>3 DEF Running
<1>9. ASSUME Undisturbed(pl)
      PROVE  /\ After(Visible(tree'), o, d, k - 1)
             /\ \A p \in Paths : trash'[pl][p] # Nothing => \E i \in 1..(k - 1) : o[i] = Trash(p)
             /\ \A i \in 1..(k - 1) :
                  /\ Takes(o[i]) => tree'[o[i].from] = Nothing
                  /\ o[i].op = "trash" => trash'[pl][o[i].from] # Nothing
  <2>1. /\ After(Visible(tree), o, d, k) /\ Against(o, d)
        /\ \A p \in Paths : trash[pl][p] # Nothing => \E i \in 1..k : o[i] = Trash(p)
        /\ \A i \in 1..k : /\ Takes(o[i]) => tree[o[i].from] = Nothing
                           /\ o[i].op = "trash" => trash[pl][o[i].from] # Nothing
    BY <1>0, <1>2, <1>9 DEF CalmJob
  <2>2. CASE Reverses(b)
    <3>b. Undoes(b) /\ Do(b) /\ Undoes(Converse(a)) /\ Do(Converse(a))
      BY <1>0, <1>1, <2>2 DEF Undoes
    <3>1. After(Visible(tree'), o, d, k - 1)
      BY <1>0, <1>3, <1>9, <3>b, BackwardKeeps
    <3> HIDE DEF a
    <3>2. /\ Backward(tree, tree', a, PutsBack(a))
          /\ \A p \in Paths : trash'[pl][p] =
               IF a.op = "trash" /\ p = a.from THEN Nothing ELSE trash[pl][p]
      BY <1>0, <1>1, <1>2, <3>b, BackwardEffect
    <3>3. ASSUME NEW p \in Paths, trash'[pl][p] # Nothing
          PROVE  \E i \in 1..(k - 1) : o[i] = Trash(p)
      <4>1. PICK i \in 1..k : o[i] = Trash(p)
        BY <2>1, <3>2, <3>3
      <4>2. i # k
        BY <1>a, <3>2, <3>3, <4>1 DEF Trash
      <4> QED
        BY <1>1, <4>1, <4>2
    <3>4. ASSUME NEW i \in 1..(k - 1)
          PROVE  /\ Takes(o[i]) => tree'[o[i].from] = Nothing
                 /\ o[i].op = "trash" => trash'[pl][o[i].from] # Nothing
      <4>1. Takes(o[i]) => /\ o[i].from \in Paths
                           /\ Makes(a) => a.to # o[i].from
                           /\ Takes(a) => a.from # o[i].from /\ Parent[a.from] # o[i].from
        <5>1. i \in 1..n /\ k \in 1..n /\ i # k
          BY <1>1, <1>d
        <5> QED
          BY <1>2, <1>a, <5>1, ShapeFacts
      <4>2. Takes(o[i]) => tree'[o[i].from] = Nothing
        BY <1>d, <2>1, <3>2, <4>1 DEF Backward
      <4>3. o[i].op = "trash" => trash'[pl][o[i].from] # Nothing
        BY <1>d, <2>1, <3>2, <4>1 DEF Takes
      <4> QED
        BY <4>2, <4>3
    <3> QED
      BY <3>1, <3>3, <3>4
  <2>3. CASE ~Reverses(b)
    <3>1. tree' = tree /\ trash' = trash
      BY <1>0, <2>3 DEF Stay
    <3>2. a.op = "mkdir"
      <4>1. a.op = "move" => IsFile(a.to) /\ tree[a.from] = Nothing
        <5>1. a.op = "move" => tree[a.to] \in Contents
          <6>1. k \in 0..n /\ k <= k
            BY <1>1, <1>2
          <6> HIDE DEF o, d, b
          <6>2. k \in 0..Len(o) /\ k \in 1..Len(o) /\ k <= k
            BY <1>1, <6>1
          <6> QED
            BY <1>2, <2>1, <6>2, AfterFacts
        <5>2. a.op = "move" => tree[a.from] = Nothing /\ a.to \in Paths
          BY <1>1, <2>1, ProposalFacts DEF Takes
        <5> QED
          BY <5>1, <5>2 DEF IsFile
      <4>2. a.op = "trash" => trash[pl][a.from] # Nothing /\ tree[a.from] = Nothing
        BY <1>1, <2>1 DEF Takes
      <4> HIDE DEF a, b
      <4> QED
        BY <1>1, <2>3, <4>1, <4>2, ConverseFacts, ProposalFacts DEF Reverses, Exists
    <3>3. After(Visible(tree), o, d, k - 1)
      <4>1. (k - 1) + 1 = k
        BY <1>1
      <4> QED
        BY <1>1, <2>1, <3>2, <4>1, AfterMkdir
    <3>4. ASSUME NEW p \in Paths, trash[pl][p] # Nothing
          PROVE  \E i \in 1..(k - 1) : o[i] = Trash(p)
      <4>1. PICK i \in 1..k : o[i] = Trash(p)
        BY <2>1, <3>4
      <4>2. i # k
        BY <3>2, <4>1 DEF Trash
      <4> QED
        BY <1>1, <4>1, <4>2
    <3> QED
      BY <1>d, <2>1, <3>1, <3>3, <3>4
  <2> QED
    BY <2>2, <2>3
<1>10. Undisturbed(pl)' => CalmJob(pl, k - 1, n)'
  <2>1. Undisturbed(pl)' => After(Visible(tree)', o', d', k - 1)
    BY <1>7, <1>9, <1>s DEF Undisturbed
  <2> QED
    BY <1>3, <1>7, <1>9, <1>s, <2>1 DEF CalmJob, Undisturbed
<1>11. Jobs'
  BY <1>2, <1>3, <1>7, <1>8, <1>10, JobsNext
<1>12. pl \notin mishap' => Still(pl)'
  BY <1>2, <1>3, <1>s DEF Still
<1> QED
  BY <1>s, <1>11, <1>12 DEF IInv

LEMMA RedoStepKeeps ==
  ASSUME IInv, RedoStep
  PROVE  IInv'
<1> PICK k : k = InEffect(job.plan)
  OBVIOUS
<1> PICK pl : pl = job.plan
  OBVIOUS
<1> DEFINE a == Head(job.todo)
           o == Ops(pl)
           d == plan[pl].digest
           n == Len(o)
<1>0. /\ TypeOK /\ Placed /\ job.mode = "redoing" /\ job.todo # <<>>
      /\ job' = [job EXCEPT !.todo = Tail(@)]
      /\ IF Redoes(a) THEN Do(a) ELSE Stay
  BY DEF IInv, RedoStep, PutBack
<1>1. /\ job # Idle /\ k \in Nat /\ k + 1 \in 1..n /\ a = o[k + 1] /\ a \in Proposals
      /\ Tail(job.todo) \in Seq(Operation) /\ Len(job.todo) = n - k
      /\ Len(Tail(job.todo)) = n - (k + 1)
      /\ \A i \in 1..(Len(job.todo) - 1) : Tail(job.todo)[i] = o[(k + 1) + i]
      /\ a.op = "move" => a.from # a.to
  BY <1>0, NextForward
<1>2. /\ pl \in Plans /\ Shape(o) /\ n \in Nat /\ k \in 0..n
      /\ plan[pl].status = "applied" \/ (plan[pl].status = "undone" /\ pl \in mishap)
      /\ \A i \in (k + 1)..n : Takes(o[i]) => tree[o[i].from] # Dir
      /\ Undisturbed(pl) => Calm(pl) /\ Against(o, d) /\ CalmJob(pl, k, n)
      /\ ~(touched[pl] = "no" /\ pl \notin mishap)
  <2>1. touched[pl] = "no" /\ pl \notin mishap => Still(pl)
    BY <1>1, JobFacts
  <2>2. ~(touched[pl] = "no" /\ pl \notin mishap)
    BY <1>0, <2>1 DEF Still
  <2> QED
    BY <1>0, <1>1, <2>2, JobFacts DEF Running
<1>3. /\ job' \in Job /\ job'.mode = "redoing" /\ job'.plan = pl /\ job'.todo = Tail(job.todo)
  BY <1>0, <1>1, <1>2, TodoFields
<1>b. Redoes(a) => Applies(a) /\ (a.op = "move" => tree[a.to] = Nothing)
  <2>1. Takes(a) /\ Exists(a.from) => IsFile(a.from)
    <3>1. k + 1 \in (k + 1)..n /\ (Takes(a) => a.from \in Paths)
      BY <1>1, <1>2, ProposalFacts DEF Takes
    <3> QED
      BY <1>0, <1>1, <1>2, <3>1, TypeFacts DEF Exists, IsFile
  <2> HIDE DEF a
  <2> QED
    BY <1>1, <2>1, ProposalFacts, ConstantFacts DEF Redoes, Applies, Takes, Exists
<1>s. /\ plan' = plan /\ mishap' = mishap /\ touched'[pl] = touched[pl]
      /\ TypeOK' /\ Placed' /\ NothingLost'
      /\ \A q \in Plans : /\ Keeps(q)' /\ (Undisturbed(q)' => Calm(q)')
                          /\ q # pl /\ touched'[q] = "no" /\ q \notin mishap' => Still(q)'
  <2>1. CASE Redoes(a)
    <3>1. Applies(a) /\ Do(a)
      BY <1>0, <1>b, <2>1
    <3>2. plan' = plan /\ mishap' = mishap
      BY <3>1 DEF Do
    <3> QED
      BY <1>0, <1>3, <3>1, <3>2, ForwardKeeps
  <2>2. CASE ~Redoes(a)
    BY <1>0, <1>3, <2>2, StayKeeps
  <2> QED
    BY <2>1, <2>2
<1>7. o' = o /\ d' = d /\ n' = n /\ InEffect(pl)' = k + 1
  <2>1. o' = o /\ d' = d /\ n' = n /\ InEffect(pl)' = n - Len(job'.todo)
    BY <1>3, <1>s DEF Ops, InEffect
  <2>2. \A m \in Nat : n - (n - (m + 1)) = m + 1
    BY <1>2
  <2> QED
    BY <1>1, <1>3, <2>1, <2>2
<1>f. Redoes(a) =>
        /\ Forward(tree, tree', a)
        /\ \A p \in Paths : trash'[pl][p] =
             IF a.op = "trash" /\ p = a.from THEN tree[p] ELSE trash[pl][p]
        /\ Takes(a) => tree[a.from] \in Contents
        /\ Makes(a) => tree[a.to] # Dir
  BY <1>0, <1>1, <1>2, <1>b, ForwardEffect
<1>g. ~Redoes(a) => tree' = tree /\ trash' = trash
  BY <1>0 DEF Stay
<1>h. Redoes(a) /\ Undisturbed(pl) => After(Visible(tree'), o, d, k + 1)
  BY <1>0, <1>3, <1>b, ForwardKeeps
<1>j. Undisturbed(pl) =>
        /\ Takes(a) => tree[a.from] \in Contents
        /\ a.op = "trash" => trash[pl][a.from] = Nothing
  BY <1>0, ForwardCalm
<1> HIDE DEF a, o, d, n
<1>d. \A i \in ((k + 1) + 1)..n : i \in (k + 1)..n /\ i \in 1..n /\ i # k + 1
  BY <1>1, <1>2
<1>e. ASSUME NEW i \in ((k + 1) + 1)..n
      PROVE  /\ Takes(o[i]) => /\ o[i].from \in Paths
                               /\ Makes(a) => a.to # o[i].from
                               /\ Takes(a) => a.from # o[i].from
             /\ Makes(o[i]) => /\ o[i].to \in Paths
                               /\ Takes(a) => a.from # o[i].to
             /\ o[i].op = "move" /\ a.op = "move" => a.to # o[i].to
  <2>1. i \in 1..Len(o) /\ k + 1 \in 1..Len(o) /\ i # k + 1
    BY <1>1, <1>d DEF n
  <2>2. Makes(o[i]) <=> o[i].op \in {"mkdir", "move"}
    BY DEF Makes
  <2>3. /\ Takes(o[i]) => /\ o[i].from \in Paths
                          /\ Makes(o[k + 1]) => o[k + 1].to # o[i].from
                          /\ Takes(o[k + 1]) => o[k + 1].from # o[i].from
        /\ Makes(o[i]) => o[i].to \in Paths
    BY <1>2, <2>1, ShapeFacts
  <2>4. Makes(o[i]) /\ Takes(o[k + 1]) => o[k + 1].from # o[i].to
    BY <1>2, <2>1, ShapeFacts
  <2>5. Makes(o[i]) /\ o[k + 1].op = o[i].op => o[k + 1].to # o[i].to
    BY <1>2, <2>1, ShapeFacts
  <2> QED
    BY <1>1, <2>2, <2>3, <2>4, <2>5
<1>8. Running(pl, k + 1, n)'
  <2>1. plan'[pl].status = "applied" \/ (plan'[pl].status = "undone" /\ pl \in mishap')
    BY <1>2, <1>s
  <2>2. Len(job'.todo) <= n
    BY <1>1, <1>2, <1>3
  <2>3. Follows(pl, k + 1, n)'
    <3>1. Len(job'.todo) = n - (k + 1) /\ \A i \in 1..(n - (k + 1)) : job'.todo[i] = o[(k + 1) + i]
      <4>1. Len(job.todo) - 1 = n - (k + 1)
        BY <1>1, <1>2
      <4> QED
        BY <1>1, <1>3, <4>1
    <3> QED
      BY <1>3, <1>7, <3>1 DEF Follows, o
  <2>4. ASSUME NEW i \in ((k + 1) + 1)..n, Takes(o[i])
        PROVE  tree'[o[i].from] # Dir
    <3>1. tree[o[i].from] # Dir
      BY <1>2, <1>d, <2>4
    <3> QED
      BY <1>e, <1>f, <1>g, <2>4, <3>1 DEF Forward
  <2> QED
    BY <1>3, <1>7, <2>1, <2>2, <2>3, <2>4 DEF Running, o
<1>9. ASSUME Undisturbed(pl)
      PROVE  /\ After(Visible(tree'), o, d, k + 1)
             /\ \A p \in Paths : trash'[pl][p] # Nothing => \E i \in 1..(k + 1) : o[i] = Trash(p)
             /\ \A i \in ((k + 1) + 1)..n :
                  /\ o[i].op = "move" => tree'[o[i].to] = Nothing
                  /\ Makes(o[i]) => \/ Parent[o[i].to] = Root
                                    \/ Parent[o[i].to] \in Paths /\ tree'[Parent[o[i].to]] = Dir
                                    \/ \E j \in ((k + 1) + 1)..(i - 1) : o[j] = Mkdir(Parent[o[i].to])
  <2>1. /\ After(Visible(tree), o, d, k) /\ Against(o, d)
        /\ \A p \in Paths : trash[pl][p] # Nothing => \E i \in 1..k : o[i] = Trash(p)
        /\ \A i \in (k + 1)..n :
             /\ o[i].op = "move" => tree[o[i].to] = Nothing
             /\ Makes(o[i]) => \/ IsDir(Parent[o[i].to])
                               \/ \E j \in (k + 1)..(i - 1) : o[j] = Mkdir(Parent[o[i].to])
        /\ \A i, j \in 1..n : o[i].op = "mkdir" /\ o[j].op = "move" => o[i].to # o[j].to
    BY <1>0, <1>2, <1>9 DEF CalmJob, Calm, o, d, n
  <2>2. Makes(a) => IsDir(Parent[a.to])
    <3>1. k + 1 \in (k + 1)..n /\ (k + 1)..((k + 1) - 1) = {}
      BY <1>1, <1>2
    <3> QED
      BY <1>1, <2>1, <3>1
  <2>3. ~Redoes(a) => a.op = "mkdir" /\ tree[a.to] = Dir
    <3>1. a.op = "move" => tree[a.to] = Nothing
      <4>1. k + 1 \in (k + 1)..n
        BY <1>1, <1>2
      <4> QED
        BY <1>1, <2>1, <4>1
    <3>2. a.op = "mkdir" => tree[a.to] \notin Contents /\ a.to \in Paths
      <4>1. \A j \in 1..k : j \in 1..n
        BY <1>1, <1>2
      <4>2. a.op = "mkdir" => \A j \in 1..k : o[j].op = "move" => o[j].to # o[k + 1].to
        BY <1>1, <2>1, <4>1
      <4>3. k \in 0..Len(o) /\ k + 1 \in 1..Len(o)
        BY <1>1, <1>2 DEF n
      <4>4. a.op = "mkdir" => tree[o[k + 1].to] \notin Contents
        <5>1. Shape(o) /\ Against(o, d) /\ k \in 0..Len(o) /\ After(Visible(tree), o, d, k)
          BY <1>2, <2>1, <4>3
        <5>2. a.op = "mkdir" => Makes(o[k + 1])
          BY <1>1 DEF Makes
        <5> QED
          BY <4>2, <4>3, <5>1, <5>2, AfterNew
      <4> QED
        BY <1>1, <4>4, ProposalFacts
    <3>3. a.op = "mkdir" => tree[a.to] \in Contents \cup {Dir, Nothing}
      BY <1>0, <3>2, TypeFacts
    <3> QED
      BY <1>1, <1>9, <1>j, <2>2, <3>1, <3>2, <3>3, ProposalFacts, ConstantFacts
      DEF Redoes, Exists, Takes, Makes
  <2>4. After(Visible(tree'), o, d, k + 1)
    <3>1. CASE Redoes(a)
      BY <1>9, <1>h, <3>1
    <3>2. CASE ~Redoes(a)
      BY <1>1, <1>g, <2>1, <2>3, <3>2, AfterMkdir
    <3> QED
      BY <3>1, <3>2
  <2>5. ASSUME NEW p \in Paths, trash'[pl][p] # Nothing
        PROVE  \E i \in 1..(k + 1) : o[i] = Trash(p)
    <3>1. trash[pl][p] # Nothing \/ a = Trash(p)
      BY <1>1, <1>f, <1>g, <2>5, ProposalFacts
    <3> QED
      BY <1>1, <2>1, <3>1
  <2>d. \A p \in Paths : tree[p] = Dir => tree'[p] = Dir
    BY <1>f, <1>g, ConstantFacts DEF Forward, Makes
  <2>m. a.op = "mkdir" => tree'[a.to] = Dir /\ a.to \in Paths
    BY <1>1, <1>f, <1>g, <2>3, ProposalFacts DEF Forward
  <2>6. ASSUME NEW i \in ((k + 1) + 1)..n
        PROVE  /\ o[i].op = "move" => tree'[o[i].to] = Nothing
               /\ Makes(o[i]) => \/ Parent[o[i].to] = Root
                                 \/ Parent[o[i].to] \in Paths /\ tree'[Parent[o[i].to]] = Dir
                                 \/ \E j \in ((k + 1) + 1)..(i - 1) : o[j] = Mkdir(Parent[o[i].to])
    <3>1. o[i].op = "move" => tree'[o[i].to] = Nothing
      <4>1. o[i].op = "move" /\ a.op = "mkdir" => a.to # o[i].to
        BY <1>1, <1>d, <2>1
      <4> QED
        BY <1>d, <1>e, <1>f, <1>g, <2>1, <4>1 DEF Forward, Makes
    <3>2. CASE IsDir(Parent[o[i].to])
      BY <2>d, <3>1, <3>2 DEF IsDir
    <3>3. ASSUME NEW j \in (k + 1)..(i - 1), o[j] = Mkdir(Parent[o[i].to])
          PROVE  \/ Parent[o[i].to] = Root
                 \/ Parent[o[i].to] \in Paths /\ tree'[Parent[o[i].to]] = Dir
                 \/ \E h \in ((k + 1) + 1)..(i - 1) : o[h] = Mkdir(Parent[o[i].to])
      <4>1. CASE j = k + 1
        BY <1>1, <2>m, <3>3, <4>1 DEF Mkdir
      <4>2. CASE j # k + 1
        <5>1. j \in ((k + 1) + 1)..(i - 1)
          BY <1>1, <4>2
        <5> QED
          BY <3>3, <5>1
      <4> QED
        BY <4>1, <4>2
    <3> QED
      BY <1>d, <2>1, <3>1, <3>2, <3>3
  <2> QED
    BY <2>4, <2>5, <2>6
<1>10. Undisturbed(pl)' => CalmJob(pl, k + 1, n)'
  <2>1. Undisturbed(pl)' => After(Visible(tree)', o', d', k + 1)
    BY <1>7, <1>9, <1>s DEF Undisturbed
  <2> QED
    BY <1>3, <1>7, <1>9, <1>s, <2>1 DEF CalmJob, Undisturbed, IsDir, o, d
<1>11. Jobs'
  BY <1>2, <1>3, <1>7, <1>8, <1>10, JobsNext DEF o, n
<1> QED
  BY <1>2, <1>s, <1>11 DEF IInv

LEMMA TurnBackFields ==
  ASSUME TypeOK, job.plan \in Plans, job.mode \in {"applying", "undoing"}, TurnBack
  PROVE  /\ job' \in Job /\ job'.plan = job.plan
         /\ job'.mode = IF job.mode = "applying" THEN "rolling_back" ELSE "redoing"
         /\ Len(job.done) \in Nat /\ Len(job'.todo) = Len(job.done)
         /\ \A i \in 1..Len(job.done) : job'.todo[i] = job.done[Len(job.done) + 1 - i]
<1>1. job \in Job /\ job.done \in Seq(Operation)
  BY TypeFacts DEF TypeOK
<1>2. /\ Reverse(job.done) \in Seq(Operation) /\ Len(Reverse(job.done)) = Len(job.done)
      /\ \A i \in 1..Len(job.done) : Reverse(job.done)[i] = job.done[Len(job.done) + 1 - i]
  BY <1>1, ReverseFacts
<1>3. job' = [job EXCEPT !.mode = Back[@], !.done = <<>>, !.todo = Reverse(job.done)]
  BY DEF TurnBack
<1>4. Back[job.mode] = IF job.mode = "applying" THEN "rolling_back" ELSE "redoing"
  BY DEF Back
<1>5. job' \in Job /\ job'.plan = job.plan /\ job'.mode = Back[job.mode]
      /\ job'.todo = Reverse(job.done)
  <2> DEFINE r == Reverse(job.done)
             m == Back[job.mode]
  <2>1. r \in Seq(Operation) /\ <<>> \in Seq(Operation) /\ m \in {"rolling_back", "redoing"}
    BY <1>2, <1>4
  <2>2. job' = [job EXCEPT !.mode = m, !.done = <<>>, !.todo = r]
    BY <1>3
  <2> HIDE DEF r, m
  <2>3. job' \in Job /\ job'.plan = job.plan /\ job'.mode = m /\ job'.todo = r
    BY <1>1, <2>1, <2>2 DEF Job
  <2> QED
    BY <2>3 DEF r, m
<1> QED
  BY <1>1, <1>2, <1>4, <1>5

LEMMA TurnedBack ==
  ASSUME IInv, job.mode \in {"applying", "undoing"}, TurnBack,
         tree' = tree, trash' = trash, touched' = touched,
         Ops(job.plan)' = Ops(job.plan), plan'[job.plan].digest = plan[job.plan].digest,
         job.mode = "applying" =>
           \/ plan'[job.plan].status = "planned"
           \/ plan'[job.plan].status = "applied" /\ job.plan \in mishap',
         job.mode = "undoing" =>
           \/ plan'[job.plan].status = "applied"
           \/ plan'[job.plan].status = "undone" /\ job.plan \in mishap'
  PROVE  Jobs'
<1> PICK k : k = InEffect(job.plan)
  OBVIOUS
<1> PICK pl : pl = job.plan
  OBVIOUS
<1> DEFINE o == Ops(pl)
           d == plan[pl].digest
           n == Len(o)
<1>0. TypeOK /\ job # Idle
  BY DEF IInv, Idle
<1>1. /\ pl \in Plans /\ n \in Nat /\ k \in 0..n
      /\ job.mode = "applying" =>
           Len(job.done) = k /\ \A i \in 1..k : job.done[i] = Converse(o[i])
      /\ job.mode = "undoing" =>
           /\ Len(job.done) = n - k /\ \A i \in 1..(n - k) : job.done[i] = o[n + 1 - i]
           /\ \A i \in (k + 1)..n : Takes(o[i]) => tree[o[i].from] # Dir
      /\ Undisturbed(pl) => CalmJob(pl, k, n)
  BY <1>0, JobFacts DEF Running, Follows
<1>2. /\ job' \in Job /\ job'.plan = pl
      /\ job'.mode = IF job.mode = "applying" THEN "rolling_back" ELSE "redoing"
      /\ Len(job'.todo) = Len(job.done)
      /\ \A i \in 1..Len(job.done) : job'.todo[i] = job.done[Len(job.done) + 1 - i]
  BY <1>0, <1>1, TurnBackFields
<1>o. Ops(pl)' = o
  <2>1. Ops(pl)' = Ops(job.plan)'
    BY <1>2 DEF Ops
  <2> QED
    BY <2>1
<1> HIDE DEF o, d, n
<1>3. o' = o /\ d' = d /\ n' = n
  BY <1>o DEF o, d, n
<1>4. CASE job.mode = "applying"
  <2>1. /\ Len(job'.todo) = k /\ job'.mode = "rolling_back"
        /\ \A i \in 1..k : job'.todo[i] = Converse(o[k + 1 - i])
    <3>1. \A i \in 1..k : k + 1 - i \in 1..k
      BY <1>1
    <3>2. Len(job.done) = k /\ \A i \in 1..k : job.done[i] = Converse(o[i])
      BY <1>1, <1>4
    <3>3. \A i \in 1..k : job'.todo[i] = job.done[k + 1 - i]
      BY <1>2, <3>2
    <3>4. ASSUME NEW i \in 1..k
          PROVE  job'.todo[i] = Converse(o[k + 1 - i])
      BY <3>1, <3>2, <3>3
    <3> QED
      BY <1>2, <1>4, <3>2, <3>4
  <2>2. InEffect(pl)' = k
    BY <1>2, <2>1 DEF InEffect
  <2>3. Follows(pl, k, n)'
    BY <1>3, <2>1 DEF Follows, o
  <2>4. plan'[pl].status = "planned" \/ (plan'[pl].status = "applied" /\ pl \in mishap')
    BY <1>4
  <2>5. Len(job'.todo) <= n
    BY <1>1, <2>1
  <2>6. Running(pl, k, n)'
    BY <1>3, <2>1, <2>3, <2>4, <2>5 DEF Running
  <2>7. Undisturbed(pl)' => CalmJob(pl, k, n)'
    <3>1. ASSUME Undisturbed(pl)'
          PROVE  CalmJob(pl, k, n)
      BY <1>1, <3>1 DEF Undisturbed
    <3>2. Undisturbed(pl)' => After(Visible(tree)', o', d', k)
      BY <1>3, <3>1 DEF CalmJob, o, d
    <3> QED
      BY <1>3, <1>4, <2>1, <3>1, <3>2 DEF CalmJob, o, d
  <2> QED
    BY <1>1, <1>2, <1>3, <2>1, <2>2, <2>6, <2>7, JobsNext DEF o, n
<1>5. CASE job.mode = "undoing"
  <2>1. /\ Len(job'.todo) = n - k /\ job'.mode = "redoing"
        /\ \A i \in 1..(n - k) : job'.todo[i] = o[k + i]
    <3>1. \A i \in 1..(n - k) : (n - k) + 1 - i \in 1..(n - k)
                                /\ n + 1 - ((n - k) + 1 - i) = k + i
      BY <1>1
    <3>2. Len(job.done) = n - k /\ \A i \in 1..(n - k) : job.done[i] = o[n + 1 - i]
      BY <1>1, <1>5
    <3>3. \A i \in 1..(n - k) : job'.todo[i] = job.done[(n - k) + 1 - i]
      BY <1>2, <3>2
    <3>4. ASSUME NEW i \in 1..(n - k)
          PROVE  job'.todo[i] = o[k + i]
      BY <3>1, <3>2, <3>3
    <3> QED
      BY <1>2, <1>5, <3>2, <3>4
  <2>2. InEffect(pl)' = k
    <3>1. InEffect(pl)' = n - Len(job'.todo)
      BY <1>2, <1>3, <2>1 DEF InEffect, n, o
    <3> QED
      BY <1>1, <2>1, <3>1
  <2>3. Follows(pl, k, n)'
    BY <1>3, <2>1 DEF Follows, o
  <2>4. plan'[pl].status = "applied" \/ (plan'[pl].status = "undone" /\ pl \in mishap')
    BY <1>5
  <2>5. Len(job'.todo) <= n
    BY <1>1, <2>1
  <2>6. Running(pl, k, n)'
    BY <1>1, <1>3, <1>5, <2>1, <2>3, <2>4, <2>5 DEF Running, o
  <2>7. Undisturbed(pl)' => CalmJob(pl, k, n)'
    <3>1. ASSUME Undisturbed(pl)'
          PROVE  CalmJob(pl, k, n)
      BY <1>1, <3>1 DEF Undisturbed
    <3>2. Undisturbed(pl)' => After(Visible(tree)', o', d', k)
      BY <1>3, <3>1 DEF CalmJob, o, d
    <3> QED
      BY <1>3, <1>5, <2>1, <3>1, <3>2 DEF CalmJob, o, d, IsDir
  <2> QED
    BY <1>1, <1>2, <1>3, <2>1, <2>2, <2>6, <2>7, JobsNext DEF o, n
<1> QED
  BY <1>4, <1>5

(* A step of apply() raises.                                                  *)
LEMMA ApplyRaisesKeeps ==
  ASSUME IInv, ApplyRaises
  PROVE  IInv'
<1>1. TypeOK /\ job.mode = "applying" /\ TurnBack /\ Stay /\ job # Idle
  BY DEF IInv, ApplyRaises, Idle
<1>2. job.plan \in Plans /\ plan[job.plan].status = "planned"
  BY <1>1, JobFacts DEF Running
<1>3. job' \in Job /\ job'.plan = job.plan /\ job'.mode = "rolling_back"
  BY <1>1, <1>2, TurnBackFields
<1>4. /\ TypeOK' /\ Placed' /\ NothingLost' /\ mishap' = mishap /\ touched' = touched
      /\ plan' = plan /\ tree' = tree /\ trash' = trash
      /\ \A pl \in Plans :
           /\ Keeps(pl)' /\ (Undisturbed(pl)' => Calm(pl)')
           /\ touched[pl] = "no" /\ pl \notin mishap /\ job.plan # pl => Still(pl)'
  BY <1>1, <1>3, StayKeeps
<1>5. Ops(job.plan)' = Ops(job.plan)
  BY <1>3, <1>4 DEF Ops
<1>6. Jobs'
  BY <1>1, <1>2, <1>4, <1>5, TurnedBack
<1>7. Still(job.plan)'
  BY <1>2, <1>3, <1>4 DEF Still
<1>8. ASSUME NEW pl \in Plans, touched'[pl] = "no", pl \notin mishap'
      PROVE  Still(pl)'
  <2>1. CASE pl = job.plan
    BY <1>2, <1>3, <1>4, <2>1 DEF Still
  <2>2. CASE pl # job.plan
    BY <1>4, <1>8, <2>2
  <2> QED
    BY <2>1, <2>2
<1> QED
  BY <1>4, <1>6, <1>8 DEF IInv

(* An undo() that nobody disturbed, not even where the digest does not look,  *)
(* can do every step.                                                         *)
LEMMA UndoCan ==
  ASSUME IInv, job.mode = "undoing", job.todo # <<>>,
         touched[job.plan] = "no", job.plan \notin mishap
  PROVE  Undoes(Head(job.todo))
<1> PICK k : k = InEffect(job.plan)
  OBVIOUS
<1> PICK pl : pl = job.plan
  OBVIOUS
<1> DEFINE o == Ops(pl)
           a == o[k]
           d == plan[pl].digest
           n == Len(o)
<1>0. TypeOK
  BY DEF IInv
<1>1. /\ job # Idle /\ k \in Nat /\ k \in 1..n /\ Head(job.todo) = Converse(a) /\ a \in Proposals
  BY NextBackward
<1>2. /\ pl \in Plans /\ Shape(o) /\ n \in Nat /\ Against(o, d) /\ CalmJob(pl, k, n) /\ Still(pl)
      /\ plan[pl].status = "applied"
  BY <1>1, JobFacts DEF Running, Undisturbed
<1>3. After(Visible(tree), o, d, k) /\ Exact(pl, k)
  BY <1>2 DEF CalmJob, Still
<1>4. /\ a.op = "mkdir" =>
           /\ tree[a.to] = Dir /\ a.to \notin litter
           /\ \A p \in Paths : Parent[p] = a.to /\ tree[p] # Nothing =>
                \E j \in 1..k : Makes(o[j]) /\ o[j].to = p
      /\ Takes(a) => tree[a.from] = Nothing
      /\ a.op = "trash" => trash[pl][a.from] # Nothing
  BY <1>1, <1>3 DEF Exact
<1>5. a.op = "mkdir" => IsEmpty(a.to)
  <2>1. ASSUME a.op = "mkdir", NEW p \in Paths, Parent[p] = a.to, tree[p] # Nothing
        PROVE  FALSE
    <3>1. PICK j \in 1..k : Makes(o[j]) /\ o[j].to = p
      BY <1>4, <2>1
    <3>2. j \in 1..n /\ ~(k < j)
      BY <1>1, <1>2
    <3> QED
      BY <1>1, <1>2, <2>1, <3>1, <3>2 DEF Shape
  <2> QED
    BY <1>4, <2>1 DEF IsEmpty, Exists
<1> HIDE DEF o, d, n
<1>6. k \in 0..Len(o) /\ k \in 1..Len(o) /\ k <= k
  BY <1>1, <1>2 DEF n
<1>7. /\ a.op = "move" => tree[a.to] \in Contents
      /\ Takes(a) /\ Parent[a.from] \in Paths => tree[Parent[a.from]] \notin Contents
  BY <1>2, <1>3, <1>6, AfterFacts
<1> HIDE DEF a
<1>8. Reverses(Converse(a))
  BY <1>1, <1>4, <1>5, <1>7, ConverseFacts, ProposalFacts
  DEF Reverses, IsDir, IsFile, Exists, Takes
<1>9. ~ParentIsFile(Converse(a))
  BY <1>1, <1>7, ConverseFacts, ProposalFacts, ConstantFacts DEF ParentIsFile, IsFile, Takes
<1> QED
  BY <1>1, <1>8, <1>9 DEF Undoes

LEMMA UndoRaisesKeeps ==
  ASSUME IInv, UndoRaises
  PROVE  IInv'
<1>1. TypeOK /\ job.mode = "undoing" /\ TurnBack /\ Stay /\ job # Idle
  BY DEF IInv, UndoRaises, Idle
<1>2. job.plan \in Plans /\ plan[job.plan].status = "applied"
  BY <1>1, JobFacts DEF Running
<1>3. job' \in Job /\ job'.plan = job.plan /\ job'.mode = "redoing"
  BY <1>1, <1>2, TurnBackFields
<1>4. /\ TypeOK' /\ Placed' /\ NothingLost' /\ mishap' = mishap /\ touched' = touched
      /\ plan' = plan /\ tree' = tree /\ trash' = trash
      /\ \A pl \in Plans :
           /\ Keeps(pl)' /\ (Undisturbed(pl)' => Calm(pl)')
           /\ touched[pl] = "no" /\ pl \notin mishap /\ job.plan # pl => Still(pl)'
  BY <1>1, <1>3, StayKeeps
<1>5. Ops(job.plan)' = Ops(job.plan)
  BY <1>3, <1>4 DEF Ops
<1>6. Jobs'
  BY <1>1, <1>2, <1>4, <1>5, TurnedBack
<1>7. ~(touched[job.plan] = "no" /\ job.plan \notin mishap)
  BY UndoCan DEF UndoRaises
<1>8. ASSUME NEW pl \in Plans, touched'[pl] = "no", pl \notin mishap'
      PROVE  Still(pl)'
  BY <1>4, <1>7, <1>8
<1> QED
  BY <1>4, <1>6, <1>8 DEF IInv

(* Plans that are not carried out, while no file moves.                       *)
LEMMA OthersStay ==
  ASSUME IInv, NEW pl \in Plans, job.plan # pl, job'.plan # pl, plan'[pl] = plan[pl],
         tree' = tree, litter' = litter, trash' = trash, draft' = draft, victim' = victim,
         touched' = touched, mishap \subseteq mishap'
  PROVE  /\ Keeps(pl)' /\ (Undisturbed(pl)' => Calm(pl)')
         /\ touched'[pl] = "no" /\ pl \notin mishap' => Still(pl)'
<1>1. /\ Keeps(pl) /\ (Undisturbed(pl) => Calm(pl))
      /\ touched[pl] = "no" /\ pl \notin mishap => Still(pl)
  BY DEF IInv
<1>2. Keeps(pl)'
  BY <1>1 DEF Keeps, Ops
<1>3. Undisturbed(pl)' => Calm(pl)'
  BY <1>1 DEF Calm, Ops, Undisturbed
<1>4. touched'[pl] = "no" /\ pl \notin mishap' => Still(pl)'
  BY <1>1 DEF Still, Exact, InEffect, Ops
<1> QED
  BY <1>2, <1>3, <1>4

(* What the UPDATE at the end of apply() and undo() leaves behind.            *)
LEMMA RecordedKeeps ==
  ASSUME IInv, job.mode \in {"applying", "undoing"}, job.todo = <<>>, Recorded,
         tree' = tree, trash' = trash, draft' = draft, victim' = victim, touched' = touched
  PROVE  /\ job.plan \in Plans /\ plan' \in [Plans -> Row]
         /\ \A q \in Plans : q # job.plan => plan'[q] = plan[q]
         /\ plan'[job.plan].ops = plan[job.plan].ops
         /\ plan'[job.plan].digest = plan[job.plan].digest
         /\ plan'[job.plan].status = IF job.mode = "applying" THEN "applied" ELSE "undone"
         /\ \A q \in Plans : q = job.plan => Keeps(q)' /\ (Undisturbed(q)' => Calm(q)')
         /\ InEffect(job.plan) = IF job.mode = "applying" THEN Len(Ops(job.plan)) ELSE 0
<1> PICK k : k = InEffect(job.plan)
  OBVIOUS
<1> PICK pl : pl = job.plan
  OBVIOUS
<1> DEFINE o == Ops(pl)
           d == plan[pl].digest
           n == Len(o)
<1>0. TypeOK /\ job # Idle
  BY DEF IInv, Idle
<1>1. /\ pl \in Plans /\ n \in Nat /\ k \in 0..n /\ Shape(o) /\ Digest(d)
      /\ Keeps(pl) /\ draft[pl] = <<>>
      /\ k = IF job.mode = "applying" THEN n - Len(job.todo) ELSE Len(job.todo)
      /\ job.mode = "applying" =>
           Len(job.done) = k /\ \A i \in 1..k : job.done[i] = Converse(o[i])
      /\ job.mode = "undoing" => plan[pl].status = "applied"
      /\ Undisturbed(pl) => Calm(pl) /\ Against(o, d) /\ CalmJob(pl, k, n)
  BY <1>0, JobFacts DEF Running, Follows
<1>2. k = IF job.mode = "applying" THEN n ELSE 0
  <2>1. Len(job.todo) = 0
    OBVIOUS
  <2> QED
    BY <1>1, <2>1
<1>3. /\ plan \in [Plans -> Row] /\ job.done \in Seq(Operation)
      /\ Visible(tree) \subseteq Paths \X Contents
  BY <1>0, TypeFacts, VisibleDigest DEF TypeOK, Digest
<1>4. /\ plan' \in [Plans -> Row] /\ \A q \in Plans : q # pl => plan'[q] = plan[q]
      /\ plan'[pl].ops = plan[pl].ops /\ plan'[pl].digest = plan[pl].digest
      /\ job.mode = "applying" => /\ plan'[pl].status = "applied" /\ plan'[pl].undo = job.done
                                  /\ plan'[pl].post = Visible(tree)
      /\ job.mode = "undoing" => /\ plan'[pl].status = "undone" /\ plan'[pl].undo = plan[pl].undo
                                 /\ plan'[pl].post = plan[pl].post
  <2> DEFINE v == Visible(tree)
  <2>1. plan' = [plan EXCEPT ![pl] =
                   IF job.mode = "applying"
                   THEN [@ EXCEPT !.status = "applied", !.undo = job.done, !.post = v]
                   ELSE [@ EXCEPT !.status = "undone"]]
    BY DEF Recorded
  <2>2. v \in SUBSET (Paths \X Contents)
    BY <1>3
  <2> HIDE DEF v
  <2>3. plan[pl] \in Row
    BY <1>1, <1>3
  <2>4. CASE job.mode = "applying"
    <3> DEFINE r == [plan[pl] EXCEPT !.status = "applied", !.undo = job.done, !.post = v]
    <3>1. /\ r \in Row /\ r.ops = plan[pl].ops /\ r.digest = plan[pl].digest
          /\ r.status = "applied" /\ r.undo = job.done /\ r.post = v
      BY <1>3, <2>2, <2>3 DEF Row
    <3>2. plan' = [plan EXCEPT ![pl] = r]
      BY <2>1, <2>4
    <3> HIDE DEF r
    <3> QED
      BY <1>1, <1>3, <2>4, <3>1, <3>2 DEF v
  <2>5. CASE job.mode = "undoing"
    <3> DEFINE r == [plan[pl] EXCEPT !.status = "undone"]
    <3>1. /\ r \in Row /\ r.ops = plan[pl].ops /\ r.digest = plan[pl].digest
          /\ r.status = "undone" /\ r.undo = plan[pl].undo /\ r.post = plan[pl].post
      BY <2>3 DEF Row
    <3>2. plan' = [plan EXCEPT ![pl] = r]
      BY <2>1, <2>5
    <3> HIDE DEF r
    <3> QED
      BY <1>1, <1>3, <2>5, <3>1, <3>2
  <2> QED
    BY <2>4, <2>5
<1> HIDE DEF o, d, n
<1>5. Ops(pl)' = o
  BY <1>4 DEF Ops, o
<1>6. plan'[pl].status = IF job.mode = "applying" THEN "applied" ELSE "undone"
  BY <1>4
<1>7. /\ Len(plan'[pl].undo) = n
      /\ \A i \in 1..n : plan'[pl].undo[i] = Converse(o[i])
  <2>1. CASE job.mode = "applying"
    BY <1>1, <1>2, <1>4, <2>1
  <2>2. CASE job.mode = "undoing"
    BY <1>1, <1>4, <2>2 DEF Keeps, o, n
  <2> QED
    BY <2>1, <2>2
<1>8. Keeps(pl)'
  <2>1. /\ \A p \in Paths : trash[pl][p] # Nothing => \E i \in 1..n : o[i] = Trash(p)
    BY <1>1 DEF Keeps, o, n
  <2> QED
    BY <1>1, <1>4, <1>5, <1>6, <1>7, <2>1 DEF Keeps, d, n
<1>9. ASSUME Undisturbed(pl)'
      PROVE  Calm(pl)'
  <2>1. /\ Calm(pl) /\ Against(o, d) /\ CalmJob(pl, k, n)
    BY <1>1, <1>9 DEF Undisturbed
  <2>2. \A p \in Paths : trash[pl][p] # Nothing => <<p, trash[pl][p]>> \in d
    BY <2>1 DEF Calm, d
  <2>3. /\ plan'[pl].post \subseteq Paths \X Contents
        /\ After(plan'[pl].post, o, d, n)
        /\ \A i, j \in 1..n : o[i].op = "mkdir" /\ o[j].op = "move" => o[i].to # o[j].to
    <3>1. CASE job.mode = "applying"
      <4>1. After(Visible(tree), o, d, n)
        BY <1>2, <2>1, <3>1 DEF CalmJob, o, d
      <4>2. \A i \in 1..n : o[i].op = "mkdir" => tree[o[i].to] = Dir
        BY <1>2, <2>1, <3>1 DEF CalmJob, o
      <4>3. \A j \in 1..n : o[j].op = "move" => tree[o[j].to] \in Contents
        <5>1. n \in 0..Len(o) /\ \A j \in 1..Len(o) : j <= n
          BY <1>1 DEF n
        <5>2. n = Len(o)
          BY DEF n
        <5> QED
          BY <1>1, <2>1, <4>1, <5>1, <5>2, AfterFacts
      <4> QED
        BY <1>3, <1>4, <3>1, <4>1, <4>2, <4>3, ConstantFacts
    <3>2. CASE job.mode = "undoing"
      BY <1>1, <1>4, <2>1, <3>2 DEF Calm, o, d, n
    <3> QED
      BY <3>1, <3>2
  <2>4. job.mode = "undoing" => \A p \in Paths : trash[pl][p] = Nothing
    <3>1. 1..0 = {}
      OBVIOUS
    <3> QED
      BY <1>2, <2>1, <3>1 DEF CalmJob
  <2>5. After(plan'[pl].post, Ops(pl)', plan'[pl].digest, Len(Ops(pl)'))
    BY <1>4, <1>5, <2>3 DEF d, n
  <2>6. Against(Ops(pl)', plan'[pl].digest)
    BY <1>4, <1>5, <2>1 DEF d
  <2> QED
    BY <1>1, <1>4, <1>5, <1>6, <2>2, <2>3, <2>4, <2>5, <2>6 DEF Calm, d, n
<1> QED
  BY <1>1, <1>2, <1>4, <1>6, <1>8, <1>9 DEF o, n

LEMMA IdleJob == Idle \in Job /\ Idle.plan = None /\ Idle.mode = "idle" /\ None \notin Plans
BY ConstantFacts DEF Idle, Job

LEMMA FinishKeeps ==
  ASSUME IInv, Finish
  PROVE  IInv'
<1> PICK pl : pl = job.plan
  OBVIOUS
<1>1. /\ job.mode \in {"applying", "undoing"} /\ job.todo = <<>> /\ Recorded /\ job' = Idle
      /\ tree' = tree /\ litter' = litter /\ trash' = trash /\ draft' = draft
      /\ touched' = touched /\ unused' = unused /\ gone' = gone /\ victim' = victim
      /\ mishap' = mishap /\ users' = users /\ crashes' = crashes
  BY DEF Finish, history
<1>2. /\ pl \in Plans /\ plan' \in [Plans -> Row]
      /\ \A q \in Plans : q # pl => plan'[q] = plan[q]
      /\ plan'[pl].ops = plan[pl].ops
      /\ plan'[pl].status = IF job.mode = "applying" THEN "applied" ELSE "undone"
      /\ Keeps(pl)' /\ (Undisturbed(pl)' => Calm(pl)')
      /\ InEffect(pl) = IF job.mode = "applying" THEN Len(Ops(pl)) ELSE 0
  BY <1>1, RecordedKeeps
<1>3. job'.plan = None /\ job' \in Job /\ None \notin Plans
  BY <1>1, IdleJob
<1>4. TypeOK /\ Placed /\ NothingLost
  BY DEF IInv
<1>5. TypeOK' /\ Placed' /\ NothingLost'
  BY <1>1, <1>2, <1>3, <1>4 DEF TypeOK, Placed, NothingLost, Undisturbed
<1>6. ASSUME touched'[pl] = "no", pl \notin mishap'
      PROVE  Still(pl)'
  <2>1. CASE job.mode = "applying"
    <3>1. Still(pl)
      BY <1>1, <1>2, <1>6 DEF IInv
    <3>2. Exact(pl, Len(Ops(pl)))
      BY <1>2, <2>1, <3>1 DEF Still
    <3>3. Ops(pl)' = Ops(pl) /\ InEffect(pl)' = Len(Ops(pl))
      BY <1>2, <1>3 DEF Ops, InEffect
    <3>4. Exact(pl, Len(Ops(pl)))'
      BY <1>1, <3>2, <3>3 DEF Exact
    <3>5. Exact(pl, InEffect(pl))'
      BY <3>3, <3>4 DEF Exact
    <3> QED
      BY <1>2, <1>3, <3>5 DEF Still
  <2>2. CASE job.mode = "undoing"
    BY <1>2, <1>3, <2>2 DEF Still
  <2> QED
    BY <1>1, <2>1, <2>2
<1>7. ASSUME NEW q \in Plans
      PROVE  /\ Keeps(q)' /\ (Undisturbed(q)' => Calm(q)')
             /\ touched'[q] = "no" /\ q \notin mishap' => Still(q)'
  <2>1. CASE q = pl
    BY <1>2, <1>6, <2>1
  <2>2. CASE q # pl
    <3>1. job.plan # q /\ job'.plan # q
      BY <1>3, <2>2
    <3> QED
      BY <1>1, <1>2, <2>2, <3>1, OthersStay
  <2> QED
    BY <2>1, <2>2
<1>8. Jobs'
  BY <1>1 DEF Jobs
<1> QED
  BY <1>5, <1>7, <1>8 DEF IInv

(* The UPDATE raises.                                                         *)
LEMMA AnswerLostKeeps ==
  ASSUME IInv, AnswerLost
  PROVE  IInv'
<1> PICK pl : pl = job.plan
  OBVIOUS
<1>1. /\ job.mode \in {"applying", "undoing"} /\ job.todo = <<>>
      /\ Recorded \/ plan' = plan
      /\ TurnBack /\ mishap' = mishap \cup {pl}
      /\ tree' = tree /\ litter' = litter /\ trash' = trash /\ draft' = draft
      /\ touched' = touched /\ unused' = unused /\ gone' = gone /\ victim' = victim
      /\ users' = users /\ crashes' = crashes
  BY DEF AnswerLost
<1>2. TypeOK /\ Placed /\ NothingLost /\ job # Idle /\ plan \in [Plans -> Row]
  BY <1>1 DEF IInv, Idle, TypeOK
<1>3. /\ pl \in Plans
      /\ plan[pl].status = IF job.mode = "applying" THEN "planned" ELSE "applied"
      /\ Keeps(pl) /\ (Undisturbed(pl) => Calm(pl))
  BY <1>1, <1>2, JobFacts DEF Running
<1>4. /\ job' \in Job /\ job'.plan = pl
      /\ job'.mode = IF job.mode = "applying" THEN "rolling_back" ELSE "redoing"
  BY <1>1, <1>2, <1>3, TurnBackFields
<1>5. /\ plan' \in [Plans -> Row] /\ \A q \in Plans : q # pl => plan'[q] = plan[q]
      /\ plan'[pl].ops = plan[pl].ops /\ plan'[pl].digest = plan[pl].digest
      /\ \/ plan'[pl].status = IF job.mode = "applying" THEN "applied" ELSE "undone"
         \/ plan'[pl].status = IF job.mode = "applying" THEN "planned" ELSE "applied"
      /\ Keeps(pl)' /\ (Undisturbed(pl)' => Calm(pl)')
  <2>1. CASE Recorded
    BY <1>1, <1>4, <2>1, RecordedKeeps
  <2>2. CASE plan' = plan
    <3>1. Keeps(pl)'
      BY <1>1, <1>3, <2>2 DEF Keeps, Ops
    <3>2. Undisturbed(pl)' => Calm(pl)'
      BY <1>1, <1>3, <1>4, <2>2 DEF Calm, Ops, Undisturbed
    <3> QED
      BY <1>2, <1>3, <2>2, <3>1, <3>2
  <2> QED
    BY <1>1, <2>1, <2>2
<1>6. TypeOK' /\ Placed' /\ NothingLost'
  BY <1>1, <1>2, <1>3, <1>4, <1>5 DEF TypeOK, Placed, NothingLost, Undisturbed
<1>7. ASSUME NEW q \in Plans
      PROVE  /\ Keeps(q)' /\ (Undisturbed(q)' => Calm(q)')
             /\ touched'[q] = "no" /\ q \notin mishap' => Still(q)'
  <2>1. CASE q = pl
    BY <1>1, <1>5, <2>1
  <2>2. CASE q # pl
    <3>1. job.plan # q /\ job'.plan # q
      BY <1>4, <2>2
    <3> QED
      BY <1>1, <1>5, <2>2, <3>1, OthersStay
  <2> QED
    BY <2>1, <2>2
<1>8. Ops(job.plan)' = Ops(job.plan)
  BY <1>4, <1>5 DEF Ops
<1>9. Jobs'
  BY <1>1, <1>4, <1>5, <1>8, TurnedBack
<1> QED
  BY <1>6, <1>7, <1>9 DEF IInv

(* The job ends without the UPDATE: all is put back, or a rollback raised.    *)
LEMMA EndsKeeps ==
  ASSUME IInv, Stay, job' = Idle, job.mode \in {"rolling_back", "redoing"},
         job.mode = "redoing" => job.todo = <<>>,
         Undisturbed(job.plan) => job.todo = <<>>
  PROVE  IInv'
<1> PICK k : k = InEffect(job.plan)
  OBVIOUS
<1> PICK pl : pl = job.plan
  OBVIOUS
<1>1. job'.plan = None /\ job' \in Job /\ None \notin Plans
  BY IdleJob
<1>2. /\ TypeOK' /\ Placed' /\ NothingLost' /\ mishap' = mishap /\ touched' = touched
      /\ plan' = plan /\ tree' = tree /\ trash' = trash
      /\ \A q \in Plans :
           /\ Keeps(q)' /\ (Undisturbed(q)' /\ pl # q => Calm(q)')
           /\ touched[q] = "no" /\ q \notin mishap /\ pl # q => Still(q)'
  <2>1. \A q \in Plans : job'.plan # q
    BY <1>1
  <2> QED
    BY <1>1, <2>1, StayKeeps
<1>3. job # Idle
  BY DEF Idle
<1>4. /\ pl \in Plans
      /\ job.mode = "rolling_back" =>
           plan[pl].status = "planned" \/ (plan[pl].status = "applied" /\ pl \in mishap)
      /\ job.mode = "redoing" =>
           plan[pl].status = "applied" \/ (plan[pl].status = "undone" /\ pl \in mishap)
      /\ Undisturbed(pl) => Calm(pl) /\ CalmJob(pl, k, Len(Ops(pl)))
      /\ touched[pl] = "no" /\ pl \notin mishap => Still(pl)
      /\ job.mode = "rolling_back" => k = Len(job.todo)
      /\ draft[pl] = <<>>
  BY <1>3, JobFacts DEF Running
<1>5. ASSUME Undisturbed(pl)'
      PROVE  Calm(pl)'
  <2>1. Calm(pl) /\ CalmJob(pl, k, Len(Ops(pl))) /\ job.todo = <<>>
    BY <1>2, <1>4, <1>5 DEF Undisturbed
  <2>2. job.mode = "rolling_back" => \A p \in Paths : trash[pl][p] = Nothing
    <3>1. job.mode = "rolling_back" => k = 0
      BY <1>4, <2>1
    <3>2. 1..0 = {}
      OBVIOUS
    <3> QED
      BY <2>1, <3>1, <3>2 DEF CalmJob
  <2>3. draft' = draft
    BY DEF Stay
  <2> QED
    BY <1>2, <1>4, <2>1, <2>2, <2>3 DEF Calm, Ops
<1>6. ASSUME touched'[pl] = "no", pl \notin mishap'
      PROVE  Still(pl)'
  <2>1. job.mode # "redoing"
    BY <1>2, <1>4, <1>6 DEF Still
  <2>2. plan'[pl].status = "planned" /\ job'.plan # pl
    BY <1>1, <1>2, <1>4, <1>6, <2>1
  <2> QED
    BY <2>2 DEF Still
<1>7. ASSUME NEW q \in Plans
      PROVE  /\ Keeps(q)' /\ (Undisturbed(q)' => Calm(q)')
             /\ touched'[q] = "no" /\ q \notin mishap' => Still(q)'
  <2>1. CASE q = pl
    BY <1>2, <1>5, <1>6, <2>1
  <2>2. CASE q # pl
    BY <1>2, <2>2
  <2> QED
    BY <2>1, <2>2
<1>8. Jobs'
  BY DEF Jobs
<1> QED
  BY <1>2, <1>7, <1>8 DEF IInv

LEMMA GiveUpKeeps ==
  ASSUME IInv, GiveUp
  PROVE  IInv'
BY EndsKeeps DEF GiveUp

LEMMA RollBackRaisesKeeps ==
  ASSUME IInv, RollBackRaises
  PROVE  IInv'
<1> PICK k : k = InEffect(job.plan)
  OBVIOUS
<1> PICK pl : pl = job.plan
  OBVIOUS
<1> DEFINE o == Ops(pl)
           a == o[k]
           d == plan[pl].digest
<1>1. /\ job.mode = "rolling_back" /\ job.todo # <<>> /\ job' = Idle /\ Stay
      /\ ParentIsFile(Head(job.todo))
  BY DEF RollBackRaises
<1>2. /\ job # Idle /\ k \in 1..Len(o) /\ a \in Proposals /\ Head(job.todo) = Converse(a)
  BY <1>1, NextBackward
<1>3. /\ pl \in Plans /\ Shape(o) /\ k \in 0..Len(o)
      /\ Undisturbed(pl) => Against(o, d) /\ CalmJob(pl, k, Len(o))
  BY <1>2, JobFacts
<1>4. ~Undisturbed(pl)
  <2>1. SUFFICES ASSUME Undisturbed(pl)
                 PROVE  FALSE
    OBVIOUS
  <2>2. Against(o, d) /\ After(Visible(tree), o, d, k)
    BY <1>3, <2>1 DEF CalmJob
  <2>3. /\ a.from # None /\ IsFile(Parent[a.from]) /\ Converse(a).to = a.from
    BY <1>1, <1>2, ConverseFacts DEF ParentIsFile
  <2>4. Takes(a)
    BY <1>2, <2>3, ProposalFacts DEF Takes
  <2> HIDE DEF o, d
  <2>5. Takes(a) /\ Parent[a.from] \in Paths => tree[Parent[a.from]] \notin Contents
    BY <1>2, <1>3, <2>2, AfterFacts
  <2> QED
    BY <2>3, <2>4, <2>5 DEF IsFile
<1> QED
  BY <1>1, <1>4, EndsKeeps

LEMMA CrashKeeps ==
  ASSUME IInv, Crash
  PROVE  IInv'
<1>1. /\ crashes < MaxCrashes /\ crashes' = crashes + 1 /\ job' = Idle
      /\ draft' = [pl \in Plans |-> <<>>] /\ mishap' = mishap \cup ({job.plan} \ {None})
      /\ tree' = tree /\ litter' = litter /\ trash' = trash /\ plan' = plan
      /\ touched' = touched /\ unused' = unused /\ gone' = gone /\ victim' = victim
      /\ users' = users
  BY DEF Crash
<1>2. TypeOK /\ Placed /\ NothingLost
  BY DEF IInv
<1>3. job'.plan = None /\ job' \in Job /\ None \notin Plans
  BY <1>1, IdleJob
<1>4. mishap' \subseteq Plans /\ mishap \subseteq mishap'
  BY <1>1, <1>2, TypeFacts DEF TypeOK
<1>c. crashes' \in 0..MaxCrashes
  BY <1>1, <1>2, FilePlansAssumption DEF TypeOK
<1>d. draft' \in [Plans -> Seq(Operation)]
  BY <1>1
<1>5. TypeOK'
  BY <1>1, <1>2, <1>3, <1>4, <1>c, <1>d DEF TypeOK
<1>6. Placed' /\ NothingLost'
  BY <1>1, <1>2 DEF Placed, NothingLost, Undisturbed
<1>7. ASSUME NEW pl \in Plans
      PROVE  /\ Keeps(pl)' /\ (Undisturbed(pl)' => Calm(pl)')
             /\ touched'[pl] = "no" /\ pl \notin mishap' => Still(pl)'
  <2>1. /\ Keeps(pl) /\ (Undisturbed(pl) => Calm(pl))
        /\ touched[pl] = "no" /\ pl \notin mishap => Still(pl)
    BY DEF IInv
  <2>2. draft'[pl] = <<>> /\ (pl \notin mishap' => pl \notin mishap /\ job.plan # pl)
    BY <1>1, <1>3
  <2>3. Keeps(pl)'
    BY <1>1, <2>1, <2>2 DEF Keeps, Ops
  <2>4. Undisturbed(pl)' => Calm(pl)'
    BY <1>1, <2>1, <2>2 DEF Calm, Ops, Undisturbed
  <2>5. touched'[pl] = "no" /\ pl \notin mishap' => Still(pl)'
    BY <1>1, <1>3, <2>1, <2>2 DEF Still, Exact, InEffect, Ops
  <2> QED
    BY <2>3, <2>4, <2>5
<1>8. Jobs'
  BY <1>1 DEF Jobs
<1> QED
  BY <1>5, <1>6, <1>7, <1>8 DEF IInv

LEMMA BeginApplyKeeps ==
  ASSUME IInv, NEW pl \in Plans, BeginApply(pl)
  PROVE  IInv'
<1> DEFINE o == Ops(pl)
           d == plan[pl].digest
           n == Len(o)
<1>1. /\ job = Idle /\ plan[pl].status = "planned" /\ Visible(tree) = d /\ Stay
      /\ job' = [mode |-> "applying", plan |-> pl, todo |-> o, done |-> <<>>]
  BY DEF BeginApply, AsPreviewed, Ops
<1>2. /\ TypeOK /\ Placed /\ Keeps(pl) /\ (Undisturbed(pl) => Calm(pl))
      /\ o \in Seq(Operation)
  BY TypeFacts DEF IInv, Ops
<1>3. /\ job' \in Job /\ job'.plan = pl /\ job'.mode = "applying" /\ job'.todo = o
      /\ job'.done = <<>> /\ n \in Nat /\ Len(job'.done) = 0
  BY <1>1, <1>2 DEF Job
<1>4. job.plan = None /\ None \notin Plans
  BY <1>1, IdleJob
<1>5. /\ TypeOK' /\ Placed' /\ NothingLost' /\ mishap' = mishap /\ touched' = touched
      /\ plan' = plan /\ tree' = tree /\ trash' = trash
      /\ \A q \in Plans :
           /\ Keeps(q)' /\ (Undisturbed(q)' => Calm(q)')
           /\ touched[q] = "no" /\ q \notin mishap /\ q # pl => Still(q)'
  <2>1. \A q \in Plans : job.plan # q
    BY <1>4
  <2> QED
    BY <1>1, <1>3, <2>1, StayKeeps
<1>6. InEffect(pl)' = 0 /\ Ops(pl)' = o
  <2>1. InEffect(pl)' = n - n /\ Ops(pl)' = o
    BY <1>3, <1>5 DEF InEffect, Ops
  <2> QED
    BY <1>3, <2>1
<1>7. 1..0 = {} /\ \A i \in Nat : 0 + i = i
  OBVIOUS
<1>n. o' = o /\ d' = d /\ n' = n
  BY <1>5, <1>6
<1> HIDE DEF o, d, n
<1>8. Running(pl, 0, n)'
  <2>1. Follows(pl, 0, n)'
    BY <1>3, <1>6, <1>7, <1>n DEF Follows, n
  <2>2. Len(job'.todo) <= n /\ plan'[pl].status = "planned"
    BY <1>1, <1>3, <1>5 DEF n
  <2> QED
    BY <1>3, <1>n, <2>1, <2>2 DEF Running
<1>9. ASSUME Undisturbed(pl)'
      PROVE  CalmJob(pl, 0, n)'
  <2>1. Calm(pl) /\ d \subseteq Paths \X Contents
    BY <1>2, <1>5, <1>9, TypeFacts DEF Undisturbed, d
  <2>2. After(Visible(tree), o, d, 0)
    BY <1>1, <2>1, AfterNone
  <2>3. After(Visible(tree)', Ops(pl)', plan'[pl].digest, 0)
    BY <1>5, <1>6, <2>2 DEF d
  <2>4. ASSUME NEW p \in Paths, trash[pl][p] # Nothing
        PROVE  FALSE
    <3>1. <<p, trash[pl][p]>> \in Visible(tree)
      BY <1>1, <2>1, <2>4 DEF Calm, d
    <3>2. tree[p] \in Contents /\ tree[p] = trash[pl][p]
      BY <3>1, VisibleIs
    <3> QED
      BY <1>2, <3>2 DEF Placed
  <2> QED
    BY <1>3, <1>5, <1>7, <2>3, <2>4 DEF CalmJob
<1>10. Jobs'
  BY <1>3, <1>6, <1>8, <1>9, <1>n, JobsNext DEF o, n
<1>11. Still(pl)'
  BY <1>1, <1>3, <1>5, <1>6, <1>7 DEF Still, Exact
<1>12. ASSUME NEW q \in Plans, touched'[q] = "no", q \notin mishap'
       PROVE  Still(q)'
  BY <1>5, <1>11, <1>12
<1> QED
  BY <1>5, <1>10, <1>12 DEF IInv

LEMMA BeginUndoKeeps ==
  ASSUME IInv, NEW pl \in Plans, BeginUndo(pl)
  PROVE  IInv'
<1> DEFINE o == Ops(pl)
           d == plan[pl].digest
           n == Len(o)
           r == Reverse(plan[pl].undo)
<1>1. /\ job = Idle /\ plan[pl].status = "applied" /\ Visible(tree) = plan[pl].post /\ Stay
      /\ job' = [mode |-> "undoing", plan |-> pl, todo |-> r, done |-> <<>>]
  BY DEF BeginUndo, AsApplied, UndoOrder
<1>2. /\ TypeOK /\ Placed /\ Keeps(pl) /\ (Undisturbed(pl) => Calm(pl))
      /\ touched[pl] = "no" /\ pl \notin mishap => Still(pl)
      /\ o \in Seq(Operation) /\ plan[pl].undo \in Seq(Operation)
  BY TypeFacts DEF IInv, Ops
<1>u. /\ Len(plan[pl].undo) = n /\ n \in Nat
      /\ \A i \in 1..n : plan[pl].undo[i] = Converse(o[i])
  BY <1>1, <1>2 DEF Keeps
<1>r. r \in Seq(Operation) /\ Len(r) = n /\ \A i \in 1..n : r[i] = Converse(o[n + 1 - i])
  <2>1. r \in Seq(Operation) /\ Len(r) = n /\ \A i \in 1..n : r[i] = plan[pl].undo[n + 1 - i]
    BY <1>2, <1>u, ReverseFacts
  <2>2. \A i \in 1..n : n + 1 - i \in 1..n
    BY <1>u
  <2> HIDE DEF o, n, r
  <2> QED
    BY <1>u, <2>1, <2>2
<1> HIDE DEF r
<1>3. /\ job' \in Job /\ job'.plan = pl /\ job'.mode = "undoing" /\ job'.todo = r
      /\ job'.done = <<>> /\ Len(job'.done) = 0
  BY <1>1, <1>r DEF Job
<1>4. job.plan = None /\ None \notin Plans
  BY <1>1, IdleJob
<1>5. /\ TypeOK' /\ Placed' /\ NothingLost' /\ mishap' = mishap /\ touched' = touched
      /\ plan' = plan /\ tree' = tree /\ trash' = trash /\ litter' = litter
      /\ \A q \in Plans :
           /\ Keeps(q)' /\ (Undisturbed(q)' => Calm(q)')
           /\ touched[q] = "no" /\ q \notin mishap /\ q # pl => Still(q)'
  <2>1. \A q \in Plans : job.plan # q
    BY <1>4
  <2> QED
    BY <1>1, <1>3, <2>1, StayKeeps
<1>6. InEffect(pl)' = n /\ Ops(pl)' = o /\ InEffect(pl) = n
  BY <1>3, <1>4, <1>5, <1>r DEF InEffect, Ops
<1>7. n - n = 0 /\ 1..0 = {} /\ (n + 1)..n = {}
  BY <1>u
<1>n. o' = o /\ d' = d /\ n' = n
  BY <1>5, <1>6
<1> HIDE DEF o, d, n
<1>8. Running(pl, n, n)'
  <2>1. Follows(pl, n, n)'
    <3>1. \A i \in 1..n : job'.todo[i] = Converse(Ops(pl)'[n + 1 - i])
      BY <1>3, <1>6, <1>r
    <3>2. Len(job'.done) = n - n /\ 1..(n - n) = {}
      BY <1>3, <1>7
    <3> QED
      BY <1>3, <1>n, <3>1, <3>2 DEF Follows
  <2>2. Len(job'.todo) <= n /\ plan'[pl].status = "applied"
    BY <1>1, <1>3, <1>5, <1>r, <1>u
  <2> QED
    BY <1>3, <1>7, <1>n, <2>1, <2>2 DEF Running
<1>9. ASSUME Undisturbed(pl)'
      PROVE  CalmJob(pl, n, n)'
  <2>1. Calm(pl)
    BY <1>2, <1>5, <1>9 DEF Undisturbed
  <2>2. After(Visible(tree), o, d, n)
    BY <1>1, <2>1 DEF Calm, o, d, n
  <2>3. After(Visible(tree)', Ops(pl)', plan'[pl].digest, n)
    BY <1>5, <1>6, <2>2 DEF d
  <2>4. \A p \in Paths : trash[pl][p] # Nothing => \E i \in 1..n : o[i] = Trash(p)
    BY <1>2 DEF Keeps, o, n
  <2> QED
    BY <1>3, <1>5, <1>6, <1>7, <1>n, <2>3, <2>4 DEF CalmJob
<1>10. Jobs'
  BY <1>3, <1>6, <1>8, <1>9, <1>n, JobsNext DEF o, n
<1>11. ASSUME touched'[pl] = "no", pl \notin mishap'
       PROVE  Still(pl)'
  <2>1. Exact(pl, n)
    BY <1>1, <1>2, <1>4, <1>5, <1>6, <1>11 DEF Still
  <2>2. Exact(pl, InEffect(pl))'
    BY <1>5, <1>6, <2>1 DEF Exact, o
  <2> QED
    BY <1>3, <2>2 DEF Still
<1>12. ASSUME NEW q \in Plans, touched'[q] = "no", q \notin mishap'
       PROVE  Still(q)'
  BY <1>5, <1>11, <1>12
<1> QED
  BY <1>5, <1>10, <1>12 DEF IInv

-----------------------------------------------------------------------------
(* Drafting a plan.                                                           *)
LEMMA ProposableFacts ==
  ASSUME NEW ops \in Proposable
  PROVE  /\ ops \in Seq(Proposals) /\ ops \in Seq(Operation) /\ Len(ops) \in Nat /\ ops # <<>>
         /\ \A i \in 1..Len(ops) :
              /\ Makes(ops[i]) =>
                   /\ ~Exists(ops[i].to)
                   /\ \A j \in 1..(i - 1) : ops[j].op = "move" => ops[j].to # ops[i].to
                   /\ \/ IsDir(Parent[ops[i].to])
                      \/ \E j \in 1..(i - 1) : ops[j].op = "mkdir" /\ ops[j].to = Parent[ops[i].to]
              /\ ops[i].op = "mkdir" =>
                   \A j \in 1..(i - 1) : ops[j].op = "mkdir" => ops[j].to # ops[i].to
              /\ Takes(ops[i]) =>
                   IsFile(ops[i].from) /\ \A j \in 1..(i - 1) : ops[j].from # ops[i].from
<1>1. PICK n \in 1..MaxOps : ops \in [1..n -> Proposals]
  BY DEF Proposable
<1>2. Valid(ops)
  BY DEF Proposable
<1>3. n \in Nat \ {0} /\ Len(ops) = n /\ ops \in Seq(Proposals)
  BY <1>1, FilePlansAssumption
<1>4. Proposals \subseteq Operation
  BY ProposalFacts
<1>5. ops \in Seq(Operation) /\ ops # <<>>
  BY <1>1, <1>3, <1>4
<1>6. ASSUME NEW i \in 1..Len(ops)
      PROVE  /\ Makes(ops[i]) =>
                  /\ ~Exists(ops[i].to)
                  /\ \A j \in 1..(i - 1) : ops[j].op = "move" => ops[j].to # ops[i].to
                  /\ \/ IsDir(Parent[ops[i].to])
                     \/ \E j \in 1..(i - 1) : ops[j].op = "mkdir" /\ ops[j].to = Parent[ops[i].to]
             /\ ops[i].op = "mkdir" =>
                  \A j \in 1..(i - 1) : ops[j].op = "mkdir" => ops[j].to # ops[i].to
             /\ Takes(ops[i]) =>
                  IsFile(ops[i].from) /\ \A j \in 1..(i - 1) : ops[j].from # ops[i].from
  <2> DEFINE a == ops[i]
             earlier == {ops[j] : j \in 1..(i - 1)}
             made    == {b.to : b \in {c \in earlier : c.op = "mkdir"}}
             filled  == {b.to : b \in {c \in earlier : c.op = "move"}}
             used    == {b.from : b \in earlier} \ {None}
  <2>1. /\ a.op = "mkdir" => /\ IsDir(Parent[a.to]) \/ Parent[a.to] \in made
                             /\ ~Exists(a.to) /\ a.to \notin filled /\ a.to \notin made
        /\ a.op # "mkdir" => IsFile(a.from) /\ a.from \notin used
        /\ a.op = "move" => /\ IsDir(Parent[a.to]) \/ Parent[a.to] \in made
                            /\ ~Exists(a.to) /\ a.to \notin filled
    BY <1>2 DEF Valid
  <2>2. \A j \in 1..(i - 1) : /\ ops[j] \in earlier
                              /\ ops[j].op = "mkdir" => ops[j].to \in made
                              /\ ops[j].op = "move" => ops[j].to \in filled
                              /\ ops[j].from # None => ops[j].from \in used
    OBVIOUS
  <2>3. \A p : p \in made => \E j \in 1..(i - 1) : ops[j].op = "mkdir" /\ ops[j].to = p
    OBVIOUS
  <2>4. a \in Proposals
    BY <1>1, <1>3
  <2>5. Takes(a) => a.op # "mkdir" /\ a.from # None
    BY <2>4, ProposalFacts, ConstantFacts DEF Takes
  <2> HIDE DEF earlier, made, filled, used
  <2> QED
    BY <2>1, <2>2, <2>3, <2>5 DEF Makes
<1> QED
  BY <1>3, <1>5, <1>6

LEMMA ProposableFits ==
  ASSUME TypeOK, Placed, NEW ops \in Proposable
  PROVE  Shape(ops) /\ Against(ops, Visible(tree))
<1>1. /\ ops \in Seq(Proposals) /\ Len(ops) \in Nat
      /\ \A i \in 1..Len(ops) :
           /\ Makes(ops[i]) =>
                /\ ~Exists(ops[i].to)
                /\ \/ IsDir(Parent[ops[i].to])
                   \/ \E j \in 1..(i - 1) : ops[j].op = "mkdir" /\ ops[j].to = Parent[ops[i].to]
           /\ Takes(ops[i]) => IsFile(ops[i].from)
  BY ProposableFacts
<1>2. \A i, j \in 1..Len(ops) : j < i =>
        /\ Takes(ops[i]) => ops[j].from # ops[i].from
        /\ ops[i].op = ops[j].op /\ Makes(ops[i]) => ops[j].to # ops[i].to
  <2> SUFFICES ASSUME NEW i \in 1..Len(ops), NEW j \in 1..Len(ops), j < i
               PROVE  /\ Takes(ops[i]) => ops[j].from # ops[i].from
                      /\ ops[i].op = ops[j].op /\ Makes(ops[i]) => ops[j].to # ops[i].to
    OBVIOUS
  <2>1. j \in 1..(i - 1)
    BY <1>1
  <2> QED
    BY <2>1, ProposableFacts DEF Makes
<1>3. \A i \in 1..Len(ops) :
        /\ ops[i] \in Proposals
        /\ Makes(ops[i]) => ops[i].to \in Paths /\ tree[ops[i].to] = Nothing
        /\ Takes(ops[i]) => /\ ops[i].from \in Paths /\ tree[ops[i].from] \in Contents
                            /\ Parent[ops[i].from] \in Paths => tree[Parent[ops[i].from]] = Dir
  <2> TAKE i \in 1..Len(ops)
  <2>1. ops[i] \in Proposals
    BY <1>1
  <2>2. Makes(ops[i]) => ops[i].to \in Paths /\ tree[ops[i].to] = Nothing
    BY <1>1, <2>1, ProposalFacts DEF Makes, Exists
  <2>3. Takes(ops[i]) => ops[i].from \in Paths /\ tree[ops[i].from] \in Contents
    BY <1>1 DEF IsFile
  <2>4. Takes(ops[i]) /\ Parent[ops[i].from] \in Paths => tree[Parent[ops[i].from]] = Dir
    BY <2>3, ConstantFacts DEF Placed
  <2> QED
    BY <2>1, <2>2, <2>3, <2>4
<1>4. ASSUME NEW i \in 1..Len(ops), NEW j \in 1..Len(ops)
      PROVE  /\ i # j => Separate(ops[i], ops[j])
             /\ Clear(ops[i], ops[j])
             /\ ops[i].op = "mkdir" /\ Makes(ops[j]) /\ Parent[ops[j].to] = ops[i].to => i < j
  <2>1. i # j => Separate(ops[i], ops[j])
    <3>1. i # j => i < j \/ j < i
      BY <1>1
    <3> QED
      BY <1>2, <3>1 DEF Separate, Makes
  <2>2. Clear(ops[i], ops[j])
    BY <1>3, ConstantFacts DEF Clear
  <2>3. ASSUME ops[i].op = "mkdir", Makes(ops[j]), Parent[ops[j].to] = ops[i].to
        PROVE  i < j
    <3>1. ops[i].to \in Paths /\ tree[ops[i].to] = Nothing
      BY <1>3, <2>3 DEF Makes
    <3>2. ~IsDir(Parent[ops[j].to])
      BY <2>3, <3>1, ConstantFacts DEF IsDir
    <3>3. PICK m \in 1..(j - 1) : ops[m].op = "mkdir" /\ ops[m].to = Parent[ops[j].to]
      BY <1>1, <2>3, <3>2
    <3>4. m \in 1..Len(ops) /\ m < j
      BY <1>1
    <3>5. m = i
      <4>1. m < i \/ i < m \/ m = i
        BY <1>1
      <4>2. ~(m < i) /\ ~(i < m)
        BY <1>2, <2>3, <3>3, <3>4 DEF Makes
      <4> QED
        BY <4>1, <4>2
    <3> QED
      BY <3>4, <3>5
  <2> QED
    BY <2>1, <2>2, <2>3
<1>5. Against(ops, Visible(tree))
  <2> SUFFICES ASSUME NEW i \in 1..Len(ops)
               PROVE  Fits(ops[i], Visible(tree))
    BY DEF Against
  <2>1. Takes(ops[i]) => \E c \in Contents : <<ops[i].from, c>> \in Visible(tree)
    BY <1>3, VisibleIs
  <2>2. Takes(ops[i]) => \A c \in Contents : <<Parent[ops[i].from], c>> \notin Visible(tree)
    BY <1>3, VisibleIs, ConstantFacts
  <2>3. Makes(ops[i]) => \A c \in Contents : <<ops[i].to, c>> \notin Visible(tree)
    BY <1>3, VisibleIs, ConstantFacts
  <2> QED
    BY <2>1, <2>2, <2>3 DEF Fits
<1> QED
  BY <1>1, <1>4, <1>5 DEF Shape

(* A plan that has no row yet.                                                *)
LEMMA UnplannedFacts ==
  ASSUME IInv, NEW pl \in Plans, plan[pl].status = "none"
  PROVE  /\ job.plan # pl /\ plan[pl] = NoPlan
         /\ \A p \in Paths : trash[pl][p] = Nothing
         /\ \A c \in Contents : victim[c] # pl
<1>1. Keeps(pl) /\ TypeOK
  BY DEF IInv
<1>2. plan[pl] = NoPlan /\ \A c \in Contents : victim[c] # pl
  BY <1>1 DEF Keeps
<1>3. Len(Ops(pl)) = 0 /\ 1..0 = {}
  BY <1>2 DEF NoPlan, Ops
<1>4. \A p \in Paths : trash[pl][p] = Nothing
  BY <1>1, <1>3 DEF Keeps
<1>5. job.plan # pl
  <2>1. CASE job = Idle
    BY <2>1, IdleJob
  <2>2. CASE job # Idle
    BY <2>2, JobFacts
  <2> QED
    BY <2>1, <2>2
<1> QED
  BY <1>2, <1>4, <1>5

(* The job goes on as it is.                                                  *)
LEMMA JobStays ==
  ASSUME IInv, job' = job, tree' = tree, trash' = trash, mishap' = mishap,
         \A q \in Plans : job.plan = q => plan'[q] = plan[q] /\ touched'[q] = touched[q]
  PROVE  Jobs'
<1>1. CASE job = Idle
  BY <1>1 DEF Jobs
<1>2. CASE job # Idle
  <2> PICK pl : pl = job.plan
    OBVIOUS
  <2> PICK n : n = Len(Ops(pl))
    OBVIOUS
  <2> PICK k : k = InEffect(pl)
    OBVIOUS
  <2>1. /\ pl \in Plans /\ job.mode # "idle" /\ Running(pl, k, n)
        /\ Undisturbed(pl) => CalmJob(pl, k, n)
    BY <1>2, JobFacts
  <2>2. plan'[pl] = plan[pl] /\ touched'[pl] = touched[pl]
    BY <2>1
  <2>3. Ops(pl)' = Ops(pl) /\ InEffect(pl)' = k
    BY <2>2 DEF Ops, InEffect
  <2>4. Running(pl, k, n)'
    BY <2>1, <2>2 DEF Running, Follows, Ops
  <2>5. ASSUME Undisturbed(pl)'
        PROVE  CalmJob(pl, k, n)'
    <3>1. CalmJob(pl, k, n)
      BY <2>1, <2>2, <2>5 DEF Undisturbed
    <3> QED
      BY <2>2, <3>1 DEF CalmJob, Ops, IsDir
  <2> QED
    BY <2>1, <2>3, <2>4, <2>5, JobsNext
<1> QED
  BY <1>1, <1>2

LEMMA ValidateKeeps ==
  ASSUME IInv, NEW pl \in Plans, NEW ops \in Proposable, Validate(pl, ops)
  PROVE  IInv'
<1>1. /\ plan[pl].status = "none" /\ draft' = [draft EXCEPT ![pl] = ops]
      /\ touched' = [touched EXCEPT ![pl] = "no"]
      /\ tree' = tree /\ litter' = litter /\ trash' = trash /\ plan' = plan /\ job' = job
      /\ unused' = unused /\ gone' = gone /\ victim' = victim /\ mishap' = mishap
      /\ users' = users /\ crashes' = crashes
  BY DEF Validate, history
<1>2. TypeOK /\ Placed /\ NothingLost
  BY DEF IInv
<1>3. /\ job.plan # pl /\ plan[pl] = NoPlan
      /\ \A p \in Paths : trash[pl][p] = Nothing
      /\ \A c \in Contents : victim[c] # pl
  BY <1>1, UnplannedFacts
<1>4. ops \in Seq(Operation) /\ Shape(ops) /\ Against(ops, Visible(tree))
  BY <1>2, ProposableFacts, ProposableFits
<1>d. /\ draft \in [Plans -> Seq(Operation)] /\ draft' \in [Plans -> Seq(Operation)]
      /\ touched \in [Plans -> {"no", "unseen", "yes"}]
      /\ touched' \in [Plans -> {"no", "unseen", "yes"}]
  BY <1>1, <1>2, <1>4 DEF TypeOK
<1>5. /\ draft'[pl] = ops /\ touched'[pl] = "no"
      /\ \A q \in Plans : q # pl => draft'[q] = draft[q] /\ touched'[q] = touched[q]
  BY <1>1, <1>d
<1>6. TypeOK' /\ Placed'
  BY <1>1, <1>2, <1>d DEF TypeOK, Placed
<1>7. NothingLost'
  <2>1. \A c \in Contents : victim[c] # None => victim[c] \in Plans /\ victim[c] # pl
    BY <1>2, <1>3 DEF TypeOK
  <2>2. \A c \in Contents : victim[c] # None => touched'[victim[c]] = touched[victim[c]]
    BY <1>5, <2>1
  <2> QED
    BY <1>1, <1>2, <2>2 DEF NothingLost, Undisturbed
<1>8. ASSUME NEW q \in Plans
      PROVE  /\ Keeps(q)' /\ (Undisturbed(q)' => Calm(q)')
             /\ touched'[q] = "no" /\ q \notin mishap' => Still(q)'
  <2>1. /\ Keeps(q) /\ (Undisturbed(q) => Calm(q))
        /\ touched[q] = "no" /\ q \notin mishap => Still(q)
    BY DEF IInv
  <2>2. CASE q = pl
    <3>1. Keeps(pl)'
      BY <1>1, <1>3, <1>4, <1>5, <2>1, <2>2 DEF Keeps, Ops
    <3>2. Calm(pl)'
      BY <1>1, <1>3, <1>4, <1>5 DEF Calm, Ops
    <3>3. Still(pl)'
      BY <1>1, <1>3 DEF Still
    <3> QED
      BY <2>2, <3>1, <3>2, <3>3
  <2>3. CASE q # pl
    <3>0. draft'[q] = draft[q] /\ touched'[q] = touched[q]
      BY <1>5, <2>3
    <3>1. Keeps(q)'
      BY <1>1, <2>1, <3>0 DEF Keeps, Ops
    <3>2. Undisturbed(q)' => Calm(q)'
      BY <1>1, <2>1, <3>0 DEF Calm, Ops, Undisturbed
    <3>3. touched'[q] = "no" /\ q \notin mishap' => Still(q)'
      BY <1>1, <2>1, <3>0 DEF Still, Exact, InEffect, Ops
    <3> QED
      BY <3>1, <3>2, <3>3
  <2> QED
    BY <2>2, <2>3
<1>9. Jobs'
  <2>1. \A q \in Plans : job.plan = q => plan'[q] = plan[q] /\ touched'[q] = touched[q]
    BY <1>1, <1>3, <1>5
  <2> QED
    BY <1>1, <2>1, JobStays
<1> QED
  BY <1>6, <1>7, <1>8, <1>9 DEF IInv

LEMMA CreatePlanKeeps ==
  ASSUME IInv, NEW pl \in Plans, CreatePlan(pl)
  PROVE  IInv'
<1> DEFINE v == Visible(tree)
           r == [NoPlan EXCEPT !.status = "planned", !.ops = draft[pl], !.digest = v]
<1>1. /\ draft[pl] # <<>> /\ draft' = [draft EXCEPT ![pl] = <<>>]
      /\ plan' = [plan EXCEPT ![pl] = r]
      /\ tree' = tree /\ litter' = litter /\ trash' = trash /\ job' = job
      /\ touched' = touched
      /\ unused' = unused /\ gone' = gone /\ victim' = victim /\ mishap' = mishap
      /\ users' = users /\ crashes' = crashes
  BY DEF CreatePlan, history
<1>2. TypeOK /\ Placed /\ NothingLost /\ Keeps(pl) /\ (Undisturbed(pl) => Calm(pl))
  BY DEF IInv
<1>3. plan[pl].status = "none" /\ Shape(draft[pl])
  BY <1>1, <1>2 DEF Keeps
<1>4. /\ job.plan # pl /\ \A p \in Paths : trash[pl][p] = Nothing
      /\ \A c \in Contents : victim[c] # pl
  BY <1>3, UnplannedFacts
<1>5. Digest(v) /\ v \subseteq Paths \X Contents
  BY VisibleDigest DEF Digest
<1> HIDE DEF v
<1>d. /\ draft \in [Plans -> Seq(Operation)] /\ draft[pl] \in Seq(Operation)
      /\ plan \in [Plans -> Row]
  BY <1>2 DEF TypeOK
<1>r. /\ r \in Row /\ r.status = "planned" /\ r.ops = draft[pl] /\ r.digest = v
  <2>1. NoPlan \in Row
    BY DEF Row, NoPlan
  <2>2. v \in SUBSET (Paths \X Contents)
    BY <1>5
  <2> QED
    BY <1>d, <2>1, <2>2 DEF Row
<1> HIDE DEF r
<1>6. /\ draft' \in [Plans -> Seq(Operation)] /\ draft'[pl] = <<>>
      /\ plan' \in [Plans -> Row] /\ plan'[pl] = r
      /\ \A q \in Plans : q # pl => draft'[q] = draft[q] /\ plan'[q] = plan[q]
  BY <1>1, <1>d, <1>r
<1>7. TypeOK' /\ Placed' /\ NothingLost'
  BY <1>1, <1>2, <1>6 DEF TypeOK, Placed, NothingLost, Undisturbed
<1>8. ASSUME NEW q \in Plans
      PROVE  /\ Keeps(q)' /\ (Undisturbed(q)' => Calm(q)')
             /\ touched'[q] = "no" /\ q \notin mishap' => Still(q)'
  <2>1. /\ Keeps(q) /\ (Undisturbed(q) => Calm(q))
        /\ touched[q] = "no" /\ q \notin mishap => Still(q)
    BY DEF IInv
  <2>2. CASE q = pl
    <3>1. Keeps(pl)'
      BY <1>1, <1>3, <1>4, <1>5, <1>6, <1>r DEF Keeps, Ops
    <3>2. ASSUME Undisturbed(pl)'
          PROVE  Calm(pl)'
      <4>1. Against(draft[pl], v)
        BY <1>1, <1>2, <3>2 DEF Calm, Undisturbed, v
      <4> QED
        BY <1>1, <1>4, <1>6, <1>r, <4>1 DEF Calm, Ops
    <3>3. Still(pl)'
      BY <1>1, <1>4, <1>6, <1>r DEF Still
    <3> QED
      BY <2>2, <3>1, <3>2, <3>3
  <2>3. CASE q # pl
    <3>0. draft'[q] = draft[q] /\ plan'[q] = plan[q]
      BY <1>6, <2>3
    <3>1. Keeps(q)'
      BY <1>1, <2>1, <3>0 DEF Keeps, Ops
    <3>2. Undisturbed(q)' => Calm(q)'
      BY <1>1, <2>1, <3>0 DEF Calm, Ops, Undisturbed
    <3>3. touched'[q] = "no" /\ q \notin mishap' => Still(q)'
      BY <1>1, <2>1, <3>0 DEF Still, Exact, InEffect, Ops
    <3> QED
      BY <3>1, <3>2, <3>3
  <2> QED
    BY <2>2, <2>3
<1>9. Jobs'
  <2>1. \A q \in Plans : job.plan = q => plan'[q] = plan[q] /\ touched'[q] = touched[q]
    BY <1>1, <1>4, <1>6
  <2> QED
    BY <1>1, <2>1, JobStays
<1> QED
  BY <1>7, <1>8, <1>9 DEF IInv

-----------------------------------------------------------------------------
(* The user, in the folder.                                                   *)
LEMMA UserKeeps ==
  ASSUME IInv, UserStep, TypeOK', Placed',
         \A p \in Paths : tree'[p] = Dir => tree[p] = Dir,
         \A c \in Contents \ (unused' \cup gone') :
           \/ \E p \in Paths : tree'[p] = c
           \/ c \notin unused \cup gone /\ \A p \in Paths : tree[p] # c
  PROVE  IInv'
<1>1. /\ Disturb(None) /\ trash' = trash /\ plan' = plan /\ draft' = draft /\ job' = job
      /\ victim' = victim /\ mishap' = mishap
  BY DEF UserStep
<1>2. TypeOK /\ NothingLost
  BY DEF IInv
<1>3. \A q \in Plans : /\ touched'[q] # "no" /\ (touched[q] = "yes" => touched'[q] = "yes")
                       /\ Undisturbed(q)' =>
                            draft[q] = <<>> /\ job.plan # q /\ Undisturbed(q)
  BY <1>1, <1>2, DisturbFacts, ConstantFacts DEF Undisturbed
<1>4. NothingLost'
  <2> SUFFICES ASSUME NEW c \in Contents \ (unused' \cup gone')
               PROVE  \/ \E p \in Paths : tree'[p] = c
                      \/ \E pl \in Plans, p \in Paths : trash[pl][p] = c
                      \/ victim[c] # None /\ touched'[victim[c]] = "yes"
    BY <1>1 DEF NothingLost, Undisturbed
  <2>1. CASE \E p \in Paths : tree'[p] = c
    BY <2>1
  <2>2. CASE c \notin unused \cup gone /\ \A p \in Paths : tree[p] # c
    <3>1. \/ \E pl \in Plans, p \in Paths : trash[pl][p] = c
          \/ victim[c] # None /\ touched[victim[c]] = "yes"
      BY <1>2, <2>2 DEF NothingLost, Undisturbed
    <3>2. victim[c] # None => victim[c] \in Plans
      BY <1>2 DEF TypeOK
    <3> QED
      BY <1>3, <3>1, <3>2
  <2> QED
    BY <2>1, <2>2
<1>5. ASSUME NEW q \in Plans
      PROVE  /\ Keeps(q)' /\ (Undisturbed(q)' => Calm(q)')
             /\ touched'[q] = "no" /\ q \notin mishap' => Still(q)'
  <2>1. Keeps(q) /\ (Undisturbed(q) => Calm(q))
    BY DEF IInv
  <2>2. Keeps(q)'
    BY <1>1, <2>1 DEF Keeps, Ops
  <2>3. ASSUME Undisturbed(q)'
        PROVE  Calm(q)'
    <3>1. draft[q] = <<>> /\ Calm(q)
      BY <1>3, <2>1, <2>3
    <3> QED
      BY <1>1, <3>1 DEF Calm, Ops
  <2> QED
    BY <1>3, <2>2, <2>3
<1>6. Jobs'
  <2>1. CASE job = Idle
    BY <1>1, <2>1 DEF Jobs
  <2>2. CASE job # Idle
    <3> PICK pl : pl = job.plan
      OBVIOUS
    <3> PICK n : n = Len(Ops(pl))
      OBVIOUS
    <3> PICK k : k = InEffect(pl)
      OBVIOUS
    <3>1. /\ pl \in Plans /\ job.mode # "idle" /\ Running(pl, k, n)
          /\ n \in Nat /\ k \in 0..n /\ Shape(Ops(pl))
      BY <2>2, JobFacts
    <3>2. ~Undisturbed(pl)'
      BY <1>3, <3>1
    <3>3. Ops(pl)' = Ops(pl) /\ InEffect(pl)' = k
      BY <1>1 DEF Ops, InEffect
    <3>4. \A i \in (k + 1)..n : Takes(Ops(pl)[i]) => Ops(pl)[i].from \in Paths
      <4>1. \A i \in (k + 1)..n : i \in 1..Len(Ops(pl))
        BY <3>1
      <4> QED
        BY <3>1, <4>1, ShapeFacts
    <3>5. Running(pl, k, n)'
      BY <1>1, <3>1, <3>4 DEF Running, Follows, Ops
    <3> QED
      BY <1>1, <3>1, <3>2, <3>3, <3>5, JobsNext
  <2> QED
    BY <2>1, <2>2
<1> QED
  BY <1>2, <1>4, <1>5, <1>6 DEF IInv

LEMMA UserTypes ==
  ASSUME TypeOK, UserStep, tree' \in [Paths -> Contents \cup {Dir, Nothing}],
         litter' \subseteq Paths, unused' \subseteq Contents, gone' \subseteq Contents
  PROVE  TypeOK'
<1>1. users' \in 0..MaxUser
  BY FilePlansAssumption DEF TypeOK, UserStep
<1>2. touched' \in [Plans -> {"no", "unseen", "yes"}]
  BY DisturbFacts DEF UserStep
<1> QED
  BY <1>1, <1>2 DEF TypeOK, UserStep

LEMMA UserCreatesKeeps ==
  ASSUME IInv, NEW p \in Paths, NEW c \in Contents, UserCreates(p, c)
  PROVE  IInv'
<1>1. /\ c \in unused /\ tree[p] = Nothing /\ IsDir(Parent[p])
      /\ tree' = [tree EXCEPT ![p] = c] /\ unused' = unused \ {c}
      /\ UserStep /\ litter' = litter /\ gone' = gone /\ trash' = trash
  BY DEF UserCreates, UserStep, Exists
<1>2. TypeOK /\ Placed /\ tree \in [Paths -> Contents \cup {Dir, Nothing}]
  BY DEF IInv, TypeOK
<1>3. /\ tree' \in [Paths -> Contents \cup {Dir, Nothing}] /\ tree'[p] = c
      /\ \A q \in Paths : q # p => tree'[q] = tree[q]
  BY <1>1, <1>2
<1>4. TypeOK'
  <2>1. litter' \subseteq Paths /\ unused' \subseteq Contents /\ gone' \subseteq Contents
    BY <1>1, <1>2 DEF TypeOK
  <2> QED
    BY <1>1, <1>2, <1>3, <2>1, UserTypes
<1>5. Placed'
  <2>1. \A q \in Paths : tree'[q] # Nothing /\ Parent[q] # Root => tree'[Parent[q]] = Dir
    BY <1>1, <1>2, <1>3, ParentFacts, ConstantFacts DEF Placed, IsDir
  <2>2. \A q \in litter' : tree'[q] = Dir
    BY <1>1, <1>2, <1>3, ConstantFacts DEF Placed, TypeOK
  <2>3. \A q, s \in Paths : tree'[q] \in Contents /\ tree'[q] = tree'[s] => q = s
    BY <1>1, <1>2, <1>3 DEF Placed
  <2>4. \A q, s \in Paths, pl \in Plans : tree'[q] \in Contents => trash'[pl][s] # tree'[q]
    BY <1>1, <1>2, <1>3 DEF Placed
  <2>5. \A e \in unused' : /\ \A q \in Paths : tree'[q] # e
                           /\ \A q \in Paths, pl \in Plans : trash'[pl][q] # e
    BY <1>1, <1>2, <1>3 DEF Placed
  <2>6. \A q, s \in Paths, pl, pm \in Plans :
          trash'[pl][q] # Nothing /\ trash'[pl][q] = trash'[pm][s] => pl = pm /\ q = s
    BY <1>1, <1>2 DEF Placed
  <2> QED
    BY <2>1, <2>2, <2>3, <2>4, <2>5, <2>6 DEF Placed
<1>6. \A q \in Paths : tree'[q] = Dir => tree[q] = Dir
  BY <1>3, ConstantFacts
<1>7. \A e \in Contents \ (unused' \cup gone') :
        \/ \E q \in Paths : tree'[q] = e
        \/ e \notin unused \cup gone /\ \A q \in Paths : tree[q] # e
  BY <1>1, <1>3, ConstantFacts
<1> QED
  BY <1>1, <1>4, <1>5, <1>6, <1>7, UserKeeps

LEMMA UserDeletesKeeps ==
  ASSUME IInv, NEW p \in Paths, UserDeletes(p)
  PROVE  IInv'
<1>1. /\ tree[p] \in Contents
      /\ tree' = [tree EXCEPT ![p] = Nothing] /\ gone' = gone \cup {tree[p]}
      /\ UserStep /\ litter' = litter /\ unused' = unused /\ trash' = trash
  BY DEF UserDeletes, UserStep, IsFile
<1>2. TypeOK /\ Placed /\ tree \in [Paths -> Contents \cup {Dir, Nothing}]
  BY DEF IInv, TypeOK
<1>3. /\ tree' \in [Paths -> Contents \cup {Dir, Nothing}] /\ tree'[p] = Nothing
      /\ \A q \in Paths : q # p => tree'[q] = tree[q]
  BY <1>1, <1>2
<1>4. TypeOK'
  <2>1. litter' \subseteq Paths /\ unused' \subseteq Contents /\ gone' \subseteq Contents
    BY <1>1, <1>2 DEF TypeOK
  <2> QED
    BY <1>1, <1>2, <1>3, <2>1, UserTypes
<1>5. Placed'
  <2>1. \A q \in Paths : tree'[q] # Nothing /\ Parent[q] # Root => tree'[Parent[q]] = Dir
    BY <1>1, <1>2, <1>3, ParentFacts, ConstantFacts DEF Placed
  <2>2. \A q \in litter' : tree'[q] = Dir
    BY <1>1, <1>2, <1>3, ConstantFacts DEF Placed, TypeOK
  <2>3. \A q, s \in Paths : tree'[q] \in Contents /\ tree'[q] = tree'[s] => q = s
    BY <1>2, <1>3, ConstantFacts DEF Placed
  <2>4. \A q, s \in Paths, pl \in Plans : tree'[q] \in Contents => trash'[pl][s] # tree'[q]
    BY <1>1, <1>2, <1>3, ConstantFacts DEF Placed
  <2>5. \A e \in unused' : /\ \A q \in Paths : tree'[q] # e
                           /\ \A q \in Paths, pl \in Plans : trash'[pl][q] # e
    BY <1>1, <1>2, <1>3, ConstantFacts DEF Placed, TypeOK
  <2>6. \A q, s \in Paths, pl, pm \in Plans :
          trash'[pl][q] # Nothing /\ trash'[pl][q] = trash'[pm][s] => pl = pm /\ q = s
    BY <1>1, <1>2 DEF Placed
  <2> QED
    BY <2>1, <2>2, <2>3, <2>4, <2>5, <2>6 DEF Placed
<1>6. \A q \in Paths : tree'[q] = Dir => tree[q] = Dir
  BY <1>3, ConstantFacts
<1>7. \A e \in Contents \ (unused' \cup gone') :
        \/ \E q \in Paths : tree'[q] = e
        \/ e \notin unused \cup gone /\ \A q \in Paths : tree[q] # e
  <2>1. ASSUME NEW e \in Contents \ (unused' \cup gone'), NEW q \in Paths, tree[q] = e
        PROVE  tree'[q] = e
    BY <1>1, <1>3, <2>1
  <2> QED
    BY <1>1, <2>1
<1> QED
  BY <1>1, <1>4, <1>5, <1>6, <1>7, UserKeeps

LEMMA UserRenamesKeeps ==
  ASSUME IInv, NEW p \in Paths, NEW r \in Paths, UserRenames(p, r)
  PROVE  IInv'
<1>1. /\ tree[p] \in Contents /\ tree[r] = Nothing /\ IsDir(Parent[r])
      /\ tree' = [tree EXCEPT ![r] = tree[p], ![p] = Nothing]
      /\ UserStep /\ litter' = litter /\ unused' = unused /\ gone' = gone /\ trash' = trash
  BY DEF UserRenames, UserStep, IsFile, Exists
<1>2. TypeOK /\ Placed /\ tree \in [Paths -> Contents \cup {Dir, Nothing}]
  BY DEF IInv, TypeOK
<1>n. p # r /\ Parent[r] # p
  BY <1>1, ConstantFacts DEF IsDir
<1>3. /\ tree' \in [Paths -> Contents \cup {Dir, Nothing}]
      /\ tree'[p] = Nothing /\ tree'[r] = tree[p]
      /\ \A q \in Paths : q # p /\ q # r => tree'[q] = tree[q]
  BY <1>1, <1>2, <1>n
<1>4. TypeOK'
  <2>1. litter' \subseteq Paths /\ unused' \subseteq Contents /\ gone' \subseteq Contents
    BY <1>1, <1>2 DEF TypeOK
  <2> QED
    BY <1>1, <1>2, <1>3, <2>1, UserTypes
<1>5. Placed'
  <2>1. \A q \in Paths : tree'[q] # Nothing /\ Parent[q] # Root => tree'[Parent[q]] = Dir
    BY <1>1, <1>2, <1>3, <1>n, ParentFacts, ConstantFacts DEF Placed, IsDir
  <2>2. \A q \in litter' : tree'[q] = Dir
    BY <1>1, <1>2, <1>3, ConstantFacts DEF Placed, TypeOK
  <2>3. \A q, s \in Paths : tree'[q] \in Contents /\ tree'[q] = tree'[s] => q = s
    BY <1>1, <1>2, <1>3, ConstantFacts DEF Placed
  <2>4. \A q, s \in Paths, pl \in Plans : tree'[q] \in Contents => trash'[pl][s] # tree'[q]
    BY <1>1, <1>2, <1>3, ConstantFacts DEF Placed
  <2>5. \A e \in unused' : /\ \A q \in Paths : tree'[q] # e
                           /\ \A q \in Paths, pl \in Plans : trash'[pl][q] # e
    BY <1>1, <1>2, <1>3, ConstantFacts DEF Placed, TypeOK
  <2>6. \A q, s \in Paths, pl, pm \in Plans :
          trash'[pl][q] # Nothing /\ trash'[pl][q] = trash'[pm][s] => pl = pm /\ q = s
    BY <1>1, <1>2 DEF Placed
  <2> QED
    BY <2>1, <2>2, <2>3, <2>4, <2>5, <2>6 DEF Placed
<1>6. \A q \in Paths : tree'[q] = Dir => tree[q] = Dir
  BY <1>1, <1>3, ConstantFacts
<1>7. \A e \in Contents \ (unused' \cup gone') :
        \/ \E q \in Paths : tree'[q] = e
        \/ e \notin unused \cup gone /\ \A q \in Paths : tree[q] # e
  <2>1. ASSUME NEW e \in Contents, NEW q \in Paths, tree[q] = e
        PROVE  \E s \in Paths : tree'[s] = e
    BY <1>1, <1>3, <2>1, ConstantFacts
  <2> QED
    BY <1>1, <2>1
<1> QED
  BY <1>1, <1>4, <1>5, <1>6, <1>7, UserKeeps

LEMMA UserRemovesDirKeeps ==
  ASSUME IInv, NEW p \in Paths, UserRemovesDir(p)
  PROVE  IInv'
<1>1. /\ tree[p] = Dir /\ p \notin litter
      /\ \A q \in Paths : Parent[q] = p => tree[q] = Nothing
      /\ tree' = [tree EXCEPT ![p] = Nothing]
      /\ UserStep /\ litter' = litter /\ unused' = unused /\ gone' = gone /\ trash' = trash
  BY ConstantFacts DEF UserRemovesDir, UserStep, IsDir, IsEmpty, Exists
<1>2. TypeOK /\ Placed /\ tree \in [Paths -> Contents \cup {Dir, Nothing}]
  BY DEF IInv, TypeOK
<1>3. /\ tree' \in [Paths -> Contents \cup {Dir, Nothing}] /\ tree'[p] = Nothing
      /\ \A q \in Paths : q # p => tree'[q] = tree[q]
  BY <1>1, <1>2
<1>4. TypeOK'
  <2>1. litter' \subseteq Paths /\ unused' \subseteq Contents /\ gone' \subseteq Contents
    BY <1>1, <1>2 DEF TypeOK
  <2> QED
    BY <1>1, <1>2, <1>3, <2>1, UserTypes
<1>5. Placed'
  <2>1. \A q \in Paths : tree'[q] # Nothing /\ Parent[q] # Root => tree'[Parent[q]] = Dir
    BY <1>1, <1>2, <1>3, ParentFacts DEF Placed
  <2>2. \A q \in litter' : tree'[q] = Dir
    BY <1>1, <1>2, <1>3 DEF Placed, TypeOK
  <2>3. \A q, s \in Paths : tree'[q] \in Contents /\ tree'[q] = tree'[s] => q = s
    BY <1>2, <1>3, ConstantFacts DEF Placed
  <2>4. \A q, s \in Paths, pl \in Plans : tree'[q] \in Contents => trash'[pl][s] # tree'[q]
    BY <1>1, <1>2, <1>3, ConstantFacts DEF Placed
  <2>5. \A e \in unused' : /\ \A q \in Paths : tree'[q] # e
                           /\ \A q \in Paths, pl \in Plans : trash'[pl][q] # e
    BY <1>1, <1>2, <1>3, ConstantFacts DEF Placed, TypeOK
  <2>6. \A q, s \in Paths, pl, pm \in Plans :
          trash'[pl][q] # Nothing /\ trash'[pl][q] = trash'[pm][s] => pl = pm /\ q = s
    BY <1>1, <1>2 DEF Placed
  <2> QED
    BY <2>1, <2>2, <2>3, <2>4, <2>5, <2>6 DEF Placed
<1>6. \A q \in Paths : tree'[q] = Dir => tree[q] = Dir
  BY <1>3, ConstantFacts
<1>7. \A e \in Contents \ (unused' \cup gone') :
        \/ \E q \in Paths : tree'[q] = e
        \/ e \notin unused \cup gone /\ \A q \in Paths : tree[q] # e
  <2>1. ASSUME NEW e \in Contents, NEW q \in Paths, tree[q] = e
        PROVE  tree'[q] = e
    BY <1>1, <1>3, <2>1, ConstantFacts
  <2> QED
    BY <1>1, <2>1
<1> QED
  BY <1>1, <1>4, <1>5, <1>6, <1>7, UserKeeps

LEMMA UserLittersKeeps ==
  ASSUME IInv, NEW p \in Paths, UserLitters(p)
  PROVE  IInv'
<1>1. /\ tree[p] = Dir /\ litter' = litter \cup {p} /\ tree' = tree
      /\ UserStep /\ unused' = unused /\ gone' = gone /\ trash' = trash
  BY ConstantFacts DEF UserLitters, UserStep, IsDir
<1>2. TypeOK /\ Placed
  BY DEF IInv
<1>3. TypeOK'
  <2>1. /\ tree' \in [Paths -> Contents \cup {Dir, Nothing}]
        /\ litter' \subseteq Paths /\ unused' \subseteq Contents /\ gone' \subseteq Contents
    BY <1>1, <1>2 DEF TypeOK
  <2> QED
    BY <1>1, <1>2, <2>1, UserTypes
<1>4. Placed'
  BY <1>1, <1>2 DEF Placed
<1>5. /\ \A q \in Paths : tree'[q] = Dir => tree[q] = Dir
      /\ \A e \in Contents \ (unused' \cup gone') :
           \/ \E q \in Paths : tree'[q] = e
           \/ e \notin unused \cup gone /\ \A q \in Paths : tree[q] # e
  BY <1>1
<1> QED
  BY <1>1, <1>3, <1>4, <1>5, UserKeeps

-----------------------------------------------------------------------------
(* The whole invariant.                                                       *)
LEMMA InitEstablishes == Init => IInv
<1> SUFFICES ASSUME Init
             PROVE  IInv
  OBVIOUS
<1>1. /\ tree = FirstTree /\ litter = {} /\ trash = [pl \in Plans |-> [p \in Paths |-> Nothing]]
      /\ plan = [pl \in Plans |-> NoPlan] /\ draft = [pl \in Plans |-> <<>>] /\ job = Idle
      /\ unused = {c \in Contents : \A p \in Paths : FirstTree[p] # c} /\ gone = {}
      /\ victim = [c \in Contents |-> None] /\ touched = [pl \in Plans |-> "no"]
      /\ mishap = {} /\ users = 0 /\ crashes = 0
  BY DEF Init
<1>2. NoPlan \in Row /\ NoPlan.status = "none" /\ Len(NoPlan.ops) = 0
  BY DEF NoPlan, Row
<1>3. TypeOK
  BY <1>1, <1>2, IdleJob, FilePlansAssumption DEF TypeOK
<1>4. Placed
  BY <1>1, FilePlansAssumption DEF Placed
<1>5. NothingLost
  BY <1>1 DEF NothingLost
<1>6. ASSUME NEW pl \in Plans
      PROVE  Keeps(pl) /\ Calm(pl) /\ Still(pl)
  <2>1. /\ plan[pl] = NoPlan /\ draft[pl] = <<>> /\ job.plan # pl
        /\ \A p \in Paths : trash[pl][p] = Nothing
        /\ \A c \in Contents : victim[c] # pl
    BY <1>1, IdleJob
  <2> QED
    BY <1>2, <2>1 DEF Keeps, Calm, Still
<1> QED
  BY <1>1, <1>3, <1>4, <1>5, <1>6 DEF IInv, Jobs

LEMMA UnchangedKeeps ==
  ASSUME IInv, UNCHANGED vars
  PROVE  IInv'
<1>1. /\ tree' = tree /\ litter' = litter /\ trash' = trash /\ plan' = plan /\ draft' = draft
      /\ job' = job /\ touched' = touched /\ unused' = unused /\ gone' = gone
      /\ victim' = victim /\ mishap' = mishap /\ users' = users /\ crashes' = crashes
  BY DEF vars
<1>2. Stay /\ job' \in Job
  BY <1>1 DEF Stay, history, IInv, TypeOK
<1>3. /\ TypeOK' /\ Placed' /\ NothingLost'
      /\ \A pl \in Plans : Keeps(pl)' /\ (Undisturbed(pl)' => Calm(pl)')
  BY <1>1, <1>2, StayKeeps
<1>4. ASSUME NEW pl \in Plans, touched'[pl] = "no", pl \notin mishap'
      PROVE  Still(pl)'
  BY <1>1, <1>4 DEF IInv, Still, Exact, InEffect, Ops
<1>5. Jobs'
  BY <1>1, JobStays
<1> QED
  BY <1>3, <1>4, <1>5 DEF IInv

LEMMA NextKeeps == IInv /\ [Next]_vars => IInv'
<1> SUFFICES ASSUME IInv, [Next]_vars
             PROVE  IInv'
  OBVIOUS
<1>1. ASSUME NEW pl \in Plans, NEW ops \in Proposable, Validate(pl, ops)
      PROVE  IInv'
  BY <1>1, ValidateKeeps
<1>2. ASSUME NEW pl \in Plans, CreatePlan(pl) \/ BeginApply(pl) \/ BeginUndo(pl)
      PROVE  IInv'
  BY <1>2, CreatePlanKeeps, BeginApplyKeeps, BeginUndoKeeps
<1>3. ASSUME JobStep
      PROVE  IInv'
  BY <1>3, ApplyStepKeeps, ApplyRaisesKeeps, UndoStepKeeps, UndoRaisesKeeps, FinishKeeps,
     AnswerLostKeeps, RollBackStepKeeps, RedoStepKeeps, RollBackRaisesKeeps, GiveUpKeeps
  DEF JobStep
<1>4. ASSUME User
      PROVE  IInv'
  BY <1>4, UserCreatesKeeps, UserRenamesKeeps, UserDeletesKeeps, UserRemovesDirKeeps,
     UserLittersKeeps
  DEF User
<1>5. CASE Crash
  BY <1>5, CrashKeeps
<1>6. CASE UNCHANGED vars
  BY <1>6, UnchangedKeeps
<1> QED
  BY <1>1, <1>2, <1>3, <1>4, <1>5, <1>6 DEF Next

(* The inductive invariant: how far the job of apply() or undo() is in its    *)
(* plan's operations, what the folder and the trash then hold, and what the   *)
(* validation, the digests and the lock still guarantee after the user, a     *)
(* crash or a lost answer came in between.                                    *)
THEOREM FilePlansInvariant == Spec => []IInv
<1>1. Init => IInv
  BY InitEstablishes
<1>2. IInv /\ [Next]_vars => IInv'
  BY NextKeeps
<1> QED
  BY <1>1, <1>2, PTL DEF Spec

(* FilesSafe: every file that the user did not delete is in the folder or in  *)
(* a trash, unless a rename of a disturbed plan replaced it, and what lies in *)
(* a trash while nothing is in progress can be undone (apply, undo).          *)
THEOREM FilesAreSafe == Spec => []FilesSafe
<1>1. IInv => FilesSafe
  <2> SUFFICES ASSUME IInv
               PROVE  FilesSafe
    OBVIOUS
  <2>1. TypeOK /\ NothingLost
    BY DEF IInv
  <2>2. TrashRecoverable
    <3> SUFFICES ASSUME job = Idle, NEW pl \in Plans, NEW p \in Paths, trash[pl][p] # Nothing,
                        pl \notin mishap, Undisturbed(pl)
                 PROVE  plan[pl].status = "applied"
      BY DEF TrashRecoverable
    <3>1. job.plan # pl
      BY IdleJob
    <3> QED
      BY <3>1 DEF IInv, Calm
  <2> QED
    BY <2>1, <2>2 DEF FilesSafe
<1> QED
  BY <1>1, FilePlansInvariant, PTL

(* Which steps change a row.                                                  *)
LEMMA RowSteps ==
  ASSUME [Next]_vars, plan' # plan
  PROVE  Finish \/ AnswerLost \/ \E pl \in Plans : CreatePlan(pl)
<1>1. \A a : Do(a) => plan' = plan
  BY DEF Do
<1>2. Stay => plan' = plan
  BY DEF Stay
<1>3. ApplyStep \/ UndoStep => plan' = plan
  BY <1>1 DEF ApplyStep, UndoStep, Advance
<1>4. RollBackStep \/ RedoStep => plan' = plan
  BY <1>1, <1>2 DEF RollBackStep, RedoStep, PutBack
<1>5. ApplyRaises \/ UndoRaises \/ RollBackRaises \/ GiveUp => plan' = plan
  BY <1>2 DEF ApplyRaises, UndoRaises, RollBackRaises, GiveUp
<1>6. User \/ Crash \/ UNCHANGED vars => plan' = plan
  BY DEF User, UserCreates, UserRenames, UserDeletes, UserRemovesDir, UserLitters, UserStep,
         Crash, vars
<1>7. \A pl \in Plans :
        /\ \A ops \in Proposable : Validate(pl, ops) => plan' = plan
        /\ BeginApply(pl) \/ BeginUndo(pl) => plan' = plan
  BY <1>2 DEF Validate, BeginApply, BeginUndo
<1> QED
  BY <1>3, <1>4, <1>5, <1>6, <1>7 DEF Next, JobStep

(* UndoRestores: undo() sets its row to undone only when the visible files    *)
(* are those of the preview, unless someone else changed the folder.          *)
THEOREM UndoIsExact == Spec => UndoRestores
<1> DEFINE Restored == \A pl \in Plans :
             plan[pl].status = "applied" /\ plan'[pl].status = "undone" /\ Undisturbed(pl)
               => Visible(tree) = plan[pl].digest
<1>1. ASSUME IInv, [Next]_vars, NEW pl \in Plans,
             plan[pl].status = "applied", plan'[pl].status = "undone", Undisturbed(pl)
      PROVE  Visible(tree) = plan[pl].digest
  <2>1. plan \in [Plans -> Row]
    BY <1>1 DEF IInv, TypeOK
  <2>2. ~ \E q \in Plans : CreatePlan(q)
    <3>1. ASSUME NEW q \in Plans, CreatePlan(q)
          PROVE  FALSE
      <4>1. pl = q => plan[pl].status = "none"
        BY <1>1, <3>1 DEF CreatePlan, IInv, Keeps
      <4>2. pl # q => plan'[pl] = plan[pl]
        BY <2>1, <3>1 DEF CreatePlan
      <4> QED
        BY <1>1, <4>1, <4>2
    <3> QED
      BY <3>1
  <2>3. Finish \/ AnswerLost
    BY <1>1, <2>2, RowSteps
  <2>4. job.mode \in {"applying", "undoing"} /\ job.todo = <<>> /\ Recorded
    BY <1>1, <2>3 DEF Finish, AnswerLost
  <2>5. job.plan = pl /\ job.mode = "undoing"
    BY <1>1, <2>1, <2>4 DEF Recorded
  <2>6. job # Idle
    BY <2>5 DEF Idle
  <2>7. InEffect(pl) = Len(job.todo) /\ CalmJob(pl, InEffect(pl), Len(Ops(pl))) /\ TypeOK
    BY <1>1, <2>5, <2>6, JobFacts DEF IInv
  <2>8. After(Visible(tree), Ops(pl), plan[pl].digest, 0)
    BY <2>4, <2>7 DEF CalmJob
  <2> QED
    BY <2>7, <2>8, AfterNone, TypeFacts, VisibleDigest DEF Digest
<1>2. IInv /\ [Next]_vars => [Restored]_vars
  BY <1>1
<1> QED
  BY <1>2, FilePlansInvariant, PTL DEF Spec, UndoRestores

(* AllOrNothing: an apply() or undo() that fails leaves the visible files as  *)
(* it found them, unless someone else changed the folder (the except clauses).*)
THEOREM FailureIsExact == Spec => AllOrNothing
<1> DEFINE Exactly == GiveUp /\ Undisturbed(job.plan) =>
             Visible(tree) = IF job.mode = "rolling_back" THEN plan[job.plan].digest
                                                          ELSE plan[job.plan].post
<1>1. ASSUME IInv, GiveUp, Undisturbed(job.plan)
      PROVE  Visible(tree) = IF job.mode = "rolling_back" THEN plan[job.plan].digest
                                                          ELSE plan[job.plan].post
  <2> PICK pl : pl = job.plan
    OBVIOUS
  <2> PICK k : k = InEffect(pl)
    OBVIOUS
  <2> DEFINE o == Ops(pl)
             d == plan[pl].digest
             n == Len(o)
  <2>1. job.mode \in {"rolling_back", "redoing"} /\ job.todo = <<>> /\ job # Idle
    BY <1>1 DEF GiveUp, Idle
  <2>2. /\ pl \in Plans /\ Shape(o) /\ n \in Nat /\ TypeOK
        /\ k = IF job.mode = "rolling_back" THEN Len(job.todo) ELSE n - Len(job.todo)
        /\ CalmJob(pl, k, n) /\ Calm(pl)
        /\ job.mode = "redoing" => plan[pl].status \in {"applied", "undone"}
    BY <1>1, <2>1, JobFacts DEF IInv, Running
  <2>3. Len(job.todo) = 0
    BY <2>1
  <2>4. k = IF job.mode = "rolling_back" THEN 0 ELSE n
    BY <2>2, <2>3
  <2>5. /\ After(Visible(tree), o, d, k) /\ Visible(tree) \subseteq Paths \X Contents
        /\ d \subseteq Paths \X Contents
    BY <2>2, TypeFacts, VisibleDigest DEF CalmJob, Digest
  <2>6. job.mode = "redoing" => /\ plan[pl].post \subseteq Paths \X Contents
                                /\ After(plan[pl].post, o, d, n)
    BY <2>2 DEF Calm
  <2>7. n \in 0..Len(o)
    BY <2>2
  <2> HIDE DEF o, d, n
  <2>8. CASE job.mode = "rolling_back"
    BY <2>4, <2>5, <2>8, AfterNone DEF d
  <2>9. CASE job.mode = "redoing"
    BY <2>2, <2>4, <2>5, <2>6, <2>7, <2>9, AfterUnique
  <2> QED
    BY <2>1, <2>8, <2>9
<1>2. IInv /\ [Next]_vars => [Exactly]_vars
  BY <1>1
<1> QED
  BY <1>2, FilePlansInvariant, PTL DEF Spec, AllOrNothing

(* UndoRefusalExplained: an undo() that passed its digest check raises only   *)
(* after a change that the digest does not see, a crash or a lost answer.     *)
THEOREM UndoRefusals == Spec => UndoRefusalExplained
<1> DEFINE Explained == UndoRaises => touched[job.plan] # "no" \/ job.plan \in mishap
<1>1. ASSUME IInv, UndoRaises
      PROVE  touched[job.plan] # "no" \/ job.plan \in mishap
  BY <1>1, UndoCan DEF UndoRaises
<1>2. IInv /\ [Next]_vars => [Explained]_vars
  BY <1>1
<1> QED
  BY <1>2, FilePlansInvariant, PTL DEF Spec, UndoRefusalExplained
=============================================================================
