----------------------- MODULE TaskServiceSerial_proofs -----------------------
(***************************************************************************)
(* What TaskService promises when requests do not overlap, for every set   *)
(* of tasks and agents, every graph, every behavior and every set of rules *)
(* and whatever recursion they lead to: one goroutine runs at a time       *)
(* (Serial).  The overlaps that break these promises are in the README.    *)
(*                                                                         *)
(* What a goroutine has still to do is mostly of a kind that looks before  *)
(* it acts (Tidy).  Only its first operation may depend on what was read   *)
(* or written just before it (Shape); with one goroutine nothing comes     *)
(* between the two.                                                        *)
(***************************************************************************)
EXTENDS MCTaskService, TaskService_proofs

\* One goroutine at a time, which is not interrupted by a crash; nothing is held back.
Serial == \E c : Callers = {c}
NoCrash == "restart" \notin Kinds
NoneHeldBack == \A t \in Tasks : InitRow[t].pending = <<>>
NeverRejected == \A t \in Tasks : InitRow[t].loops = 0

\* The operations that read what they need when they run.
LaterNames == {"transition", "pending", "dag", "gather", "check", "siblings", "parent",
               "advance", "leave", "rules",
               "unassign", "dispatch", "reviewQueue"}

\* Such operations only, but that the entries of a task are failed right after
\* its agents' loads were dropped.
Tidy(ops) ==
    /\ \A i \in DOMAIN ops : ops[i].op \in LaterNames \cup {"dropLoad", "failActive"}
    /\ \A i \in DOMAIN ops : ops[i].op = "dropLoad" =>
         i + 1 \in DOMAIN ops /\ ops[i + 1] = On("failActive", ops[i].task)
    /\ \A i \in DOMAIN ops : ops[i].op = "failActive" =>
         i - 1 \in DOMAIN ops /\ ops[i - 1].op = "dropLoad"

\* x, and then tidy operations.
First(ops, x) == ops # <<>> /\ Head(ops) = x /\ Tidy(Tail(ops))

Shape(ops) ==
    \/ Tidy(ops)
    \/ /\ ops # <<>> /\ Tidy(Tail(ops))
       /\ Head(ops).op \in {"resolve", "write", "loops", "release", "bump", "failActive"}
    \/ /\ ops # <<>> /\ Head(ops).op = "insert"
       /\ First(Tail(ops), [op |-> "bump", agent |-> Head(ops).agent])

ShapeInv == \A c \in Callers : Shape(work[c])

-----------------------------------------------------------------------------
(* Tidy sequences.                                                         *)

LEMMA SeqFacts ==
    ASSUME NEW S, NEW q \in Seq(S), q # <<>>
    PROVE  /\ Len(q) \in Nat /\ DOMAIN q = 1 .. Len(q) /\ 1 \in DOMAIN q /\ Head(q) = q[1]
           /\ Tail(q) \in Seq(S) /\ DOMAIN Tail(q) = 1 .. (Len(q) - 1)
           /\ \A i \in 1 .. (Len(q) - 1) : Tail(q)[i] = q[i + 1]
<1>1. Len(q) \in Nat /\ DOMAIN q = 1 .. Len(q) /\ Len(q) # 0
  BY LenProperties, EmptySeq
<1>2. Tail(q) \in Seq(S) /\ Len(Tail(q)) = Len(q) - 1
      /\ \A i \in 1 .. Len(Tail(q)) : Tail(q)[i] = q[i + 1]
  BY HeadTailProperties
<1>3. DOMAIN Tail(q) = 1 .. (Len(q) - 1)
  BY <1>2, LenProperties
<1>4. Head(q) = q[1]
  OBVIOUS
<1>. QED BY <1>1, <1>2, <1>3, <1>4

LEMMA TidyConcat ==
    ASSUME NEW S, NEW p \in Seq(S), NEW q \in Seq(S), Tidy(p), Tidy(q)
    PROVE  Tidy(p \o q)
<1>. DEFINE m == Len(p)
            n == Len(q)
            r == p \o q
<1>1. /\ m \in Nat /\ n \in Nat /\ DOMAIN p = 1 .. m /\ DOMAIN q = 1 .. n
  BY LenProperties
<1>2. DOMAIN r = 1 .. (m + n)
  <2>1. r \in Seq(S) /\ Len(r) = m + n
    BY ConcatProperties
  <2>. QED BY <2>1, LenProperties
<1>3. \A i \in 1 .. m : r[i] = p[i]
  BY <1>1
<1>4. \A i \in (m + 1) .. (m + n) : i - m \in 1 .. n /\ r[i] = q[i - m]
  BY <1>1
<1>. HIDE DEF r, m, n
<1>5. ASSUME NEW i \in DOMAIN r
      PROVE  /\ r[i].op \in LaterNames \cup {"dropLoad", "failActive"}
             /\ r[i].op = "dropLoad" => i + 1 \in DOMAIN r /\ r[i + 1] = On("failActive", r[i].task)
             /\ r[i].op = "failActive" => i - 1 \in DOMAIN r /\ r[i - 1].op = "dropLoad"
  <2>1. CASE i \in 1 .. m
    <3>1. r[i] = p[i] /\ i \in DOMAIN p
      BY <1>1, <1>3, <2>1
    <3>2. p[i].op \in LaterNames \cup {"dropLoad", "failActive"}
      BY <3>1 DEF Tidy
    <3>3. ASSUME p[i].op = "dropLoad"
          PROVE  i + 1 \in 1 .. m /\ p[i + 1] = On("failActive", p[i].task)
      BY <1>1, <3>1, <3>3 DEF Tidy
    <3>4. ASSUME p[i].op = "failActive" PROVE i - 1 \in 1 .. m /\ p[i - 1].op = "dropLoad"
      BY <1>1, <3>1, <3>4 DEF Tidy
    <3>. QED BY <1>1, <1>2, <1>3, <3>1, <3>2, <3>3, <3>4
  <2>2. CASE i \in (m + 1) .. (m + n)
    <3>. DEFINE k == i - m
    <3>1. r[i] = q[k] /\ k \in DOMAIN q
      BY <1>1, <1>4, <2>2
    <3>2. q[k].op \in LaterNames \cup {"dropLoad", "failActive"}
      BY <3>1 DEF Tidy
    <3>3. ASSUME q[k].op = "dropLoad"
          PROVE  k + 1 \in 1 .. n /\ q[k + 1] = On("failActive", q[k].task)
      BY <1>1, <3>1, <3>3 DEF Tidy
    <3>4. ASSUME q[k].op = "failActive" PROVE k - 1 \in 1 .. n /\ q[k - 1].op = "dropLoad"
      BY <1>1, <3>1, <3>4 DEF Tidy
    <3>5. ASSUME q[k].op = "dropLoad"
          PROVE  i + 1 \in DOMAIN r /\ r[i + 1] = On("failActive", r[i].task)
      <4>1. i + 1 \in (m + 1) .. (m + n) /\ (i + 1) - m = k + 1
        BY <1>1, <2>2, <3>3, <3>5
      <4>2. r[i + 1] = q[k + 1]
        BY <1>4, <4>1
      <4>. QED BY <1>1, <1>2, <3>1, <3>3, <3>5, <4>1, <4>2
    <3>6. ASSUME q[k].op = "failActive" PROVE i - 1 \in DOMAIN r /\ r[i - 1].op = "dropLoad"
      <4>1. i - 1 \in (m + 1) .. (m + n) /\ (i - 1) - m = k - 1
        BY <1>1, <2>2, <3>4, <3>6
      <4>2. r[i - 1] = q[k - 1]
        BY <1>4, <4>1
      <4>. QED BY <1>1, <1>2, <3>1, <3>4, <3>6, <4>1, <4>2
    <3>. QED BY <3>1, <3>2, <3>5, <3>6
  <2>. QED BY <1>1, <1>2, <2>1, <2>2
<1>6. Tidy(r)
  BY <1>5 DEF Tidy
<1>. QED BY <1>6 DEF r

\* What is left of tidy operations.
LEMMA TidyTail ==
    ASSUME NEW S, NEW q \in Seq(S), q # <<>>, Tidy(q)
    PROVE  /\ Head(q).op \in LaterNames \cup {"dropLoad"}
           /\ Head(q).op # "dropLoad" => Tidy(Tail(q))
           /\ Head(q).op = "dropLoad" => First(Tail(q), On("failActive", Head(q).task))
<1>. DEFINE n == Len(q)
            t == Tail(q)
<1>1. /\ n \in Nat /\ DOMAIN q = 1 .. n /\ 1 \in DOMAIN q /\ Head(q) = q[1]
      /\ t \in Seq(S) /\ DOMAIN t = 1 .. (n - 1)
      /\ \A i \in 1 .. (n - 1) : t[i] = q[i + 1]
  BY SeqFacts
<1>. HIDE DEF n, t
<1>2. Head(q).op \in LaterNames \cup {"dropLoad"}
  <2>1. ASSUME q[1].op = "failActive" PROVE FALSE
    <3>1. 1 - 1 \in 1 .. n
      BY <1>1, <2>1 DEF Tidy
    <3>. QED BY <1>1, <3>1
  <2>. QED BY <1>1, <2>1 DEF Tidy
<1>3. ASSUME NEW i \in DOMAIN t
      PROVE  /\ t[i].op \in LaterNames \cup {"dropLoad", "failActive"}
             /\ t[i].op = "dropLoad" => i + 1 \in DOMAIN t /\ t[i + 1] = On("failActive", t[i].task)
             /\ t[i].op = "failActive" => q[i].op = "dropLoad" /\ (i = 1 \/ t[i - 1].op = "dropLoad")
  <2>1. i + 1 \in DOMAIN q /\ t[i] = q[i + 1] /\ i \in DOMAIN q /\ i \in Nat
    BY <1>1
  <2>2. q[i + 1].op \in LaterNames \cup {"dropLoad", "failActive"}
    BY <2>1 DEF Tidy
  <2>3. ASSUME q[i + 1].op = "dropLoad"
        PROVE  i + 1 \in DOMAIN t /\ t[i + 1] = On("failActive", q[i + 1].task)
    <3>1. (i + 1) + 1 \in DOMAIN q /\ q[(i + 1) + 1] = On("failActive", q[i + 1].task)
      BY <2>1, <2>3 DEF Tidy
    <3>2. i + 1 \in 1 .. (n - 1)
      BY <1>1, <2>1, <3>1
    <3>. QED BY <1>1, <3>1, <3>2
  <2>4. ASSUME q[i + 1].op = "failActive" PROVE q[i].op = "dropLoad"
    <3>1. q[(i + 1) - 1].op = "dropLoad"
      BY <2>1, <2>4 DEF Tidy
    <3>2. (i + 1) - 1 = i
      BY <2>1
    <3>. QED BY <3>1, <3>2
  <2>5. ASSUME q[i].op = "dropLoad", i # 1 PROVE t[i - 1].op = "dropLoad"
    <3>1. i - 1 \in 1 .. (n - 1) /\ (i - 1) + 1 = i
      BY <1>1, <2>1, <2>5
    <3>2. t[i - 1] = q[(i - 1) + 1]
      BY <1>1, <3>1
    <3>. QED BY <2>5, <3>1, <3>2
  <2>. QED BY <2>1, <2>2, <2>3, <2>4, <2>5
<1>4. ASSUME Head(q).op # "dropLoad" PROVE Tidy(t)
  <2>1. ASSUME NEW i \in DOMAIN t, t[i].op = "failActive"
        PROVE  i - 1 \in DOMAIN t /\ t[i - 1].op = "dropLoad"
    <3>1. q[i].op = "dropLoad" /\ (i = 1 \/ t[i - 1].op = "dropLoad")
      BY <1>3, <2>1
    <3>2. i # 1
      BY <1>1, <1>4, <3>1
    <3>. QED BY <1>1, <3>1, <3>2
  <2>. QED BY <1>3, <2>1 DEF Tidy
<1>5. ASSUME Head(q).op = "dropLoad" PROVE First(t, On("failActive", Head(q).task))
  <2>1. 1 + 1 \in DOMAIN q /\ q[1 + 1] = On("failActive", q[1].task)
    BY <1>1, <1>5 DEF Tidy
  <2>2. 1 \in DOMAIN t /\ t[1] = On("failActive", q[1].task) /\ t # <<>>
    BY <1>1, <2>1
  <2>. DEFINE u == Tail(t)
  <2>3. /\ Head(t) = t[1] /\ DOMAIN u = 1 .. (Len(t) - 1) /\ Len(t) = n - 1
        /\ \A i \in 1 .. (Len(t) - 1) : u[i] = t[i + 1]
    BY <1>1, <2>2, SeqFacts, LenProperties
  <2>. HIDE DEF u
  <2>4. ASSUME NEW i \in DOMAIN u
        PROVE  /\ u[i].op \in LaterNames \cup {"dropLoad", "failActive"}
               /\ u[i].op = "dropLoad" => i + 1 \in DOMAIN u /\ u[i + 1] = On("failActive", u[i].task)
               /\ u[i].op = "failActive" => i - 1 \in DOMAIN u /\ u[i - 1].op = "dropLoad"
    <3>1. i + 1 \in DOMAIN t /\ u[i] = t[i + 1] /\ i \in Nat /\ i >= 1 /\ i <= n - 2
      BY <1>1, <2>3
    <3>2. t[i + 1].op \in LaterNames \cup {"dropLoad", "failActive"}
      BY <1>3, <3>1
    <3>3. ASSUME t[i + 1].op = "dropLoad"
          PROVE  i + 1 \in DOMAIN u /\ u[i + 1] = On("failActive", t[i + 1].task)
      <4>1. (i + 1) + 1 \in DOMAIN t /\ t[(i + 1) + 1] = On("failActive", t[i + 1].task)
        BY <1>3, <3>1, <3>3
      <4>2. i + 1 \in 1 .. (Len(t) - 1)
        BY <1>1, <2>3, <3>1, <4>1
      <4>. QED BY <2>3, <4>1, <4>2
    <3>4. ASSUME t[i + 1].op = "failActive"
          PROVE  i - 1 \in DOMAIN u /\ u[i - 1].op = "dropLoad"
      <4>1. t[(i + 1) - 1].op = "dropLoad" /\ (i + 1) - 1 = i
        <5>1. i + 1 # 1 /\ (i + 1) - 1 = i
          BY <3>1
        <5>. QED BY <1>3, <3>1, <3>4, <5>1
      <4>2. i # 1
        BY <2>2, <4>1 DEF On
      <4>3. i - 1 \in 1 .. (Len(t) - 1) /\ (i - 1) + 1 = i
        BY <1>1, <2>3, <3>1, <4>2
      <4>4. u[i - 1] = t[(i - 1) + 1]
        BY <2>3, <4>3
      <4>. QED BY <2>3, <4>1, <4>3, <4>4
    <3>. QED BY <3>1, <3>2, <3>3, <3>4
  <2>5. Tidy(u)
    BY <2>4 DEF Tidy
  <2>. QED BY <1>1, <2>2, <2>3, <2>5 DEF First, u
<1>. QED BY <1>2, <1>4, <1>5 DEF t

\* Sequences that are tidy.
LEMMA TidyShort ==
    /\ Tidy(<<>>)
    /\ \A x : x.op \in LaterNames => Tidy(<<x>>)
    /\ \A x, y : x.op \in LaterNames /\ y.op \in LaterNames => Tidy(<<x, y>>)
    /\ \A x, y, z : x.op \in LaterNames /\ y.op \in LaterNames /\ z.op \in LaterNames => Tidy(<<x, y, z>>)
    /\ \A t : Tidy(FreeAgents(t))
<1>1. Tidy(<<>>)
  BY DEF Tidy
<1>2. ASSUME NEW x, x.op \in LaterNames PROVE Tidy(<<x>>)
  BY <1>2 DEF Tidy, LaterNames
<1>3. ASSUME NEW x, NEW y, x.op \in LaterNames, y.op \in LaterNames PROVE Tidy(<<x, y>>)
  BY <1>3 DEF Tidy, LaterNames
<1>4. ASSUME NEW x, NEW y, NEW z, x.op \in LaterNames, y.op \in LaterNames, z.op \in LaterNames
      PROVE  Tidy(<<x, y, z>>)
  BY <1>4 DEF Tidy, LaterNames
<1>5. ASSUME NEW t PROVE Tidy(FreeAgents(t))
  BY DEF Tidy, FreeAgents, On, LaterNames
<1>. QED BY <1>1, <1>2, <1>3, <1>4, <1>5

\* An operation in front of others.
LEMMA HeadTailOfCons ==
    ASSUME NEW S, NEW q \in Seq(S), NEW x \in S
    PROVE  <<x>> \o q # <<>> /\ Head(<<x>> \o q) = x /\ Tail(<<x>> \o q) = q
<1>. DEFINE r == <<x>> \o q
<1>1. q \in Seq(S) /\ Len(q) \in Nat /\ DOMAIN q = 1 .. Len(q)
  BY LenProperties
<1>2. <<x>> \in Seq(S) /\ Len(<<x>>) = 1
  BY ShortSeqs
<1>3. /\ r \in Seq(S) /\ Len(r) = Len(q) + 1 /\ r[1] = x
      /\ \A i \in 1 .. Len(q) : r[i + 1] = q[i]
  BY <1>1, <1>2, ConcatProperties
<1>. HIDE DEF r
<1>4. r # <<>>
  BY <1>1, <1>3
<1>5. Head(r) = x
  BY <1>3, <1>4
<1>6. Tail(r) = q
  <2>1. /\ Tail(r) \in Seq(S) /\ Len(Tail(r)) = Len(q)
        /\ \A i \in 1 .. Len(q) : Tail(r)[i] = q[i]
    BY <1>1, <1>3, <1>4, HeadTailProperties
  <2>. QED BY <1>1, <2>1, SeqEqual
<1>. QED BY <1>4, <1>5, <1>6 DEF r

-----------------------------------------------------------------------------
(* Every step keeps the shape, however the goroutines interleave.          *)

\* What is left when the first operation is over.
LEMMA ShapeTail ==
    ASSUME NEW S, NEW w \in Seq(S), w # <<>>, Shape(w)
    PROVE  /\ Head(w).op \notin {"insert", "dropLoad"} => Tidy(Tail(w))
           /\ Head(w).op = "insert" => First(Tail(w), [op |-> "bump", agent |-> Head(w).agent])
           /\ Head(w).op = "dropLoad" => First(Tail(w), On("failActive", Head(w).task))
BY TidyTail DEF Shape, LaterNames

\* A goroutine that goes on with tidy operations.
LEMMA GoesOnTidy ==
    ASSUME IInv, ShapeInv, NEW c \in Callers, work[c] # <<>>,
           Head(work[c]).op \notin {"insert", "dropLoad"},
           NEW S, NEW ops \in Seq(S), Tidy(ops), Then(c, ops)
    PROVE  Tidy(work'[c])
<1>. DEFINE T == SoundOps \cup S
            rest == Tail(work[c])
<1>1. work[c] \in Seq(SoundOps) /\ Shape(work[c])
  BY DEF IInv, ShapeInv
<1>2. rest \in Seq(SoundOps) /\ Tidy(rest)
  BY <1>1, ShapeTail, HeadTailProperties
<1>3. rest \in Seq(T) /\ ops \in Seq(T)
  BY <1>2, SeqMonotonic
<1>4. Tidy(ops \o rest)
  BY <1>2, <1>3, TidyConcat
<1>5. work'[c] = ops \o rest
  BY DEF Then, IInv
<1>. QED BY <1>4, <1>5

\* A goroutine that goes on with one operation.
LEMMA GoesOnWith ==
    ASSUME IInv, ShapeInv, NEW c \in Callers, work[c] # <<>>,
           Head(work[c]).op \notin {"insert", "dropLoad"}, NEW x, Then(c, <<x>>)
    PROVE  First(work'[c], x)
<1>. DEFINE T == SoundOps \cup {x}
            rest == Tail(work[c])
<1>1. work[c] \in Seq(SoundOps) /\ Shape(work[c])
  BY DEF IInv, ShapeInv
<1>2. rest \in Seq(SoundOps) /\ Tidy(rest)
  BY <1>1, ShapeTail, HeadTailProperties
<1>3. rest \in Seq(T) /\ <<x>> \in Seq(T)
  <2>1. x \in T /\ SoundOps \subseteq T
    OBVIOUS
  <2>. QED BY <1>2, <2>1, SeqMonotonic, ShortSeqs
<1>4. work'[c] = <<x>> \o rest
  BY DEF Then, IInv
<1>5. /\ <<x>> \o rest # <<>> /\ Head(<<x>> \o rest) = x /\ Tail(<<x>> \o rest) = rest
  <2>. HIDE DEF rest, T
  <2>. QED BY <1>3, HeadTailOfCons
<1>. QED BY <1>2, <1>4, <1>5 DEF First

\* A goroutine whose first operation is simply over.
LEMMA GoesOnAfter ==
    ASSUME IInv, ShapeInv, NEW c \in Callers, work[c] # <<>>, Then(c, <<>>)
    PROVE  work'[c] = Tail(work[c])
<1>1. Tail(work[c]) \in Seq(SoundOps)
  BY HeadTailProperties DEF IInv
<1>2. <<>> \o Tail(work[c]) = Tail(work[c])
  BY <1>1
<1>. QED BY <1>2 DEF Then, IInv

LEMMA readTaskSnapshotNext ==
    ASSUME IInv, ShapeInv, NEW c \in Callers, readTaskSnapshot(c)
    PROVE  LET o == Head(work[c])
               row == task[o.task]
           IN  \/ /\ Tidy(work'[c])
                  /\ row.deleted \/ row.status = o.to \/ ~transitionValid(row.status, o.to)
               \/ /\ ~row.deleted
                  /\ \E x : /\ First(work'[c], x) /\ x.op \in {"resolve", "write"}
                            /\ x.task = o.task
                            /\ x.snap.status = row.status /\ x.snap.loops = row.loops
                            /\ o.to # "completed" => x.op = "write" /\ x.to = o.to
<1>. DEFINE o == Head(work[c])
            row == task[o.task]
            s == [status |-> row.status, assignee |-> row.assignee, loops |-> row.loops]
            resolve == [op |-> "resolve", task |-> o.task, snap |-> s,
                        summary |-> o.summary, attempt |-> o.attempt]
            write == [op |-> "write", task |-> o.task, snap |-> s, to |-> o.to, asked |-> o.to,
                      summary |-> o.summary, attempt |-> o.attempt]
<1>1. work[c] # <<>> /\ o.op \notin {"insert", "dropLoad"}
  BY DEF readTaskSnapshot, Doing
<1>2. CASE row.deleted \/ row.status = o.to \/ ~transitionValid(row.status, o.to)
  <2>1. Then(c, <<>>)
    BY <1>2 DEF readTaskSnapshot
  <2>2. <<>> \in Seq(SoundOps) /\ Tidy(<<>>)
    BY ShortSeqs, TidyShort
  <2>3. Tidy(work'[c])
    BY <1>1, <2>1, <2>2, GoesOnTidy
  <2>. QED BY <1>2, <2>3
<1>3. CASE /\ ~(row.deleted \/ row.status = o.to \/ ~transitionValid(row.status, o.to))
           /\ o.to = "completed"
  <2>1. Then(c, <<resolve>>)
    BY <1>3 DEF readTaskSnapshot
  <2>2. First(work'[c], resolve)
    BY <1>1, <2>1, GoesOnWith
  <2>3. resolve.op = "resolve" /\ resolve.task = o.task
        /\ resolve.snap.status = row.status /\ resolve.snap.loops = row.loops
    OBVIOUS
  <2>. QED BY <1>3, <2>2, <2>3
<1>4. CASE /\ ~(row.deleted \/ row.status = o.to \/ ~transitionValid(row.status, o.to))
           /\ o.to # "completed"
  <2>1. Then(c, <<write>>)
    BY <1>4 DEF readTaskSnapshot
  <2>2. First(work'[c], write)
    BY <1>1, <2>1, GoesOnWith
  <2>3. write.op = "write" /\ write.task = o.task /\ write.to = o.to
        /\ write.snap.status = row.status /\ write.snap.loops = row.loops
    OBVIOUS
  <2>. QED BY <1>4, <2>2, <2>3
<1>. QED BY <1>2, <1>3, <1>4

LEMMA resolveCompletionTargetNext ==
    ASSUME IInv, ShapeInv, NEW c \in Callers, resolveCompletionTarget(c)
    PROVE  \E x : /\ First(work'[c], x) /\ x.op = "write" /\ x.task = Head(work[c]).task
                  /\ x.snap = Head(work[c]).snap
<1>. DEFINE o == Head(work[c])
            write(to) == [op |-> "write", task |-> o.task, snap |-> o.snap, to |-> to,
                          asked |-> "completed", summary |-> o.summary, attempt |-> o.attempt]
<1>1. work[c] # <<>> /\ o.op \notin {"insert", "dropLoad"}
  BY DEF resolveCompletionTarget, Doing
<1>2. PICK to : Then(c, <<write(to)>>)
  BY DEF resolveCompletionTarget
<1>3. First(work'[c], write(to))
  BY <1>1, <1>2, GoesOnWith
<1>4. write(to).op = "write" /\ write(to).task = o.task /\ write(to).snap = o.snap
  OBVIOUS
<1>. QED BY <1>3, <1>4

\* Of the side effects of a transition only those of a rejection are not tidy.
LEMMA SideEffectsTidy ==
    ASSUME NEW t, NEW s, NEW to
    PROVE  IF s.status = "review" /\ to = "in_progress"
           THEN SideEffects(t, s, to)
                  = <<[op |-> "loops", task |-> t, agent |-> s.assignee, count |-> s.loops + 1]>>
           ELSE Tidy(SideEffects(t, s, to)) /\ \E S : SideEffects(t, s, to) \in Seq(S)
<1>. DEFINE first == IF s.assignee # NoAgent /\ Behavior[t] = "auto_review"
                     THEN <<ForAgent("reviewQueue", t, s.assignee)>> ELSE <<>>
            S == {On("pending", t), On("dag", t), On("rules", t), On("dropLoad", t), On("failActive", t),
                  ForAgent("reviewQueue", t, s.assignee), ForAgent("dispatch", t, s.assignee)}
            two == <<On("dag", t), On("rules", t)>>
            front == <<On("pending", t), On("dag", t)>>
            last == <<On("rules", t)>>
<1>1. /\ On("pending", t).op \in LaterNames /\ On("dag", t).op \in LaterNames
      /\ On("rules", t).op \in LaterNames
      /\ ForAgent("reviewQueue", t, s.assignee).op \in LaterNames
      /\ ForAgent("dispatch", t, s.assignee).op \in LaterNames
  BY DEF On, ForAgent, LaterNames
<1>2. /\ first \in Seq(S) /\ two \in Seq(S) /\ front \in Seq(S) /\ last \in Seq(S)
      /\ FreeAgents(t) \in Seq(S) /\ <<>> \in Seq(S)
      /\ <<On("pending", t), On("dag", t), On("rules", t)>> \in Seq(S)
      /\ <<ForAgent("dispatch", t, s.assignee)>> \in Seq(S)
  <2>. DEFINE p == On("pending", t)
              d == On("dag", t)
              r == On("rules", t)
              l == On("dropLoad", t)
              f == On("failActive", t)
              q == ForAgent("reviewQueue", t, s.assignee)
              i == ForAgent("dispatch", t, s.assignee)
  <2>1. p \in S /\ d \in S /\ r \in S /\ l \in S /\ f \in S /\ q \in S /\ i \in S
    OBVIOUS
  <2>2. FreeAgents(t) = <<l, f>>
    BY DEF FreeAgents
  <2>. HIDE DEF p, d, r, l, f, q, i, S
  <2>3. /\ <<q>> \in Seq(S) /\ <<>> \in Seq(S) /\ <<d, r>> \in Seq(S) /\ <<p, d>> \in Seq(S)
        /\ <<r>> \in Seq(S) /\ <<l, f>> \in Seq(S) /\ <<p, d, r>> \in Seq(S) /\ <<i>> \in Seq(S)
    BY <2>1, ShortSeqs
  <2>. QED BY <2>2, <2>3 DEF p, d, r, q, i
<1>3. /\ Tidy(first) /\ Tidy(two) /\ Tidy(front) /\ Tidy(last) /\ Tidy(FreeAgents(t)) /\ Tidy(<<>>)
      /\ Tidy(<<On("pending", t), On("dag", t), On("rules", t)>>)
      /\ Tidy(<<ForAgent("dispatch", t, s.assignee)>>)
  BY <1>1, TidyShort
<1>. HIDE DEF first, two, front, last, S
<1>4. Tidy(first \o two) /\ first \o two \in Seq(S)
  BY <1>2, <1>3, TidyConcat, ConcatProperties
<1>5. Tidy(front \o FreeAgents(t)) /\ front \o FreeAgents(t) \in Seq(S)
  BY <1>2, <1>3, TidyConcat, ConcatProperties
<1>6. Tidy(front \o FreeAgents(t) \o last) /\ front \o FreeAgents(t) \o last \in Seq(S)
  BY <1>2, <1>3, <1>5, TidyConcat, ConcatProperties
<1>7. CASE s.status = "review" /\ to = "in_progress"
  BY <1>7 DEF SideEffects
<1>8. CASE ~(s.status = "review" /\ to = "in_progress")
  <2>1. SideEffects(t, s, to) \in {<<On("pending", t), On("dag", t), On("rules", t)>>,
          first \o two, front \o FreeAgents(t) \o last, <<ForAgent("dispatch", t, s.assignee)>>, <<>>}
    BY <1>8 DEF SideEffects, first, two, front, last
  <2>. QED BY <1>2, <1>3, <1>4, <1>6, <1>8, <2>1
<1>. QED BY <1>7, <1>8

LEMMA writeStatusNext ==
    ASSUME IInv, ShapeInv, NEW c \in Callers, writeStatus(c)
    PROVE  LET o == Head(work[c])
           IN  IF /\ Unmodified(o.task, o.snap)
                  /\ o.snap.status = "review" /\ o.to = "in_progress"
               THEN First(work'[c], [op |-> "loops", task |-> o.task, agent |-> o.snap.assignee,
                                     count |-> o.snap.loops + 1])
               ELSE Tidy(work'[c])
<1>. DEFINE o == Head(work[c])
<1>1. work[c] # <<>> /\ o.op \notin {"insert", "dropLoad"}
  BY DEF writeStatus, Doing
<1>2. CASE Unmodified(o.task, o.snap)
  <2>1. Then(c, SideEffects(o.task, o.snap, o.to))
    BY <1>2 DEF writeStatus
  <2>. QED BY <1>1, <1>2, <2>1, SideEffectsTidy, GoesOnTidy, GoesOnWith
<1>3. CASE ~Unmodified(o.task, o.snap)
  <2>. DEFINE retry == [Transition(o.task, o.asked, o.summary) EXCEPT !.attempt = o.attempt + 1]
              ops == IF o.attempt < maxRetries - 1 THEN <<retry>> ELSE <<>>
  <2>1. Then(c, ops)
    BY <1>3 DEF writeStatus
  <2>2. retry.op \in LaterNames
    BY DEF Transition, LaterNames
  <2>3. Tidy(ops) /\ ops \in Seq({retry})
    BY <2>2, TidyShort, ShortSeqs
  <2>4. Tidy(work'[c])
    BY <1>1, <2>1, <2>3, GoesOnTidy
  <2>. QED BY <1>3, <2>4
<1>. QED BY <1>2, <1>3

\* An entry is to be inserted and counted next.
Inserts(ops, t, a) == /\ ops # <<>> /\ Head(ops) = ForAgent("insert", t, a)
                      /\ First(Tail(ops), [op |-> "bump", agent |-> a])

LEMMA dispatchNext ==
    ASSUME IInv, ShapeInv, NEW c \in Callers, tryAutoDispatch(c) \/ createReviewQueue(c)
    PROVE  \/ Tidy(work'[c])
           \/ /\ ~ActiveFor(queue, Head(work[c]).task, Head(work[c]).agent)
              /\ Inserts(work'[c], Head(work[c]).task, Head(work[c]).agent)
<1>. DEFINE o == Head(work[c])
            insert == ForAgent("insert", o.task, o.agent)
            bump == [op |-> "bump", agent |-> o.agent]
            rest == Tail(work[c])
<1>1. work[c] # <<>> /\ o.op \notin {"insert", "dropLoad"}
  BY DEF tryAutoDispatch, createReviewQueue, Doing
<1>2. CASE Then(c, <<>>)
  <2>1. <<>> \in Seq(SoundOps) /\ Tidy(<<>>)
    BY ShortSeqs, TidyShort
  <2>. QED BY <1>1, <1>2, <2>1, GoesOnTidy
<1>3. CASE Then(c, <<insert, bump>>) /\ ~ActiveFor(queue, o.task, o.agent)
  <2>. DEFINE S == SoundOps \cup {insert, bump}
  <2>1. work[c] \in Seq(SoundOps) /\ Shape(work[c])
    BY DEF IInv, ShapeInv
  <2>2. rest \in Seq(SoundOps) /\ Tidy(rest)
    BY <1>1, <2>1, ShapeTail, HeadTailProperties
  <2>3. insert \in S /\ bump \in S /\ rest \in Seq(S)
    BY <2>2, SeqMonotonic
  <2>4. work'[c] = <<insert, bump>> \o rest
    BY <1>3 DEF Then, IInv
  <2>. HIDE DEF S, insert, bump, rest
  <2>5. <<insert, bump>> \o rest = <<insert>> \o (<<bump>> \o rest)
    <3>1. <<insert>> \in Seq(S) /\ <<bump>> \in Seq(S)
      BY <2>3, ShortSeqs
    <3>2. <<insert>> \o (<<bump>> \o rest) = (<<insert>> \o <<bump>>) \o rest
      BY <2>3, <3>1, ConcatAssociative
    <3>3. <<insert>> \o <<bump>> = <<insert, bump>>
      <4>1. /\ <<insert>> \o <<bump>> \in Seq(S) /\ Len(<<insert>> \o <<bump>>) = 2
            /\ (<<insert>> \o <<bump>>)[1] = insert /\ (<<insert>> \o <<bump>>)[2] = bump
        BY <3>1, ConcatProperties
      <4>. DEFINE p == <<insert>> \o <<bump>>
                  q == <<insert, bump>>
      <4>2. q \in Seq(S) /\ Len(q) = 2 /\ q[1] = insert /\ q[2] = bump
        BY <2>3, ShortSeqs
      <4>. HIDE DEF p, q
      <4>3. p \in Seq(S) /\ Len(p) = 2 /\ p[1] = insert /\ p[2] = bump
        BY <4>1 DEF p
      <4>4. \A i \in 1 .. Len(p) : p[i] = q[i]
        BY <4>2, <4>3
      <4>5. p = q
        BY <4>2, <4>3, <4>4, SeqEqual
      <4>. QED BY <4>5 DEF p, q
    <3>. QED BY <3>2, <3>3
  <2>6. <<bump>> \o rest \in Seq(S)
    BY <2>3, ShortSeqs, ConcatProperties
  <2>7. /\ work'[c] # <<>> /\ Head(work'[c]) = insert /\ Tail(work'[c]) = <<bump>> \o rest
    BY <2>3, <2>4, <2>5, <2>6, HeadTailOfCons
  <2>8. First(Tail(work'[c]), bump)
    BY <2>2, <2>3, <2>7, HeadTailOfCons DEF First
  <2>. QED BY <1>3, <2>7, <2>8 DEF Inserts, insert, bump
<1>. QED BY <1>2, <1>3 DEF tryAutoDispatch, createReviewQueue

LEMMA insertQueueEntryNext ==
    ASSUME IInv, ShapeInv, NEW c \in Callers, insertQueueEntry(c)
    PROVE  First(work'[c], [op |-> "bump", agent |-> Head(work[c]).agent])
<1>1. work[c] # <<>> /\ Head(work[c]).op = "insert" /\ Then(c, <<>>)
  BY DEF insertQueueEntry, Doing
<1>2. work[c] \in Seq(SoundOps) /\ Shape(work[c])
  BY DEF IInv, ShapeInv
<1>3. First(Tail(work[c]), [op |-> "bump", agent |-> Head(work[c]).agent])
  BY <1>1, <1>2, ShapeTail
<1>. QED BY <1>1, <1>3, GoesOnAfter

LEMMA dropLoadOfTaskNext ==
    ASSUME IInv, ShapeInv, NEW c \in Callers, dropLoadOfTask(c)
    PROVE  First(work'[c], On("failActive", Head(work[c]).task))
<1>1. work[c] # <<>> /\ Head(work[c]).op = "dropLoad" /\ Then(c, <<>>)
  BY DEF dropLoadOfTask, Doing
<1>2. work[c] \in Seq(SoundOps) /\ Shape(work[c])
  BY DEF IInv, ShapeInv
<1>3. First(Tail(work[c]), On("failActive", Head(work[c]).task))
  BY <1>1, <1>2, ShapeTail
<1>. QED BY <1>1, <1>3, GoesOnAfter

\* The steps after which the operation is simply over.
LEMMA overNext ==
    ASSUME IInv, ShapeInv, NEW c \in Callers,
           bumpLoad(c) \/ processPendingActions(c) \/ failEntriesOfTask(c)
             \/ leaveOnTaskCompleted(c) \/ assignUser(c)
    PROVE  Tidy(work'[c])
<1>1. work[c] # <<>> /\ Head(work[c]).op \notin {"insert", "dropLoad"} /\ Then(c, <<>>)
  BY DEF bumpLoad, processPendingActions, failEntriesOfTask, leaveOnTaskCompleted, assignUser, Doing
<1>2. <<>> \in Seq(SoundOps) /\ Tidy(<<>>)
  BY ShortSeqs, TidyShort
<1>. QED BY <1>1, <1>2, GoesOnTidy

LEMMA readPendingActionsNext ==
    ASSUME IInv, ShapeInv, NEW c \in Callers, readPendingActions(c)
    PROVE  LET t == Head(work[c]).task
           IN  \/ Tidy(work'[c])
               \/ /\ task[t].pending # <<>>
                  /\ \E x : First(work'[c], x) /\ x.op = "release"
<1>. DEFINE t == Head(work[c]).task
            x == [op |-> "release", task |-> t, actions |-> task[t].pending]
<1>1. work[c] # <<>> /\ Head(work[c]).op \notin {"insert", "dropLoad"}
  BY DEF readPendingActions, Doing
<1>2. CASE Then(c, <<>>)
  <2>1. <<>> \in Seq(SoundOps) /\ Tidy(<<>>)
    BY ShortSeqs, TidyShort
  <2>. QED BY <1>1, <1>2, <2>1, GoesOnTidy
<1>3. CASE Then(c, <<x>>) /\ task[t].pending # <<>>
  <2>1. First(work'[c], x) /\ x.op = "release"
    BY <1>1, <1>3, GoesOnWith
  <2>. QED BY <1>3, <2>1
<1>. QED BY <1>2, <1>3 DEF readPendingActions

LEMMA countLoopNext ==
    ASSUME IInv, ShapeInv, NEW c \in Callers, countLoop(c)
    PROVE  /\ Tidy(work'[c])
           /\ AtLimit(Head(work[c]).count)
                => work'[c] # <<>> /\ Head(work'[c]) = Transition(Head(work[c]).task, "stuck", FALSE)
<1>. DEFINE o == Head(work[c])
            stuck == Transition(o.task, "stuck", FALSE)
            review == ForAgent("reviewQueue", o.task, o.agent)
            ops == IF AtLimit(o.count) THEN <<stuck>>
                   ELSE IF o.agent # NoAgent THEN <<review>> ELSE <<>>
<1>1. work[c] # <<>> /\ o.op \notin {"insert", "dropLoad"} /\ Then(c, ops)
  BY DEF countLoop, Doing
<1>2. stuck.op \in LaterNames /\ review.op \in LaterNames
  BY DEF Transition, ForAgent, LaterNames
<1>3. Tidy(ops)
  BY <1>2, TidyShort
<1>4. ops \in Seq({stuck, review})
  <2>1. stuck \in {stuck, review} /\ review \in {stuck, review}
    OBVIOUS
  <2>2. <<stuck>> \in Seq({stuck, review}) /\ <<review>> \in Seq({stuck, review})
        /\ <<>> \in Seq({stuck, review})
    BY <2>1, ShortSeqs
  <2>. QED BY <2>2
<1>5. Tidy(work'[c])
  BY <1>1, <1>3, <1>4, GoesOnTidy
<1>6. ASSUME AtLimit(o.count) PROVE First(work'[c], stuck)
  <2>1. Then(c, <<stuck>>)
    BY <1>1, <1>6
  <2>. QED BY <1>1, <2>1, GoesOnWith
<1>. QED BY <1>5, <1>6 DEF First

LEMMA enterOnTaskCompletedNext ==
    ASSUME IInv, ShapeInv, NEW c \in Callers, enterOnTaskCompleted(c) PROVE Tidy(work'[c])
<1>. DEFINE t == Head(work[c]).task
            g == On("gather", t)
            l == On("leave", t)
<1>1. work[c] # <<>> /\ Head(work[c]).op \notin {"insert", "dropLoad"}
  BY DEF enterOnTaskCompleted, Doing
<1>2. g.op \in LaterNames /\ l.op \in LaterNames
  BY DEF On, LaterNames
<1>3. Tidy(<<>>) /\ Tidy(<<g, l>>) /\ <<>> \in Seq({g, l}) /\ <<g, l>> \in Seq({g, l})
  <2>1. g \in {g, l} /\ l \in {g, l}
    OBVIOUS
  <2>2. <<>> \in Seq({g, l}) /\ <<g, l>> \in Seq({g, l})
    BY <2>1, ShortSeqs
  <2>. QED BY <1>2, <2>2, TidyShort
<1>4. Then(c, <<>>) \/ Then(c, <<g, l>>)
  BY DEF enterOnTaskCompleted
<1>. QED BY <1>1, <1>3, <1>4, GoesOnTidy

LEMMA GathersNext ==
    ASSUME IInv, ShapeInv, NEW c \in Callers, Gathers(c) PROVE Tidy(work'[c])
<1>1. work[c] # <<>> /\ SoundHead(c)
  BY HeadsAreSound DEF Gathers, gatherDAGTransitions, checkDependents, checkSiblings, readParent, Doing
<1>2. Head(work[c]).op \notin {"insert", "dropLoad"}
  BY <1>1, GathersOn
<1>3. PICK x \in Gathered : Then(c, <<x>>)
  BY <1>1, GathersOn
<1>4. x.op \in LaterNames
  BY <1>3 DEF Gathered, CheckOps, ParentOps, AdvanceOps, LaterNames
<1>5. Tidy(<<x>>) /\ <<x>> \in Seq({x})
  BY <1>4, TidyShort, ShortSeqs
<1>. QED BY <1>1, <1>2, <1>3, <1>5, GoesOnTidy

LEMMA applyDAGTransitionsNext ==
    ASSUME IInv, ShapeInv, NEW c \in Callers, applyDAGTransitions(c) PROVE Tidy(work'[c])
<1>. DEFINE o == Head(work[c])
<1>1. work[c] # <<>> /\ o.op = "advance"
  BY DEF applyDAGTransitions, Doing
<1>2. ASSUME NEW d \in o.unblock, Then(c, <<Transition(d, "todo", FALSE), After(o, d)>>)
      PROVE  Tidy(work'[c])
  <2>. DEFINE x == Transition(d, "todo", FALSE)
              y == After(o, d)
  <2>1. x.op \in LaterNames
    BY DEF Transition, LaterNames
  <2>2. y.op \in LaterNames
    <3>1. o \in AdvanceOps
      BY <1>1, HeadsAreSound, HeadIsSound, OpTypes
    <3>. QED BY <3>1 DEF AdvanceOps, After, LaterNames
  <2>. HIDE DEF x, y
  <2>3. Tidy(<<x, y>>) /\ <<x, y>> \in Seq({x, y})
    BY <2>1, <2>2, TidyShort, ShortSeqs
  <2>4. Then(c, <<x, y>>)
    BY <1>2 DEF x, y
  <2>. QED BY <1>1, <2>3, <2>4, GoesOnTidy
<1>3. CASE Then(c, <<>>)
  <2>1. <<>> \in Seq(SoundOps) /\ Tidy(<<>>)
    BY ShortSeqs, TidyShort
  <2>. QED BY <1>1, <1>3, <2>1, GoesOnTidy
<1>4. CASE Then(c, <<Transition(o.parent, o.to, FALSE)>>)
  <2>. DEFINE x == Transition(o.parent, o.to, FALSE)
  <2>1. x.op \in LaterNames
    BY DEF Transition, LaterNames
  <2>. HIDE DEF x
  <2>2. Tidy(<<x>>) /\ <<x>> \in Seq({x})
    BY <2>1, TidyShort, ShortSeqs
  <2>3. Then(c, <<x>>)
    BY <1>4 DEF x
  <2>. QED BY <1>1, <2>2, <2>3, GoesOnTidy
<1>. QED BY <1>2, <1>3, <1>4 DEF applyDAGTransitions

LEMMA evaluateRulesNext ==
    ASSUME IInv, ShapeInv, NEW c \in Callers, evaluateRules(c) PROVE Tidy(work'[c])
<1>. DEFINE t == Head(work[c]).task
            acts == RuleActions[t]
            ops == [i \in DOMAIN acts |-> IF acts[i] = "assign_user" THEN On("unassign", t)
                                           ELSE Transition(t, acts[i], FALSE)]
<1>1. work[c] # <<>> /\ Head(work[c]).op = "rules" /\ Then(c, ops)
  BY DEF evaluateRules, Doing
<1>2. t \in Tasks
  <2>1. Head(work[c]) \in TaskOps
    BY <1>1, HeadsAreSound, HeadIsSound, OpTypes
  <2>. QED BY <2>1 DEF TaskOps
<1>3. acts \in Seq(Statuses \cup {"assign_user"})
  BY <1>2, TaskAssumption
<1>4. \A i \in DOMAIN ops : ops[i].op \in {"unassign", "transition"}
  BY DEF On, Transition
<1>. DEFINE O == {ops[i] : i \in DOMAIN acts}
<1>5. ops \in Seq(O)
  <2>1. ops = [i \in DOMAIN acts |-> ops[i]]
    OBVIOUS
  <2>2. \A i \in DOMAIN acts : ops[i] \in O
    OBVIOUS
  <2>. HIDE DEF ops, O
  <2>. QED BY <1>3, <2>1, <2>2, MapIsSeq
<1>6. Tidy(ops)
  <2>. HIDE DEF ops
  <2>. QED BY <1>4 DEF Tidy, LaterNames
<1>. HIDE DEF ops
<1>. QED BY <1>1, <1>5, <1>6, GoesOnTidy

LEMMA Shapes ==
    /\ \A ops : Tidy(ops) => Shape(ops)
    /\ \A ops, x : First(ops, x) /\ x.op \in {"resolve", "write", "loops", "release", "bump", "failActive"}
                     => Shape(ops)
    /\ \A ops, t, a : Inserts(ops, t, a) => Shape(ops)
BY DEF Shape, First, Inserts, ForAgent

LEMMA OthersStay ==
    ASSUME IInv, NEW c \in Callers, ServiceStep(c)
    PROVE  /\ work[c] # <<>> /\ work' = [work EXCEPT ![c] = work'[c]]
           /\ \A d \in Callers : d # c => work'[d] = work[d]
<1>1. GoesOn(c)
  BY StepHasHead, HeadsAreSound, ServiceStepInv DEF IInv
<1>. QED BY <1>1 DEF GoesOn, Then, IInv

LEMMA StepShape ==
    ASSUME IInv, ShapeInv, NEW c \in Callers, ServiceStep(c) PROVE Shape(work'[c])
<1>1. CASE readTaskSnapshot(c)
  BY <1>1, readTaskSnapshotNext, Shapes
<1>2. CASE resolveCompletionTarget(c)
  BY <1>2, resolveCompletionTargetNext, Shapes
<1>3. CASE writeStatus(c)
  BY <1>3, writeStatusNext, Shapes
<1>4. CASE tryAutoDispatch(c) \/ createReviewQueue(c)
  BY <1>4, dispatchNext, Shapes
<1>5. CASE insertQueueEntry(c)
  BY <1>5, insertQueueEntryNext, Shapes
<1>6. CASE readPendingActions(c)
  BY <1>6, readPendingActionsNext, Shapes
<1>7. CASE dropLoadOfTask(c)
  BY <1>7, dropLoadOfTaskNext, Shapes DEF On
<1>8. CASE bumpLoad(c) \/ processPendingActions(c) \/ failEntriesOfTask(c)
             \/ leaveOnTaskCompleted(c) \/ assignUser(c)
  BY <1>8, overNext, Shapes
<1>9. CASE countLoop(c)
  BY <1>9, countLoopNext, Shapes
<1>10. CASE enterOnTaskCompleted(c) \/ Gathers(c) \/ applyDAGTransitions(c)
              \/ evaluateRules(c)
  BY <1>10, enterOnTaskCompletedNext, GathersNext, applyDAGTransitionsNext,
     evaluateRulesNext, Shapes
<1>. QED BY <1>1, <1>2, <1>3, <1>4, <1>5, <1>6, <1>7, <1>8, <1>9, <1>10 DEF ServiceStep, Gathers

\* A request begins with one transition, and nothing is under way when a server starts again.
LEMMA RequestBegins ==
    ASSUME IInv, Requests
    PROVE  \/ UNCHANGED work
           \/ \E c \in Callers : \E x : /\ work[c] = <<>> /\ work' = [work EXCEPT ![c] = <<x>>]
                                        /\ x.op = "transition"
<1>. DEFINE Begun == \E c \in Callers : \E x : /\ work[c] = <<>> /\ work' = [work EXCEPT ![c] = <<x>>]
                                               /\ x.op = "transition"
<1>1. ASSUME NEW c \in Callers, NEW t, NEW to, NEW s, work[c] = <<>>, Start(c, <<Transition(t, to, s)>>)
      PROVE  Begun
  <2>1. Transition(t, to, s).op = "transition"
    BY DEF Transition
  <2>2. work' = [work EXCEPT ![c] = <<Transition(t, to, s)>>]
    BY <1>1 DEF Start
  <2>. QED BY <1>1, <2>1, <2>2
<1>2. PICK c \in Callers, t \in Tasks :
         \/ \E to \in UserStatuses : SetStatus(c, t, to)
         \/ HandleReview(c, t)
         \/ \E summary \in BOOLEAN : MarkCompleted(c, t, summary)
         \/ checkStuckTasks(c, t)
         \/ Delete(c, t)
         \/ Restore(c, t)
  BY DEF Requests
<1>3. ASSUME NEW to \in UserStatuses, SetStatus(c, t, to) PROVE Begun
  <2>1. work[c] = <<>> /\ Start(c, <<Transition(t, to, FALSE)>>)
    BY <1>3 DEF SetStatus, Request
  <2>. QED BY <1>1, <2>1
<1>4. CASE HandleReview(c, t)
  <2>1. /\ work[c] = <<>>
        /\ \/ Start(c, <<Transition(t, "done", FALSE)>>)
           \/ Start(c, <<Transition(t, "in_progress", FALSE)>>)
    BY <1>4 DEF HandleReview, Request
  <2>. QED BY <1>1, <2>1
<1>5. ASSUME NEW summary \in BOOLEAN, MarkCompleted(c, t, summary) PROVE Begun
  <2>1. work[c] = <<>> /\ Start(c, <<Transition(t, "completed", summary)>>)
    BY <1>5 DEF MarkCompleted, Request
  <2>. QED BY <1>1, <2>1
<1>6. CASE checkStuckTasks(c, t)
  <2>1. work[c] = <<>> /\ Start(c, <<Transition(t, "stuck", FALSE)>>)
    BY <1>6 DEF checkStuckTasks, Request
  <2>. QED BY <1>1, <2>1
<1>7. CASE Delete(c, t) \/ Restore(c, t)
  BY <1>7 DEF Delete, Restore
<1>. QED BY <1>2, <1>3, <1>4, <1>5, <1>6, <1>7

LEMMA ShapeStep == IInv /\ ShapeInv /\ [Next]_vars => ShapeInv'
<1>. SUFFICES ASSUME IInv, ShapeInv, [Next]_vars, NEW d \in Callers PROVE Shape(work'[d])
  BY DEF ShapeInv
<1>1. Shape(work[d])
  BY DEF ShapeInv
<1>2. ASSUME NEW c \in Callers, ServiceStep(c) PROVE Shape(work'[d])
  BY <1>1, <1>2, StepShape, OthersStay
<1>3. CASE Requests
  <2>1. CASE UNCHANGED work
    BY <1>1, <2>1
  <2>2. ASSUME NEW c \in Callers, NEW x, work' = [work EXCEPT ![c] = <<x>>], x.op = "transition"
        PROVE  Shape(work'[d])
    <3>1. Shape(<<x>>)
      BY <2>2, TidyShort, Shapes DEF LaterNames
    <3>2. work'[d] = IF d = c THEN <<x>> ELSE work[d]
      BY <2>2 DEF IInv
    <3>. QED BY <1>1, <3>1, <3>2
  <2>. QED BY <1>3, <2>1, <2>2, RequestBegins
<1>4. CASE Restart
  <2>1. work'[d] = <<>>
    BY <1>4 DEF Restart
  <2>. QED BY <2>1, TidyShort, Shapes
<1>5. CASE UNCHANGED vars
  BY <1>1, <1>5 DEF vars
<1>. QED BY <1>2, <1>3, <1>4, <1>5 DEF Next, Environment

LEMMA SpecShape == Spec => []ShapeInv
<1>1. Init => ShapeInv
  BY TidyShort, Shapes DEF Init, ShapeInv
<1>. QED BY <1>1, ShapeStep, SpecInv, PTL DEF Spec

-----------------------------------------------------------------------------
(* One active entry for a task and an agent.                               *)

Unique(q) == \A i, j \in DOMAIN q :
               (/\ Active(q[i]) /\ Active(q[j])
                /\ q[i].task = q[j].task /\ q[i].agent = q[j].agent) => i = j

\* Whoever inserts an entry has looked, and nobody releases what is not held back.
Looked(ops, q) ==
    ops # <<>> => /\ Head(ops).op # "release"
                  /\ Head(ops).op = "insert" => ~ActiveFor(q, Head(ops).task, Head(ops).agent)

EntryInv == /\ Serial
            /\ \A t \in Tasks : task[t].pending = <<>>
            /\ Unique(queue)
            /\ \A c \in Callers : Looked(work[c], queue)

LEMMA AfterStep ==
    ASSUME IInv, NEW c \in Callers, ServiceStep(c)
    PROVE  work'[c] \in Seq(SoundOps) /\ IInv'
<1>1. IInv'
  BY NextInv DEF Next
<1>. QED BY <1>1 DEF IInv

LEMMA TidyHead ==
    ASSUME NEW S, NEW q \in Seq(S), Tidy(q), q # <<>>
    PROVE  Head(q).op \in LaterNames \cup {"dropLoad"}
BY TidyTail

\* The actions that write the queue.
LEMMA QueueWriters ==
    ASSUME NEW c, ServiceStep(c)
    PROVE  UNCHANGED queue \/ insertQueueEntry(c) \/ processPendingActions(c) \/ failEntriesOfTask(c)
BY DEF ServiceStep, readTaskSnapshot, resolveCompletionTarget, writeStatus, tryAutoDispatch,
       createReviewQueue, bumpLoad, readPendingActions, dropLoadOfTask, countLoop,
       enterOnTaskCompleted, Gathers, gatherDAGTransitions, checkDependents, checkSiblings,
       readParent, applyDAGTransitions, leaveOnTaskCompleted, evaluateRules, assignUser

LEMMA PendingStays ==
    ASSUME IInv, NEW c \in Callers, ServiceStep(c), ~Doing(c, "release"), NEW t \in Tasks
    PROVE  task'[t].pending = task[t].pending
<1>1. task \in [Tasks -> Rows]
  BY DEF IInv, Tables
<1>2. CASE writeStatus(c)
  <2>1. ASSUME NEW u, NEW v, task' = [task EXCEPT ![u].status = v]
        PROVE  task'[t].pending = task[t].pending
    BY <1>1, <2>1 DEF Rows
  <2>. QED BY <1>2, <2>1 DEF writeStatus
<1>3. CASE countLoop(c)
  <2>1. ASSUME NEW u, NEW v, task' = [task EXCEPT ![u].loops = v]
        PROVE  task'[t].pending = task[t].pending
    BY <1>1, <2>1 DEF Rows
  <2>. QED BY <1>3, <2>1 DEF countLoop
<1>4. CASE assignUser(c)
  <2>1. ASSUME NEW u, task' = [task EXCEPT ![u].assignee = NoAgent]
        PROVE  task'[t].pending = task[t].pending
    BY <1>1, <2>1 DEF Rows
  <2>. QED BY <1>4, <2>1 DEF assignUser
<1>5. CASE UNCHANGED task
  BY <1>5
<1>6. ~processPendingActions(c)
  BY DEF processPendingActions
<1>. QED BY <1>2, <1>3, <1>4, <1>5, <1>6
     DEF ServiceStep, readTaskSnapshot, resolveCompletionTarget, tryAutoDispatch,
         createReviewQueue, insertQueueEntry, bumpLoad, readPendingActions, dropLoadOfTask,
         failEntriesOfTask, enterOnTaskCompleted, Gathers, gatherDAGTransitions, checkDependents,
         checkSiblings, readParent, applyDAGTransitions, leaveOnTaskCompleted, evaluateRules

LEMMA UniqueStep ==
    ASSUME IInv, NEW c \in Callers, ServiceStep(c), Unique(queue), Looked(work[c], queue)
    PROVE  Unique(queue')
<1>1. queue \in Seq(Entries)
  BY DEF IInv, Tables
<1>2. CASE insertQueueEntry(c)
  <2>. DEFINE o == Head(work[c])
              e == [task |-> o.task, agent |-> o.agent, status |-> "queued"]
              n == Len(queue)
  <2>1. queue' = Append(queue, e) /\ ~ActiveFor(queue, o.task, o.agent)
    BY <1>2 DEF insertQueueEntry, Doing, Looked
  <2>2. n \in Nat /\ DOMAIN queue = 1 .. n
    BY <1>1, LenProperties
  <2>3. DOMAIN queue' = 1 .. (n + 1) /\ queue'[n + 1] = e /\ \A i \in 1 .. n : queue'[i] = queue[i]
    BY <1>1, <2>1, <2>2
  <2>4. \A i \in 1 .. n : ~(Active(queue[i]) /\ queue[i].task = e.task /\ queue[i].agent = e.agent)
    BY <2>1, <2>2 DEF ActiveFor
  <2>. HIDE DEF e, n
  <2>5. ASSUME NEW i \in 1 .. (n + 1), NEW j \in 1 .. (n + 1),
               Active(queue'[i]), Active(queue'[j]),
               queue'[i].task = queue'[j].task, queue'[i].agent = queue'[j].agent
        PROVE  i = j
    <3>1. CASE i \in 1 .. n /\ j \in 1 .. n
      BY <2>2, <2>3, <2>5, <3>1 DEF Unique
    <3>2. CASE i = n + 1 /\ j \in 1 .. n
      BY <2>3, <2>4, <2>5, <3>2
    <3>3. CASE i \in 1 .. n /\ j = n + 1
      BY <2>3, <2>4, <2>5, <3>3
    <3>. QED BY <2>2, <3>1, <3>2, <3>3
  <2>. QED BY <2>3, <2>5 DEF Unique
<1>3. CASE failEntriesOfTask(c)
  <2>1. queue' = FailActive(queue, Head(work[c]).task)
    BY <1>3 DEF failEntriesOfTask
  <2>2. /\ DOMAIN queue' = DOMAIN queue
        /\ \A i \in DOMAIN queue : Active(queue'[i]) => queue'[i] = queue[i]
    BY <2>1 DEF FailActive, Active, ActiveStatuses
  <2>. QED BY <2>2 DEF Unique
<1>4. ~processPendingActions(c)
  BY DEF processPendingActions, Doing, Looked
<1>5. CASE UNCHANGED queue
  BY <1>5
<1>. QED BY <1>2, <1>3, <1>4, <1>5, QueueWriters

LEMMA LookedStep ==
    ASSUME IInv, ShapeInv, NEW c \in Callers, ServiceStep(c),
           \A t \in Tasks : task[t].pending = <<>>
    PROVE  Looked(work'[c], queue')
<1>1. work'[c] \in Seq(SoundOps)
  BY AfterStep
<1>2. ASSUME Tidy(work'[c]) PROVE Looked(work'[c], queue')
  BY <1>1, <1>2, TidyHead DEF Looked, LaterNames
<1>3. ASSUME NEW x, First(work'[c], x), x.op \notin {"release", "insert"} PROVE Looked(work'[c], queue')
  BY <1>3 DEF Looked, First
<1>4. CASE readTaskSnapshot(c)
  BY <1>2, <1>3, <1>4, readTaskSnapshotNext
<1>5. CASE resolveCompletionTarget(c)
  BY <1>3, <1>5, resolveCompletionTargetNext
<1>6. CASE writeStatus(c)
  BY <1>2, <1>3, <1>6, writeStatusNext
<1>7. CASE tryAutoDispatch(c) \/ createReviewQueue(c)
  <2>1. UNCHANGED queue
    BY <1>7 DEF tryAutoDispatch, createReviewQueue
  <2>2. ASSUME NEW t, NEW a, Inserts(work'[c], t, a), ~ActiveFor(queue, t, a)
        PROVE  Looked(work'[c], queue')
    BY <2>1, <2>2 DEF Looked, Inserts, ForAgent
  <2>. QED BY <1>2, <1>7, <2>2, dispatchNext
<1>8. CASE insertQueueEntry(c)
  BY <1>3, <1>8, insertQueueEntryNext
<1>9. CASE readPendingActions(c)
  <2>1. Head(work[c]).task \in Tasks
    <3>1. Head(work[c]) \in TaskOps
      BY <1>9, HeadsAreSound, HeadIsSound, OpTypes DEF readPendingActions, Doing
    <3>. QED BY <3>1 DEF TaskOps
  <2>. QED BY <1>2, <1>9, <2>1, readPendingActionsNext
<1>10. CASE dropLoadOfTask(c)
  BY <1>3, <1>10, dropLoadOfTaskNext DEF On
<1>11. CASE bumpLoad(c) \/ processPendingActions(c) \/ failEntriesOfTask(c)
              \/ leaveOnTaskCompleted(c) \/ assignUser(c)
  BY <1>2, <1>11, overNext
<1>12. CASE countLoop(c)
  BY <1>2, <1>12, countLoopNext
<1>13. CASE enterOnTaskCompleted(c) \/ Gathers(c) \/ applyDAGTransitions(c)
              \/ evaluateRules(c)
  BY <1>2, <1>13, enterOnTaskCompletedNext, GathersNext, applyDAGTransitionsNext,
     evaluateRulesNext
<1>. QED BY <1>4, <1>5, <1>6, <1>7, <1>8, <1>9, <1>10, <1>11, <1>12, <1>13 DEF ServiceStep, Gathers

\* A request changes at most whether a task is in the trash, and that only between two operations.
LEMMA RequestsKeep ==
    ASSUME IInv, Requests
    PROVE  /\ UNCHANGED <<queue, load>>
           /\ \A t \in Tasks : /\ task'[t].pending = task[t].pending
                               /\ task'[t].status = task[t].status
                               /\ task'[t].loops = task[t].loops
           /\ UNCHANGED task \/ (UNCHANGED work /\ \E c \in Callers : work[c] = <<>>)
<1>1. task \in [Tasks -> Rows]
  BY DEF IInv, Tables
<1>. DEFINE Kept == /\ UNCHANGED <<queue, load>>
                    /\ \A t \in Tasks : /\ task'[t].pending = task[t].pending
                                        /\ task'[t].status = task[t].status
                                        /\ task'[t].loops = task[t].loops
                    /\ UNCHANGED task \/ (UNCHANGED work /\ \E c \in Callers : work[c] = <<>>)
<1>2. ASSUME UNCHANGED <<task, queue, load>> PROVE Kept
  BY <1>2
<1>3. PICK c \in Callers, t \in Tasks :
         \/ \E to \in UserStatuses : SetStatus(c, t, to)
         \/ HandleReview(c, t)
         \/ \E summary \in BOOLEAN : MarkCompleted(c, t, summary)
         \/ checkStuckTasks(c, t)
         \/ Delete(c, t)
         \/ Restore(c, t)
  BY DEF Requests
<1>4. ASSUME NEW b, task' = [task EXCEPT ![t].deleted = b], UNCHANGED <<queue, load, work>>,
             work[c] = <<>>
      PROVE  Kept
  <2>1. \A u \in Tasks : /\ task'[u].pending = task[u].pending
                         /\ task'[u].status = task[u].status
                         /\ task'[u].loops = task[u].loops
    BY <1>1, <1>4 DEF Rows
  <2>. QED BY <1>4, <2>1
<1>5. CASE Delete(c, t)
  BY <1>4, <1>5 DEF Delete, Request
<1>6. CASE Restore(c, t)
  BY <1>4, <1>6 DEF Restore, Request
<1>7. ASSUME NEW to \in UserStatuses, SetStatus(c, t, to) PROVE Kept
  <2>1. UNCHANGED <<task, queue, load>>
    BY <1>7 DEF SetStatus, Start
  <2>. QED BY <1>2, <2>1
<1>8. CASE HandleReview(c, t)
  <2>1. UNCHANGED <<task, queue, load>>
    BY <1>8 DEF HandleReview, Start
  <2>. QED BY <1>2, <2>1
<1>9. ASSUME NEW summary \in BOOLEAN, MarkCompleted(c, t, summary) PROVE Kept
  <2>1. UNCHANGED <<task, queue, load>>
    BY <1>9 DEF MarkCompleted, Start
  <2>. QED BY <1>2, <2>1
<1>10. CASE checkStuckTasks(c, t)
  <2>1. UNCHANGED <<task, queue, load>>
    BY <1>10 DEF checkStuckTasks, Start
  <2>. QED BY <1>2, <2>1
<1>. QED BY <1>3, <1>5, <1>6, <1>7, <1>8, <1>9, <1>10

LEMMA OnlyCaller ==
    ASSUME Serial, NEW c \in Callers, NEW d \in Callers PROVE d = c
BY DEF Serial

LEMMA EntryStep == IInv /\ ShapeInv /\ EntryInv /\ [Next]_vars => EntryInv'
<1>. SUFFICES ASSUME IInv, ShapeInv, EntryInv, [Next]_vars PROVE EntryInv'
  OBVIOUS
<1>1. Serial /\ Unique(queue) /\ (\A t \in Tasks : task[t].pending = <<>>)
      /\ \A c \in Callers : Looked(work[c], queue)
  BY DEF EntryInv
<1>2. ASSUME NEW c \in Callers, ServiceStep(c) PROVE EntryInv'
  <2>1. Unique(queue')
    BY <1>1, <1>2, UniqueStep
  <2>2. ~Doing(c, "release")
    BY <1>1 DEF Looked, Doing
  <2>3. \A t \in Tasks : task'[t].pending = <<>>
    BY <1>1, <1>2, <2>2, PendingStays
  <2>4. Looked(work'[c], queue')
    BY <1>1, <1>2, LookedStep
  <2>5. \A d \in Callers : d = c
    BY <1>1, OnlyCaller
  <2>6. \A d \in Callers : Looked(work'[d], queue')
    BY <2>4, <2>5
  <2>. QED BY <1>1, <2>1, <2>3, <2>6 DEF EntryInv
<1>3. CASE Requests
  <2>1. queue' = queue /\ \A t \in Tasks : task'[t].pending = <<>>
    BY <1>1, <1>3, RequestsKeep
  <2>2. \A d \in Callers : Looked(work'[d], queue)
    <3>1. CASE UNCHANGED work
      BY <1>1, <3>1
    <3>2. ASSUME NEW c \in Callers, NEW x, work' = [work EXCEPT ![c] = <<x>>], x.op = "transition",
                 NEW d \in Callers
          PROVE  Looked(work'[d], queue)
      <4>1. Looked(<<x>>, queue)
        BY <3>2 DEF Looked
      <4>2. work'[d] = IF d = c THEN <<x>> ELSE work[d]
        BY <3>2 DEF IInv
      <4>. QED BY <1>1, <4>1, <4>2
    <3>. QED BY <1>3, <3>1, <3>2, RequestBegins
  <2>. QED BY <1>1, <2>1, <2>2 DEF EntryInv
<1>4. CASE Restart
  <2>1. queue' = queue /\ task' = task /\ \A d \in Callers : work'[d] = <<>>
    BY <1>4 DEF Restart
  <2>2. \A d \in Callers : Looked(work'[d], queue')
    BY <2>1 DEF Looked
  <2>. QED BY <1>1, <2>1, <2>2 DEF EntryInv
<1>5. CASE UNCHANGED vars
  <2>1. queue' = queue /\ task' = task /\ work' = work
    BY <1>5 DEF vars
  <2>. QED BY <1>1, <2>1 DEF EntryInv
<1>. QED BY <1>2, <1>3, <1>4, <1>5 DEF Next, Environment

LEMMA EntryInit == Serial /\ NoneHeldBack /\ Init => EntryInv
<1>. SUFFICES ASSUME Serial, NoneHeldBack, Init PROVE EntryInv
  OBVIOUS
<1>1. queue = <<>> /\ task = InitRow /\ \A c \in Callers : work[c] = <<>>
  BY DEF Init
<1>2. Unique(queue)
  BY <1>1 DEF Unique
<1>3. \A c \in Callers : Looked(work[c], queue)
  BY <1>1 DEF Looked
<1>. QED BY <1>1, <1>2, <1>3 DEF EntryInv, NoneHeldBack

LEMMA SpecEntry == Serial /\ NoneHeldBack /\ Spec => []EntryInv
<1>. QED BY EntryInit, EntryStep, SpecInv, SpecShape, PTL DEF Spec

LEMMA UniqueIsOne ==
    ASSUME NEW t, NEW a, queue \in Seq(Entries), Unique(queue)
    PROVE  Cardinality(ActiveEntries(t, a)) <= 1
<1>1. \A i, j \in ActiveEntries(t, a) : i = j
  BY DEF ActiveEntries, Unique
<1>2. CASE ActiveEntries(t, a) = {}
  BY <1>2, FS_EmptySet
<1>3. ASSUME NEW i \in ActiveEntries(t, a) PROVE Cardinality(ActiveEntries(t, a)) <= 1
  <2>1. ActiveEntries(t, a) = {i}
    BY <1>1
  <2>2. Cardinality({i}) = 1
    BY FS_Singleton
  <2>. QED BY <2>1, <2>2
<1>. QED BY <1>2, <1>3

\* Requests that do not overlap never queue a task twice for the same agent,
\* whatever the rules and the DAG engine make of them and however often the
\* server is restarted between two operations: nothing comes between the look
\* of tryAutoDispatch and createReviewQueue and their insert.
THEOREM SerialOneActiveEntry == Serial /\ NoneHeldBack /\ Spec => []OneActiveEntry
<1>1. IInv /\ EntryInv => OneActiveEntry
  BY UniqueIsOne DEF OneActiveEntry, EntryInv, IInv, Tables
<1>. QED BY <1>1, SpecEntry, SpecInv, PTL

-----------------------------------------------------------------------------
(* The count of rejections and its limit.                                  *)

\* What the operation at the head was made from is still what the table holds.
Current(ops, tk) ==
    ops # <<>> =>
      LET o == Head(ops) IN
      /\ o.op \in {"resolve", "write"} => /\ ~tk[o.task].deleted
                                          /\ o.snap.status = tk[o.task].status
                                          /\ o.snap.loops = tk[o.task].loops
      /\ o.op = "loops" => ~tk[o.task].deleted /\ o.count = tk[o.task].loops + 1

Counts(ops, t) == ops # <<>> /\ Head(ops).op = "loops" /\ Head(ops).task = t

\* What is next stops t.
Stops(ops, tk, t) ==
    \/ Counts(ops, t)
    \/ /\ ops # <<>> /\ Head(ops).op \in {"transition", "write"}
       /\ Head(ops).task = t /\ Head(ops).to = "stuck" /\ ~tk[t].deleted

Counted(ops, tk, rej) ==
    \A t \in Tasks : rej[t] = tk[t].loops + (IF Counts(ops, t) THEN 1 ELSE 0)

Limited(ops, tk, ret) ==
    \A t \in Tasks : t \in ret => /\ tk[t].status = "in_progress"
                                  /\ tk[t].loops >= MaxLoops => Stops(ops, tk, t)

LimitInv == /\ Serial /\ NoCrash
            /\ \A c \in Callers : Current(work[c], task) /\ Limited(work[c], task, returned)

CountInv == LimitInv /\ \A c \in Callers : Counted(work[c], task, rejections)

\* What MCNext records.
Records == /\ rejections' = [t \in Tasks |-> IF Moved(t, "review", "in_progress")
                                             THEN rejections[t] + 1 ELSE rejections[t]]
           /\ returned' = {t \in Tasks : IF task'[t].status = task[t].status THEN t \in returned
                                          ELSE Moved(t, "review", "in_progress")}

\* The operations that no longer depend on what was read.
Plain(ops) == ops # <<>> => Head(ops).op \notin {"resolve", "write", "loops"}

LEMMA PlainIsCurrent ==
    ASSUME NEW ops, Plain(ops), NEW tk
    PROVE  Current(ops, tk) /\ \A t : ~Counts(ops, t)
BY DEF Plain, Current, Counts

LEMMA TidyIsPlain ==
    ASSUME NEW ops \in Seq(SoundOps), Tidy(ops) PROVE Plain(ops)
BY TidyHead DEF Plain, LaterNames

LEMMA PlainNext ==
    ASSUME IInv, ShapeInv, NEW c \in Callers, ServiceStep(c),
           ~readTaskSnapshot(c), ~resolveCompletionTarget(c), ~writeStatus(c)
    PROVE  Plain(work'[c])
<1>1. work'[c] \in Seq(SoundOps)
  BY AfterStep
<1>2. ASSUME Tidy(work'[c]) PROVE Plain(work'[c])
  BY <1>1, <1>2, TidyIsPlain
<1>3. ASSUME NEW x, First(work'[c], x), x.op \notin {"resolve", "write", "loops"} PROVE Plain(work'[c])
  BY <1>3 DEF Plain, First
<1>4. CASE tryAutoDispatch(c) \/ createReviewQueue(c)
  <2>1. ASSUME NEW t, NEW a, Inserts(work'[c], t, a) PROVE Plain(work'[c])
    BY <2>1 DEF Plain, Inserts, ForAgent
  <2>. QED BY <1>2, <1>4, <2>1, dispatchNext
<1>5. CASE insertQueueEntry(c)
  BY <1>3, <1>5, insertQueueEntryNext
<1>6. CASE readPendingActions(c)
  BY <1>2, <1>3, <1>6, readPendingActionsNext
<1>7. CASE dropLoadOfTask(c)
  BY <1>3, <1>7, dropLoadOfTaskNext DEF On
<1>8. CASE bumpLoad(c) \/ processPendingActions(c) \/ failEntriesOfTask(c)
             \/ leaveOnTaskCompleted(c) \/ assignUser(c)
  BY <1>2, <1>8, overNext
<1>9. CASE countLoop(c)
  BY <1>2, <1>9, countLoopNext
<1>10. CASE enterOnTaskCompleted(c) \/ Gathers(c) \/ applyDAGTransitions(c)
              \/ evaluateRules(c)
  BY <1>2, <1>10, enterOnTaskCompletedNext, GathersNext, applyDAGTransitionsNext,
     evaluateRulesNext
<1>. QED BY <1>4, <1>5, <1>6, <1>7, <1>8, <1>9, <1>10 DEF ServiceStep, Gathers

\* The columns that count, and the operations that write them.
LEMMA RowsStep ==
    ASSUME IInv, NEW c \in Callers, ServiceStep(c), NEW t \in Tasks
    PROVE  /\ task'[t].deleted = task[t].deleted
           /\ task'[t].status = task[t].status
                \/ (writeStatus(c) /\ t = Head(work[c]).task)
           /\ task'[t].loops = IF countLoop(c) /\ t = Head(work[c]).task
                               THEN Head(work[c]).count ELSE task[t].loops
<1>1. task \in [Tasks -> Rows]
  BY DEF IInv, Tables
<1>. DEFINE Kept == /\ task'[t].deleted = task[t].deleted
                    /\ task'[t].status = task[t].status
                    /\ task'[t].loops = task[t].loops
<1>2. CASE writeStatus(c)
  <2>1. ASSUME NEW u, NEW v, task' = [task EXCEPT ![u].status = v]
        PROVE  /\ task'[t].deleted = task[t].deleted
               /\ task'[t].loops = task[t].loops
               /\ t # u => task'[t].status = task[t].status
    BY <1>1, <2>1 DEF Rows
  <2>2. ~countLoop(c)
    BY <1>2 DEF writeStatus, countLoop, Doing
  <2>. QED BY <1>2, <2>1, <2>2 DEF writeStatus
<1>3. CASE countLoop(c)
  <2>1. ASSUME NEW u, NEW v, task' = [task EXCEPT ![u].loops = v]
        PROVE  /\ task'[t].deleted = task[t].deleted
               /\ task'[t].status = task[t].status
               /\ task'[t].loops = IF t = u THEN v ELSE task[t].loops
    BY <1>1, <2>1 DEF Rows
  <2>. QED BY <1>3, <2>1 DEF countLoop
<1>4. CASE processPendingActions(c)
  <2>1. ASSUME NEW u, NEW v, NEW w,
               task' = [task EXCEPT ![u].pending = v, ![u].assignee = w]
        PROVE  Kept
    BY <1>1, <2>1 DEF Rows
  <2>2. ~countLoop(c)
    BY <1>4 DEF processPendingActions, countLoop, Doing
  <2>. QED BY <1>4, <2>1, <2>2 DEF processPendingActions
<1>5. CASE assignUser(c)
  <2>1. ASSUME NEW u, NEW w, task' = [task EXCEPT ![u].assignee = w]
        PROVE  Kept
    BY <1>1, <2>1 DEF Rows
  <2>2. ~countLoop(c)
    BY <1>5 DEF assignUser, countLoop, Doing
  <2>. QED BY <1>5, <2>1, <2>2 DEF assignUser
<1>6. CASE UNCHANGED task /\ ~countLoop(c)
  BY <1>6
<1>. QED BY <1>2, <1>3, <1>4, <1>5, <1>6
     DEF ServiceStep, readTaskSnapshot, resolveCompletionTarget, tryAutoDispatch,
         createReviewQueue, insertQueueEntry, bumpLoad, readPendingActions, dropLoadOfTask,
         failEntriesOfTask, enterOnTaskCompleted, Gathers, gatherDAGTransitions, checkDependents,
         checkSiblings, readParent, applyDAGTransitions, leaveOnTaskCompleted, evaluateRules

LEMMA HeadDecides ==
    ASSUME NEW c, ServiceStep(c)
    PROVE  /\ Head(work[c]).op = "transition" => readTaskSnapshot(c)
           /\ Head(work[c]).op = "write" => writeStatus(c)
           /\ Head(work[c]).op = "loops" => countLoop(c)
BY DEF ServiceStep, readTaskSnapshot, resolveCompletionTarget, writeStatus, tryAutoDispatch,
       createReviewQueue, insertQueueEntry, bumpLoad, readPendingActions, processPendingActions,
       dropLoadOfTask, failEntriesOfTask, countLoop, enterOnTaskCompleted, Gathers,
       gatherDAGTransitions, checkDependents, checkSiblings, readParent, applyDAGTransitions,
       leaveOnTaskCompleted, evaluateRules, assignUser, Doing

\* A status that stays leaves no record.
LEMMA NoRecord ==
    ASSUME Records, NEW t \in Tasks, task'[t].status = task[t].status
    PROVE  rejections'[t] = rejections[t] /\ (t \in returned' <=> t \in returned)
<1>1. ~Moved(t, "review", "in_progress")
  BY DEF Moved
<1>. QED BY <1>1 DEF Records

LEMMA readCurrent ==
    ASSUME IInv, ShapeInv, NEW c \in Callers, readTaskSnapshot(c), Limited(work[c], task, returned)
    PROVE  Current(work'[c], task) /\ Limited(work'[c], task, returned) /\ \A t : ~Counts(work'[c], t)
<1>. DEFINE o == Head(work[c])
            row == task[o.task]
<1>1. work[c] # <<>> /\ o.op = "transition"
  BY DEF readTaskSnapshot, Doing
<1>2. \A t \in Tasks : t \in returned /\ task[t].loops >= MaxLoops
         => t = o.task /\ o.to = "stuck" /\ ~row.deleted /\ row.status = "in_progress"
  <2>. SUFFICES ASSUME NEW t \in Tasks, t \in returned, task[t].loops >= MaxLoops
                PROVE  t = o.task /\ o.to = "stuck" /\ ~row.deleted /\ row.status = "in_progress"
    OBVIOUS
  <2>1. Stops(work[c], task, t) /\ task[t].status = "in_progress"
    BY DEF Limited
  <2>2. t = o.task /\ o.to = "stuck" /\ ~task[t].deleted
    BY <1>1, <2>1, Zenon DEF Stops, Counts
  <2>. QED BY <2>1, <2>2
<1>3. transitionValid("in_progress", "stuck")
  BY DEF transitionValid, Transitions
<1>4. CASE Tidy(work'[c]) /\ (row.deleted \/ row.status = o.to \/ ~transitionValid(row.status, o.to))
  <2>1. Plain(work'[c])
    BY <1>4, AfterStep, TidyIsPlain DEF ServiceStep, Gathers
  <2>2. \A t \in Tasks : ~(t \in returned /\ task[t].loops >= MaxLoops)
    BY <1>2, <1>3, <1>4
  <2>3. Limited(work'[c], task, returned)
    BY <2>2 DEF Limited
  <2>. QED BY <2>1, <2>3, PlainIsCurrent
<1>5. ASSUME ~row.deleted,
             NEW x, First(work'[c], x), x.op \in {"resolve", "write"}, x.task = o.task,
             x.snap.status = row.status, x.snap.loops = row.loops,
             o.to # "completed" => x.op = "write" /\ x.to = o.to
      PROVE  Current(work'[c], task) /\ Limited(work'[c], task, returned) /\ \A t : ~Counts(work'[c], t)
  <2>1. work'[c] # <<>> /\ Head(work'[c]) = x
    BY <1>5 DEF First
  <2>2. Current(work'[c], task) /\ \A t : ~Counts(work'[c], t)
    BY <1>5, <2>1 DEF Current, Counts
  <2>3. ASSUME NEW t \in Tasks, t \in returned, task[t].loops >= MaxLoops
        PROVE  Stops(work'[c], task, t)
    BY <1>2, <1>5, <2>1, <2>3 DEF Stops
  <2>. QED BY <2>2, <2>3 DEF Limited
<1>. QED BY <1>4, <1>5, readTaskSnapshotNext

LEMMA resolveCurrent ==
    ASSUME IInv, ShapeInv, NEW c \in Callers, resolveCompletionTarget(c),
           Current(work[c], task), Limited(work[c], task, returned)
    PROVE  Current(work'[c], task) /\ Limited(work'[c], task, returned) /\ \A t : ~Counts(work'[c], t)
<1>1. work[c] # <<>> /\ Head(work[c]).op = "resolve"
  BY DEF resolveCompletionTarget, Doing
<1>2. PICK x : /\ First(work'[c], x) /\ x.op = "write" /\ x.task = Head(work[c]).task
               /\ x.snap = Head(work[c]).snap
  BY resolveCompletionTargetNext
<1>3. work'[c] # <<>> /\ Head(work'[c]) = x
  BY <1>2 DEF First
<1>4. Current(work'[c], task) /\ \A t : ~Counts(work'[c], t)
  BY <1>1, <1>2, <1>3 DEF Current, Counts
<1>5. Limited(work'[c], task, returned)
  BY <1>1 DEF Limited, Stops, Counts
<1>. QED BY <1>4, <1>5

\* The write is never lost, and a rejection is followed by its count.
LEMMA writeCurrent ==
    ASSUME IInv, ShapeInv, Records, NEW c \in Callers, writeStatus(c),
           Current(work[c], task), Limited(work[c], task, returned)
    PROVE  /\ Current(work'[c], task') /\ Limited(work'[c], task', returned')
           /\ Counted(work[c], task, rejections) => Counted(work'[c], task', rejections')
<1>. DEFINE o == Head(work[c])
            rejected == o.snap.status = "review" /\ o.to = "in_progress"
            loops == [op |-> "loops", task |-> o.task, agent |-> o.snap.assignee,
                      count |-> o.snap.loops + 1]
<1>1. work[c] # <<>> /\ o.op = "write" /\ o.task \in Tasks
  <2>1. work[c] # <<>> /\ o.op = "write"
    BY DEF writeStatus, Doing
  <2>2. o \in WriteOps
    BY <2>1, HeadsAreSound, HeadIsSound, OpTypes
  <2>. QED BY <2>1, <2>2 DEF WriteOps
<1>2. /\ ~task[o.task].deleted /\ o.snap.status = task[o.task].status
      /\ o.snap.loops = task[o.task].loops
  BY <1>1 DEF Current
<1>3. Unmodified(o.task, o.snap)
  BY <1>2 DEF Unmodified
<1>4. task' = [task EXCEPT ![o.task].status = o.to]
  BY <1>3 DEF writeStatus
<1>5. /\ task'[o.task].status = o.to
      /\ \A t \in Tasks : /\ task'[t].deleted = task[t].deleted /\ task'[t].loops = task[t].loops
                          /\ t # o.task => task'[t].status = task[t].status
  <2>1. ASSUME NEW u \in Tasks, NEW v, task' = [task EXCEPT ![u].status = v]
        PROVE  /\ task'[u].status = v
               /\ \A t \in Tasks : /\ task'[t].deleted = task[t].deleted
                                   /\ task'[t].loops = task[t].loops
                                   /\ t # u => task'[t].status = task[t].status
    BY <2>1 DEF IInv, Tables, Rows
  <2>. QED BY <1>1, <1>4, <2>1
<1>6. IF rejected THEN First(work'[c], loops) ELSE Tidy(work'[c])
  BY <1>3, writeStatusNext
<1>7. \A t \in Tasks : Counts(work'[c], t) <=> rejected /\ t = o.task
  <2>1. CASE rejected
    BY <1>6, <2>1 DEF First, Counts
  <2>2. CASE ~rejected
    <3>1. Plain(work'[c])
      BY <1>6, <2>2, AfterStep, TidyIsPlain DEF ServiceStep, Gathers
    <3>. QED BY <2>2, <3>1, PlainIsCurrent
  <2>. QED BY <2>1, <2>2
<1>8. Current(work'[c], task')
  <2>1. CASE rejected
    <3>1. work'[c] # <<>> /\ Head(work'[c]) = loops
      BY <1>6, <2>1 DEF First
    <3>. QED BY <1>1, <1>2, <1>5, <3>1 DEF Current
  <2>2. CASE ~rejected
    <3>1. Plain(work'[c])
      BY <1>6, <2>2, AfterStep, TidyIsPlain DEF ServiceStep, Gathers
    <3>. QED BY <3>1, PlainIsCurrent
  <2>. QED BY <2>1, <2>2
<1>9. \A t \in Tasks : Moved(t, "review", "in_progress") <=> rejected /\ t = o.task
  BY <1>1, <1>2, <1>5 DEF Moved
<1>10. \A t \in Tasks : ~Counts(work[c], t)
  BY <1>1 DEF Counts
<1>. HIDE DEF rejected, loops, o
<1>11. ASSUME NEW t \in Tasks, t \in returned'
       PROVE  /\ task'[t].status = "in_progress"
              /\ task'[t].loops >= MaxLoops => Stops(work'[c], task', t)
  <2>1. CASE task'[t].status = task[t].status
    <3>0. t \in returned
      BY <1>11, <2>1, NoRecord
    <3>1. t \in returned /\ task[t].status = "in_progress"
      BY <3>0 DEF Limited
    <3>2. ~(task[t].loops >= MaxLoops)
      <4>1. SUFFICES ASSUME task[t].loops >= MaxLoops PROVE FALSE
        OBVIOUS
      <4>2. Stops(work[c], task, t)
        BY <3>1, <4>1 DEF Limited
      <4>3. t = o.task /\ o.to = "stuck"
        BY <1>1, <1>10, <4>2 DEF Stops, o
      <4>. QED BY <1>5, <2>1, <3>1, <4>3
    <3>. QED BY <1>5, <2>1, <3>1, <3>2
  <2>2. CASE task'[t].status # task[t].status
    <3>1. Moved(t, "review", "in_progress")
      BY <1>11, <2>2 DEF Records
    <3>2. Counts(work'[c], t)
      BY <1>7, <1>9, <3>1
    <3>. QED BY <3>1, <3>2 DEF Moved, Stops
  <2>. QED BY <2>1, <2>2
<1>12. ASSUME Counted(work[c], task, rejections), NEW t \in Tasks
       PROVE  rejections'[t] = task'[t].loops + (IF Counts(work'[c], t) THEN 1 ELSE 0)
  <2>1. rejections[t] = task[t].loops /\ task[t].loops \in Nat
    <3>1. task[t].loops \in Nat
      BY DEF IInv, Tables, Rows
    <3>. QED BY <1>10, <1>12, <3>1 DEF Counted
  <2>2. rejections'[t] = IF rejected /\ t = o.task THEN rejections[t] + 1 ELSE rejections[t]
    BY <1>9 DEF Records
  <2>. QED BY <1>5, <1>7, <2>1, <2>2
<1>. QED BY <1>8, <1>11, <1>12 DEF Limited, Counted

\* The count is saved, and what follows at the limit stops the task.
LEMMA countCurrent ==
    ASSUME IInv, ShapeInv, Records, NEW c \in Callers, countLoop(c),
           Current(work[c], task), Limited(work[c], task, returned)
    PROVE  /\ Current(work'[c], task') /\ Limited(work'[c], task', returned')
           /\ Counted(work[c], task, rejections) => Counted(work'[c], task', rejections')
<1>. DEFINE o == Head(work[c])
<1>1. work[c] # <<>> /\ o.op = "loops"
  BY DEF countLoop, Doing
<1>2. ~task[o.task].deleted /\ o.count = task[o.task].loops + 1
  BY <1>1 DEF Current
<1>3. \A t \in Tasks : /\ task'[t].deleted = task[t].deleted /\ task'[t].status = task[t].status
                       /\ task'[t].loops = IF t = o.task THEN o.count ELSE task[t].loops
  <2>1. ServiceStep(c) /\ ~writeStatus(c)
    BY DEF ServiceStep, countLoop, writeStatus, Doing
  <2>. QED BY <2>1, RowsStep
<1>4. Plain(work'[c])
  BY countLoopNext, AfterStep, TidyIsPlain DEF ServiceStep, Gathers
<1>5. \A t : Counts(work[c], t) <=> t = o.task
  BY <1>1 DEF Counts
<1>6. \A t : ~Counts(work'[c], t)
  BY <1>4, PlainIsCurrent
<1>. HIDE DEF o
<1>7. ASSUME NEW t \in Tasks, t \in returned'
      PROVE  /\ task'[t].status = "in_progress"
             /\ task'[t].loops >= MaxLoops => Stops(work'[c], task', t)
  <2>0. t \in returned
    BY <1>3, <1>7, NoRecord
  <2>1. task[t].status = "in_progress" /\ (task[t].loops >= MaxLoops => Stops(work[c], task, t))
    BY <2>0 DEF Limited
  <2>2. ASSUME t = o.task, task'[t].loops >= MaxLoops PROVE Stops(work'[c], task', t)
    <3>1. AtLimit(o.count)
      BY <1>3, <2>2 DEF AtLimit
    <3>2. work'[c] # <<>> /\ Head(work'[c]) = Transition(o.task, "stuck", FALSE)
      BY <3>1, countLoopNext DEF o
    <3>3. ~task'[t].deleted
      BY <1>2, <1>3, <2>2
    <3>. QED BY <2>2, <3>2, <3>3 DEF Stops, Transition
  <2>3. ASSUME t # o.task, task'[t].loops >= MaxLoops PROVE FALSE
    <3>1. Stops(work[c], task, t)
      BY <1>3, <2>1, <2>3
    <3>. QED BY <1>1, <1>5, <2>3, <3>1 DEF Stops, o
  <2>. QED BY <1>3, <2>1, <2>2, <2>3
<1>8. ASSUME Counted(work[c], task, rejections), NEW t \in Tasks
      PROVE  rejections'[t] = task'[t].loops + (IF Counts(work'[c], t) THEN 1 ELSE 0)
  <2>1. task[t].loops \in Nat
    BY DEF IInv, Tables, Rows
  <2>2. rejections[t] = task[t].loops + (IF t = o.task THEN 1 ELSE 0)
    BY <1>5, <1>8 DEF Counted
  <2>3. rejections'[t] = rejections[t]
    BY <1>3, NoRecord
  <2>. QED BY <1>2, <1>3, <1>6, <2>1, <2>2, <2>3
<1>9. Current(work'[c], task')
  BY <1>4, PlainIsCurrent
<1>. QED BY <1>7, <1>8, <1>9 DEF Limited, Counted

LEMMA StepLimited ==
    ASSUME IInv, ShapeInv, Records, NEW c \in Callers, ServiceStep(c),
           Current(work[c], task), Limited(work[c], task, returned)
    PROVE  /\ Current(work'[c], task') /\ Limited(work'[c], task', returned')
           /\ Counted(work[c], task, rejections) => Counted(work'[c], task', rejections')
<1>1. CASE writeStatus(c)
  BY <1>1, writeCurrent
<1>2. CASE countLoop(c)
  BY <1>2, countCurrent
<1>3. CASE ~writeStatus(c) /\ ~countLoop(c)
  <2>1. \A t \in Tasks : /\ task'[t].deleted = task[t].deleted /\ task'[t].status = task[t].status
                         /\ task'[t].loops = task[t].loops
    BY <1>3, RowsStep
  <2>2. \A t \in Tasks : rejections'[t] = rejections[t] /\ (t \in returned' <=> t \in returned)
    BY <2>1, NoRecord
  <2>3. \A t \in Tasks : ~Counts(work[c], t)
    BY <1>3, HeadDecides DEF Counts
  <2>4. /\ Current(work'[c], task') /\ Limited(work'[c], task, returned)
        /\ \A t \in Tasks : ~Counts(work'[c], t)
    <3>1. CASE readTaskSnapshot(c) \/ resolveCompletionTarget(c)
      <4>1. task' = task
        BY <3>1 DEF readTaskSnapshot, resolveCompletionTarget
      <4>. QED BY <3>1, <4>1, readCurrent, resolveCurrent
    <3>2. CASE ~readTaskSnapshot(c) /\ ~resolveCompletionTarget(c)
      <4>1. Plain(work'[c])
        BY <1>3, <3>2, PlainNext
      <4>2. Limited(work'[c], task, returned)
        BY <1>3, <2>3, <3>2, HeadDecides DEF Limited, Stops
      <4>. QED BY <4>1, <4>2, PlainIsCurrent
    <3>. QED BY <3>1, <3>2
  <2>5. Limited(work'[c], task', returned')
    <3>. SUFFICES ASSUME NEW t \in Tasks, t \in returned'
                  PROVE  /\ task'[t].status = "in_progress"
                         /\ task'[t].loops >= MaxLoops => Stops(work'[c], task', t)
      BY DEF Limited
    <3>1. t \in returned
      BY <2>2
    <3>2. task[t].status = "in_progress" /\ (task[t].loops >= MaxLoops => Stops(work'[c], task, t))
      BY <2>4, <3>1 DEF Limited
    <3>3. Stops(work'[c], task, t) => Stops(work'[c], task', t)
      BY <2>1 DEF Stops
    <3>. QED BY <2>1, <3>2, <3>3
  <2>6. ASSUME Counted(work[c], task, rejections) PROVE Counted(work'[c], task', rejections')
    BY <2>1, <2>2, <2>3, <2>4, <2>6 DEF Counted
  <2>. QED BY <2>4, <2>5, <2>6
<1>. QED BY <1>1, <1>2, <1>3

\* An idle goroutine owes nothing, and neither does one that begins.
LEMMA IdleLimited ==
    ASSUME NEW tk, NEW ret, Limited(<<>>, tk, ret), NEW tk1, NEW ret1, NEW ops, Plain(ops),
           \A t \in Tasks : /\ tk1[t].status = tk[t].status /\ tk1[t].loops = tk[t].loops
                            /\ (t \in ret1 <=> t \in ret)
    PROVE  Current(ops, tk1) /\ Limited(ops, tk1, ret1)
<1>1. \A t \in Tasks : t \in ret => tk[t].status = "in_progress" /\ ~(tk[t].loops >= MaxLoops)
  BY DEF Limited, Stops, Counts
<1>2. Limited(ops, tk1, ret1)
  BY <1>1 DEF Limited
<1>. QED BY <1>2, PlainIsCurrent

LEMMA RequestLimited ==
    ASSUME IInv, Serial, Records, Requests,
           \A c \in Callers : Current(work[c], task) /\ Limited(work[c], task, returned),
           NEW d \in Callers
    PROVE  /\ Current(work'[d], task') /\ Limited(work'[d], task', returned')
           /\ Counted(work[d], task, rejections) => Counted(work'[d], task', rejections')
<1>1. \A t \in Tasks : task'[t].status = task[t].status /\ task'[t].loops = task[t].loops
  BY RequestsKeep
<1>2. \A t \in Tasks : rejections'[t] = rejections[t] /\ (t \in returned' <=> t \in returned)
  BY <1>1, NoRecord
<1>3. Current(work[d], task) /\ Limited(work[d], task, returned)
  OBVIOUS
<1>4. ASSUME work[d] = <<>>, Plain(work'[d])
      PROVE  /\ Current(work'[d], task') /\ Limited(work'[d], task', returned')
             /\ Counted(work[d], task, rejections) => Counted(work'[d], task', rejections')
  <2>1. Current(work'[d], task') /\ Limited(work'[d], task', returned')
    BY <1>1, <1>2, <1>3, <1>4, IdleLimited
  <2>2. (\A t : ~Counts(work'[d], t)) /\ (\A t : ~Counts(work[d], t))
    BY <1>4, PlainIsCurrent DEF Counts
  <2>3. Counted(work[d], task, rejections) => Counted(work'[d], task', rejections')
    BY <1>1, <1>2, <2>2 DEF Counted
  <2>. QED BY <2>1, <2>3
<1>5. CASE UNCHANGED work
  <2>1. CASE UNCHANGED task
    <3>1. \A t \in Tasks : t \in returned' => t \in returned
      BY <1>2
    <3>2. Limited(work[d], task, returned')
      BY <1>3, <3>1 DEF Limited
    <3>3. Counted(work[d], task, rejections) => Counted(work[d], task, rejections')
      BY <1>2 DEF Counted
    <3>. QED BY <1>3, <1>5, <2>1, <3>2, <3>3
  <2>2. CASE ~UNCHANGED task
    <3>1. work[d] = <<>>
      BY <2>2, RequestsKeep, OnlyCaller
    <3>2. Plain(work'[d])
      BY <1>5, <3>1 DEF Plain
    <3>. QED BY <1>4, <3>1, <3>2
  <2>. QED BY <2>1, <2>2
<1>6. ASSUME NEW c \in Callers, NEW x, work[c] = <<>>, work' = [work EXCEPT ![c] = <<x>>],
             x.op = "transition"
      PROVE  work[d] = <<>> /\ Plain(work'[d])
  <2>1. d = c
    BY OnlyCaller
  <2>2. work'[d] = <<x>>
    BY <1>6, <2>1 DEF IInv
  <2>. QED BY <1>6, <2>1, <2>2 DEF Plain
<1>. QED BY <1>4, <1>5, <1>6, RequestBegins

LEMMA LimitStep == IInv /\ ShapeInv /\ LimitInv /\ [MCNext]_mcVars => LimitInv'
<1>. SUFFICES ASSUME IInv, ShapeInv, LimitInv, [MCNext]_mcVars PROVE LimitInv'
  OBVIOUS
<1>1. Serial /\ NoCrash /\ \A c \in Callers : Current(work[c], task) /\ Limited(work[c], task, returned)
  BY DEF LimitInv
<1>2. CASE UNCHANGED mcVars
  <2>1. task' = task /\ work' = work /\ returned' = returned
    BY <1>2 DEF mcVars
  <2>. QED BY <1>1, <2>1 DEF LimitInv
<1>3. CASE MCNext
  <2>1. Records /\ Next
    BY <1>3 DEF MCNext, Records
  <2>2. ~Restart
    BY <1>1 DEF Restart, NoCrash
  <2>3. ASSUME NEW d \in Callers PROVE Current(work'[d], task') /\ Limited(work'[d], task', returned')
    <3>1. CASE Requests
      BY <1>1, <2>1, <3>1, RequestLimited
    <3>2. ASSUME NEW c \in Callers, ServiceStep(c)
          PROVE  Current(work'[d], task') /\ Limited(work'[d], task', returned')
      <4>1. d = c
        BY <1>1, OnlyCaller
      <4>2. Current(work'[c], task') /\ Limited(work'[c], task', returned')
        BY <1>1, <2>1, <3>2, StepLimited
      <4>. QED BY <4>1, <4>2
    <3>. QED BY <2>1, <2>2, <3>1, <3>2 DEF Next, Environment
  <2>. QED BY <1>1, <2>3 DEF LimitInv
<1>. QED BY <1>2, <1>3

LEMMA CountStep == IInv /\ ShapeInv /\ CountInv /\ [MCNext]_mcVars => CountInv'
<1>. SUFFICES ASSUME IInv, ShapeInv, CountInv, [MCNext]_mcVars PROVE CountInv'
  OBVIOUS
<1>1. LimitInv /\ LimitInv' /\ \A c \in Callers : Counted(work[c], task, rejections)
  BY LimitStep DEF CountInv
<1>2. Serial /\ NoCrash /\ \A c \in Callers : Current(work[c], task) /\ Limited(work[c], task, returned)
  BY <1>1 DEF LimitInv
<1>3. CASE UNCHANGED mcVars
  <2>1. task' = task /\ work' = work /\ rejections' = rejections
    BY <1>3 DEF mcVars
  <2>. QED BY <1>1, <2>1 DEF CountInv
<1>4. CASE MCNext
  <2>1. Records /\ Next
    BY <1>4 DEF MCNext, Records
  <2>2. ~Restart
    BY <1>2 DEF Restart, NoCrash
  <2>3. ASSUME NEW d \in Callers PROVE Counted(work'[d], task', rejections')
    <3>1. CASE Requests
      BY <1>1, <1>2, <2>1, <3>1, RequestLimited
    <3>2. ASSUME NEW c \in Callers, ServiceStep(c) PROVE Counted(work'[d], task', rejections')
      <4>1. d = c
        BY <1>2, OnlyCaller
      <4>2. Counted(work'[c], task', rejections')
        BY <1>1, <1>2, <2>1, <3>2, StepLimited
      <4>. QED BY <4>1, <4>2
    <3>. QED BY <2>1, <2>2, <3>1, <3>2 DEF Next, Environment
  <2>. QED BY <1>1, <2>3 DEF CountInv
<1>. QED BY <1>3, <1>4

LEMMA LimitInit == Serial /\ NoCrash /\ MCInit => LimitInv
<1>. SUFFICES ASSUME Serial, NoCrash, MCInit PROVE LimitInv
  OBVIOUS
<1>1. returned = {} /\ \A c \in Callers : work[c] = <<>>
  BY DEF MCInit, Init
<1>2. \A c \in Callers : Current(work[c], task) /\ Limited(work[c], task, returned)
  BY <1>1 DEF Current, Limited
<1>. QED BY <1>2 DEF LimitInv

LEMMA CountInit == Serial /\ NoCrash /\ NeverRejected /\ MCInit => CountInv
<1>. SUFFICES ASSUME Serial, NoCrash, NeverRejected, MCInit PROVE CountInv
  OBVIOUS
<1>1. task = InitRow /\ rejections = [t \in Tasks |-> 0] /\ \A c \in Callers : work[c] = <<>>
  BY DEF MCInit, Init
<1>2. \A c \in Callers : Counted(work[c], task, rejections)
  BY <1>1 DEF Counted, Counts, NeverRejected
<1>. QED BY <1>2, LimitInit DEF CountInv

\* The history variables only watch.
LEMMA MCImplementsSpec == MCSpec => Spec
<1>1. MCInit => Init
  BY DEF MCInit
<1>2. [MCNext]_mcVars => [Next]_vars
  BY DEF MCNext, mcVars, vars
<1>. QED BY <1>1, <1>2, PTL DEF MCSpec, Spec

\* Without overlapping requests and crashes, agent_loop_count is the number of
\* rejections whenever no request runs: the count that handleReviewToInProgress
\* takes from its snapshot is never stale, and never lost.
THEOREM SerialRejections ==
    Serial /\ NoCrash /\ NeverRejected /\ MCSpec => []RejectionsCounted
<1>1. IInv /\ CountInv => RejectionsCounted
  <2>. SUFFICES ASSUME IInv, CountInv, Quiet, NEW t \in Tasks PROVE rejections[t] = task[t].loops
    BY DEF RejectionsCounted
  <2>1. PICK c : Callers = {c}
    BY DEF CountInv, LimitInv, Serial
  <2>2. work[c] = <<>> /\ Counted(work[c], task, rejections)
    BY <2>1 DEF Quiet, CountInv
  <2>3. task[t].loops \in Nat
    BY DEF IInv, Tables, Rows
  <2>. QED BY <2>2, <2>3 DEF Counted, Counts
<1>2. MCSpec => [][MCNext]_mcVars /\ MCInit
  BY DEF MCSpec
<1>. QED BY <1>1, <1>2, CountInit, CountStep, MCImplementsSpec, SpecInv, SpecShape, PTL

\* Without overlapping requests and crashes, a task rejected up to its limit
\* does not stay where the rejection put it: the second transition, to "stuck",
\* runs next and is never refused.
THEOREM SerialMeltdown ==
    Serial /\ NoCrash /\ MCSpec => []MeltdownHolds
<1>1. LimitInv => MeltdownHolds
  <2>. SUFFICES ASSUME LimitInv, Quiet, NEW t \in Tasks, task[t].loops >= MaxLoops, t \in returned
                PROVE  FALSE
    BY DEF MeltdownHolds
  <2>1. PICK c : Callers = {c}
    BY DEF LimitInv, Serial
  <2>2. work[c] = <<>> /\ Limited(work[c], task, returned)
    BY <2>1 DEF Quiet, LimitInv
  <2>. QED BY <2>2 DEF Limited, Stops, Counts
<1>2. MCSpec => [][MCNext]_mcVars /\ MCInit
  BY DEF MCSpec
<1>. QED BY <1>1, <1>2, LimitInit, LimitStep, MCImplementsSpec, SpecInv, SpecShape, PTL

=============================================================================
