---------------------------- MODULE PartsProofs ----------------------------
(***************************************************************************)
(* The thread pool and the connection, two of the parts that MCParts       *)
(* explores: what a caller of wait_idle and the destructor of the pool may *)
(* rely on, for any number of workers and tasks; and, for headers of any   *)
(* size and any base, any sizes of messages, and any number of users,      *)
(* attempts and lost connections, that the client receives whole payloads  *)
(* in order, and that a client that has signed in and the session at the   *)
(* other end agree who the user is.                                        *)
(***************************************************************************)
EXTENDS ThreadPool, Connection, SequenceFacts, FiniteSetTheorems, TLAPS

-----------------------------------------------------------------------------
(* The thread pool *)

\* The workers that active_tasks_ counts.
Counted == {w \in Workers : wpc[w] \in {"run", "ran"}}

\* A submitted task is in the queue, with a worker, or has run.
Waiting(x) == \E i \in 1 .. Len(tasks_) : tasks_[i] = x
Carried(x) == \E w \in Workers : x \in task[w]

PoolShape ==
    /\ IsSeq(tasks_)
    /\ wpc \in [Workers -> {"wait", "taken", "run", "ran", "notify", "exited"}]
    /\ DOMAIN task = Workers
    /\ active_tasks = Cardinality(Counted)

PoolInv ==
    /\ PoolShape
    /\ \A x : x \in submitted <=> x \in done \/ Waiting(x) \/ Carried(x)
    /\ \A w \in Workers : task[w] # {} => wpc[w] \in {"taken", "run"}
    /\ \A w \in Workers : wpc[w] = "exited" => stopping /\ tasks_ = << >>

\* Nothing is queued, carried or counted when the workers start.
LEMMA InitPool == PoolInit => PoolInv
<1> SUFFICES ASSUME PoolInit PROVE PoolInv
  OBVIOUS
<1>1. IsSeq(tasks_) /\ Len(tasks_) = 0
  BY EmptyShape DEF PoolInit
<1>2. Counted = {}
  BY DEF PoolInit, Counted
<1>3. active_tasks = Cardinality(Counted)
  BY <1>2, FS_EmptySet DEF PoolInit
<1>4. \A x : ~ Waiting(x) /\ ~ Carried(x)
  BY <1>1 DEF PoolInit, Waiting, Carried
<1> QED
  BY <1>1, <1>3, <1>4 DEF PoolInit, PoolInv, PoolShape

\* active_tasks_ counts a finite set: there are finitely many workers.
LEMMA CountedFinite == IsFiniteSet(Counted) /\ Cardinality(Counted) \in Nat
<1>1. IsFiniteSet(Counted)
  BY PoolAssumption, FS_Subset DEF Counted
<1> QED
  BY <1>1, FS_CardinalityType

\* A step of worker w that neither takes nor runs a task and leaves the queue.
LEMMA PlaceMoves ==
    ASSUME PoolInv, NEW w \in Workers,
           NEW p \in {"wait", "run", "notify", "exited"},
           wpc' = [wpc EXCEPT ![w] = p],
           p = "run" => wpc[w] = "taken",
           p # "run" => wpc[w] \notin {"taken", "run"},
           p = "exited" => stopping /\ tasks_ = << >>,
           active_tasks' = Cardinality(Counted'),
           UNCHANGED <<tasks_, task, stopping, submitted, done>>
    PROVE  PoolInv'
<1>1. PoolShape'
  BY DEF PoolInv, PoolShape
<1>2. \A x : Waiting(x)' = Waiting(x) /\ Carried(x)' = Carried(x)
  BY DEF Waiting, Carried
<1>3. \A v \in Workers : wpc'[v] = IF v = w THEN p ELSE wpc[v]
  BY DEF PoolInv, PoolShape
<1>4. \A v \in Workers : task'[v] # {} => wpc'[v] \in {"taken", "run"}
  BY <1>3 DEF PoolInv
<1>5. \A v \in Workers : wpc'[v] = "exited" => stopping' /\ tasks_' = << >>
  BY <1>3 DEF PoolInv
<1>6. \A x : x \in submitted' <=> x \in done' \/ Waiting(x)' \/ Carried(x)'
  BY <1>2 DEF PoolInv
<1> QED
  BY <1>1, <1>4, <1>5, <1>6 DEF PoolInv

\* One lemma per step of a caller or a worker: each keeps PoolInv.
LEMMA StepSubmit == ASSUME PoolInv, submit PROVE PoolInv'
<1>1. PICK x : /\ ~ stopping /\ tasks_' = Append(tasks_, x) /\ submitted' = submitted \cup {x}
               /\ UNCHANGED <<active_tasks, wpc, task, waiter, stopping, done>>
  BY DEF submit
<1>2. /\ IsSeq(tasks_') /\ Len(tasks_) \in Nat /\ Len(tasks_') = Len(tasks_) + 1
      /\ \A i \in 1 .. Len(tasks_) : tasks_'[i] = tasks_[i]
      /\ tasks_'[Len(tasks_) + 1] = x
  BY <1>1, AppendShape DEF PoolInv, PoolShape
<1>3. ASSUME NEW y PROVE Waiting(y)' <=> Waiting(y) \/ y = x
  BY <1>2 DEF Waiting
<1>4. \A y : Carried(y)' <=> Carried(y)
  BY <1>1 DEF Carried
<1>5. Counted' = Counted
  BY <1>1 DEF Counted
<1>6. PoolShape'
  BY <1>1, <1>2, <1>5 DEF PoolInv, PoolShape
<1>7. \A y : y \in submitted' <=> y \in done' \/ Waiting(y)' \/ Carried(y)'
  BY <1>1, <1>3, <1>4 DEF PoolInv
<1> QED
  BY <1>1, <1>6, <1>7 DEF PoolInv

LEMMA StepPop == ASSUME PoolInv, NEW w \in Workers, Pop(w) PROVE PoolInv'
<1>1. /\ wpc[w] = "wait" /\ tasks_ # << >> /\ task' = [task EXCEPT ![w] = {Head(tasks_)}]
      /\ tasks_' = Tail(tasks_) /\ wpc' = [wpc EXCEPT ![w] = "taken"]
      /\ UNCHANGED <<active_tasks, waiter, stopping, submitted, done>>
  BY DEF Pop
<1>2. /\ IsSeq(tasks_') /\ Len(tasks_) \in Nat /\ Len(tasks_) > 0
      /\ Len(tasks_') = Len(tasks_) - 1 /\ Head(tasks_) = tasks_[1]
      /\ \A i \in 1 .. Len(tasks_) - 1 : tasks_'[i] = tasks_[i + 1]
  BY <1>1, TailShape DEF PoolInv, PoolShape
<1>3. /\ task[w] = {} /\ DOMAIN task' = Workers
      /\ \A v \in Workers : task'[v] = IF v = w THEN {Head(tasks_)} ELSE task[v]
      /\ \A v \in Workers : wpc'[v] = IF v = w THEN "taken" ELSE wpc[v]
  BY <1>1 DEF PoolInv, PoolShape
<1>4. ASSUME NEW y PROVE Waiting(y) <=> Waiting(y)' \/ y = Head(tasks_)
  <2>1. ASSUME NEW i \in 1 .. Len(tasks_), tasks_[i] = y, y # Head(tasks_) PROVE Waiting(y)'
    <3>1. i - 1 \in 1 .. Len(tasks_') /\ tasks_'[i - 1] = y
      BY <1>2, <2>1
    <3> QED
      BY <3>1 DEF Waiting
  <2>2. ASSUME NEW i \in 1 .. Len(tasks_'), tasks_'[i] = y PROVE Waiting(y)
    <3>1. i + 1 \in 1 .. Len(tasks_) /\ tasks_[i + 1] = y
      BY <1>2, <2>2
    <3> QED
      BY <3>1 DEF Waiting
  <2>3. Waiting(Head(tasks_))
    BY <1>2 DEF Waiting
  <2> QED
    BY <2>1, <2>2, <2>3 DEF Waiting
<1>5. \A y : Carried(y)' <=> Carried(y) \/ y = Head(tasks_)
  BY <1>3 DEF Carried
<1>6. Counted' = Counted
  BY <1>1, <1>3 DEF Counted
<1>7. PoolShape'
  BY <1>1, <1>2, <1>3, <1>6 DEF PoolInv, PoolShape
<1>8. \A y : y \in submitted' <=> y \in done' \/ Waiting(y)' \/ Carried(y)'
  BY <1>1, <1>4, <1>5 DEF PoolInv
<1>9. \A v \in Workers : task'[v] # {} => wpc'[v] \in {"taken", "run"}
  BY <1>3 DEF PoolInv
<1>10. \A v \in Workers : wpc'[v] = "exited" => stopping' /\ tasks_' = << >>
  BY <1>1, <1>3 DEF PoolInv
<1> QED
  BY <1>7, <1>8, <1>9, <1>10 DEF PoolInv

LEMMA StepExit == ASSUME PoolInv, NEW w \in Workers, Exit(w) PROVE PoolInv'
<1>1. Counted' = Counted
  BY DEF Exit, Counted, PoolInv, PoolShape
<1> QED
  BY <1>1, PlaceMoves DEF Exit, PoolInv, PoolShape

LEMMA StepCountUp == ASSUME PoolInv, NEW w \in Workers, CountUp(w) PROVE PoolInv'
<1>1. Counted' = Counted \cup {w} /\ w \notin Counted
  BY DEF CountUp, Counted, PoolInv, PoolShape
<1>2. active_tasks' = Cardinality(Counted')
  BY <1>1, CountedFinite, FS_AddElement DEF CountUp, PoolInv, PoolShape
<1> QED
  BY <1>2, PlaceMoves DEF CountUp

LEMMA StepRunTask == ASSUME PoolInv, NEW w \in Workers, RunTask(w) PROVE PoolInv'
<1>1. /\ wpc[w] = "run" /\ done' = done \cup task[w] /\ task' = [task EXCEPT ![w] = {}]
      /\ wpc' = [wpc EXCEPT ![w] = "ran"]
      /\ UNCHANGED <<tasks_, active_tasks, waiter, stopping, submitted>>
  BY DEF RunTask
<1>2. /\ DOMAIN task' = Workers
      /\ \A v \in Workers : task'[v] = IF v = w THEN {} ELSE task[v]
      /\ \A v \in Workers : wpc'[v] = IF v = w THEN "ran" ELSE wpc[v]
  BY <1>1 DEF PoolInv, PoolShape
<1>3. Counted' = Counted
  BY <1>1, <1>2 DEF Counted
<1>4. PoolShape'
  BY <1>1, <1>2, <1>3 DEF PoolInv, PoolShape
<1>5. ASSUME NEW y PROVE y \in done \/ Carried(y) <=> y \in done' \/ Carried(y)'
  BY <1>1, <1>2 DEF Carried
<1>6. \A y : Waiting(y)' <=> Waiting(y)
  BY <1>1 DEF Waiting
<1>7. \A y : y \in submitted' <=> y \in done' \/ Waiting(y)' \/ Carried(y)'
  BY <1>1, <1>5, <1>6 DEF PoolInv
<1>8. /\ \A v \in Workers : task'[v] # {} => wpc'[v] \in {"taken", "run"}
      /\ \A v \in Workers : wpc'[v] = "exited" => stopping' /\ tasks_' = << >>
  BY <1>1, <1>2 DEF PoolInv
<1> QED
  BY <1>4, <1>7, <1>8 DEF PoolInv

LEMMA StepCountDown == ASSUME PoolInv, NEW w \in Workers, CountDown(w) PROVE PoolInv'
<1>1. PICK p \in {"wait", "notify"} : wpc' = [wpc EXCEPT ![w] = p]
  BY DEF CountDown
<1>2. Counted' = Counted \ {w} /\ w \in Counted
  BY <1>1 DEF CountDown, Counted, PoolInv, PoolShape
<1>3. active_tasks' = Cardinality(Counted')
  BY <1>2, CountedFinite, FS_RemoveElement DEF CountDown, PoolInv, PoolShape
<1> QED
  BY <1>1, <1>3, PlaceMoves DEF CountDown

LEMMA StepNotifyIdle == ASSUME PoolInv, NEW w \in Workers, NotifyIdle(w) PROVE PoolInv'
<1>1. Counted' = Counted
  BY DEF NotifyIdle, Counted, PoolInv, PoolShape
<1> QED
  BY <1>1, PlaceMoves DEF NotifyIdle, PoolInv, PoolShape

\* The owner's thread, and a step that changes nothing, leave the tasks alone.
LEMMA StepOwner ==
    ASSUME PoolInv, stopping => stopping',
           UNCHANGED <<tasks_, active_tasks, wpc, task, submitted, done>>
    PROVE  PoolInv'
<1>1. Counted' = Counted
  BY DEF Counted
<1>2. \A x : Waiting(x)' = Waiting(x) /\ Carried(x)' = Carried(x)
  BY DEF Waiting, Carried
<1> QED
  BY <1>1, <1>2 DEF PoolInv, PoolShape

LEMMA StepPool == ASSUME PoolInv, [PoolNext]_poolVars PROVE PoolInv'
<1>1. ASSUME NEW w \in Workers, Worker(w) PROVE PoolInv'
  BY <1>1, StepPop, StepExit, StepCountUp, StepRunTask, StepCountDown, StepNotifyIdle
     DEF Worker
<1>2. CASE submit
  BY <1>2, StepSubmit
<1>3. CASE wait_idle \/ Waiter \/ DestroyPool \/ UNCHANGED poolVars
  <2>1. /\ stopping => stopping'
        /\ UNCHANGED <<tasks_, active_tasks, wpc, task, submitted, done>>
    BY <1>3 DEF wait_idle, Waiter, EvaluateIdle, BlockIdle, DestroyPool, poolVars
  <2> QED
    BY <2>1, StepOwner
<1> QED
  BY <1>1, <1>2, <1>3 DEF PoolNext

\* The counter is the number of workers between their two updates of it, and
\* no task is lost or invented on its way from submit to its run.
THEOREM PoolInvariant == PoolSpec => []PoolInv
  BY InitPool, StepPool, PTL DEF PoolSpec

\* wait_idle returns only in EvaluateIdle, with an empty queue and nothing
\* counted: what was submitted has run or is with a worker that has not yet
\* counted it.
THEOREM WaitIdleSound == PoolSpec => IdleMeansRun
<1>1. ASSUME PoolInv, [PoolNext]_poolVars
      PROVE  [waiter # "returned" /\ waiter' = "returned"
                => submitted \ done \subseteq Held]_poolVars
  <2> SUFFICES ASSUME waiter # "returned", waiter' = "returned", NEW x \in submitted \ done
               PROVE  x \in Held
    OBVIOUS
  <2>1. EvaluateIdle
    BY <1>1 DEF PoolNext, Worker, Pop, Exit, CountUp, RunTask, CountDown, NotifyIdle,
                submit, wait_idle, Waiter, BlockIdle, DestroyPool, poolVars
  <2>2. tasks_ = << >> /\ active_tasks = 0
    BY <2>1 DEF EvaluateIdle
  <2>3. ~ Waiting(x)
    BY <2>2, EmptyShape DEF Waiting
  <2>4. PICK w \in Workers : x \in task[w]
    BY <1>1, <2>3 DEF PoolInv, Carried
  <2>5. Counted = {}
    BY <1>1, <2>2, CountedFinite, FS_EmptySet DEF PoolInv, PoolShape
  <2>6. wpc[w] = "taken"
    BY <1>1, <2>4, <2>5 DEF PoolInv, Counted
  <2> QED
    BY <2>4, <2>6 DEF Held
<1> QED
  BY <1>1, PoolInvariant, PTL DEF PoolSpec, IdleMeansRun

\* When the last worker has been joined, everything submitted has run.
THEOREM DestructorDrains == PoolSpec => JoinedMeansRun
<1>1. ASSUME PoolInv, PoolInv', [PoolNext]_poolVars
      PROVE  [Joined' /\ ~ Joined => submitted' = done']_poolVars
  <2> SUFFICES ASSUME Joined', ~ Joined PROVE submitted' = done'
    OBVIOUS
  <2>1. PICK w \in Workers : wpc'[w] = "exited"
    BY DEF Joined
  <2>2. tasks_' = << >>
    BY <1>1, <2>1 DEF PoolInv
  <2>3. \A x : ~ Waiting(x)'
    BY <2>2, EmptyShape DEF Waiting
  <2>4. \A x : ~ Carried(x)'
    BY <1>1 DEF PoolInv, Carried, Joined
  <2>5. \A x : x \in submitted' <=> x \in done'
    BY <1>1, <2>3, <2>4 DEF PoolInv
  <2> QED
    BY <2>5
<1> QED
  BY <1>1, PoolInvariant, PTL DEF PoolSpec, JoinedMeansRun

-----------------------------------------------------------------------------
(* Numbers in a header *)

\* Quotient and remainder are the numbers that they are.
LEMMA Division ==
    ASSUME NEW n \in Nat, NEW p \in Nat \ {0}
    PROVE  \E q \in Nat, r \in Nat : n = q * p + r /\ r < p /\ q = n \div p /\ r = n % p
  OBVIOUS

\* ... and the only ones.
LEMMA Quotient ==
    ASSUME NEW n \in Nat, NEW p \in Nat \ {0}, NEW q \in Nat, NEW r \in Nat, r < p, n = q * p + r
    PROVE  n \div p = q /\ n % p = r
  OBVIOUS

\* One digit more: u are the digits of n in base b in front of the one whose
\* value is p, which is v.
Digit(n, p, b, u, v) == u = n \div (p * b) /\ v = (n \div p) % b

\* Appending that digit: what is read so far becomes n without the digits after it.
LEMMA NextDigit ==
    ASSUME NEW n \in Nat, NEW p \in Nat \ {0}, NEW b \in Nat \ {0}, NEW u \in Nat, NEW v \in Nat,
           Digit(n, p, b, u, v)
    PROVE  u * b + v = n \div p
<1>0. PICK w : w = p * b
  OBVIOUS
<1>1. PICK q \in Nat, r \in Nat : n = q * p + r /\ r < p /\ q = n \div p
  BY ONLY Division
<1>2. PICK x \in Nat, y \in Nat : q = x * b + y /\ y < b /\ x = q \div b /\ y = q % b
  BY ONLY Division
<1>3. p * b \in Nat \ {0}
  BY ONLY TRUE
<1>4. PICK z \in Nat : z = y * p + r
  BY ONLY TRUE
<1>5. z < p * b
  <2>1. y + 1 <= b
    BY ONLY <1>2
  <2>2. (y + 1) * p <= b * p
    BY ONLY <2>1
  <2>3. (y + 1) * p = y * p + p
    BY ONLY TRUE
  <2>4. z < y * p + p
    BY ONLY <1>1, <1>4
  <2>5. y * p + p \in Nat /\ b * p \in Nat /\ b * p = p * b
    BY ONLY TRUE
  <2> QED
    BY ONLY <2>2, <2>3, <2>4, <2>5
<1>6. n = x * (p * b) + z
  <2>1. (x * b + y) * p = (x * b) * p + y * p
    BY ONLY TRUE
  <2>2. (x * b) * p = x * (p * b)
    BY ONLY TRUE
  <2>3. q * p = (x * b) * p + y * p
    BY ONLY <1>2, <2>1
  <2> QED
    BY ONLY <1>1, <1>4, <2>2, <2>3
<1>7. n \div w = x
  <2>1. w \in Nat \ {0} /\ z < w /\ n = x * w + z
    BY ONLY <1>0, <1>3, <1>5, <1>6
  <2> QED
    BY ONLY <2>1, Quotient
<1>8. u = x /\ v = y
  <2>1. u = n \div w /\ v = (n \div p) % b
    BY ONLY <1>0, Digit(n, p, b, u, v) DEF Digit
  <2> QED
    BY ONLY <1>1, <1>2, <1>7, <2>1
<1>9. u * b + v = q
  BY ONLY <1>2, <1>8
<1> QED
  BY ONLY <1>1, <1>9

-----------------------------------------------------------------------------
(* Numbers in base b: the digits w[1], w[2], ... read from the left. *)

Reads(f, w, b, c, n) == \A i \in 0 .. n : f[i] = IF i = 0 THEN c ELSE f[i - 1] * b + w[i]

\* The recursive function that reads the digits exists, and follows its recursion.
LEMMA ReadingExists ==
    ASSUME NEW w, NEW b, NEW c, NEW n \in Nat
    PROVE  \E f : /\ f = [i \in 0 .. n |-> IF i = 0 THEN c ELSE f[i - 1] * b + w[i]]
                  /\ Reads(f, w, b, c, n)
<1> DEFINE S == {m \in Nat : \E f : Reads(f, w, b, c, m)}
<1>1. 0 \in S
  <2>1. Reads([i \in {0} |-> c], w, b, c, 0)
    BY DEF Reads
  <2> QED
    BY <2>1
<1>2. ASSUME NEW m \in Nat, m \in S PROVE m + 1 \in S
  <2>1. PICK f : Reads(f, w, b, c, m)
    BY <1>2
  <2>2. PICK g : g = [i \in 0 .. m + 1 |-> IF i = m + 1 THEN f[m] * b + w[m + 1] ELSE f[i]]
    OBVIOUS
  <2>3. \A i \in 0 .. m : g[i] = f[i]
    BY <2>2
  <2>4. g[m + 1] = g[m] * b + w[m + 1]
    <3>1. m + 1 \in 0 .. m + 1 /\ m \in 0 .. m
      OBVIOUS
    <3> QED
      BY <2>2, <2>3, <3>1
  <2>5. ASSUME NEW i \in 0 .. m + 1
        PROVE  g[i] = IF i = 0 THEN c ELSE g[i - 1] * b + w[i]
    <3>1. CASE i = m + 1
      <4>1. i # 0 /\ i - 1 = m
        BY <3>1
      <4> QED
        BY <2>4, <3>1, <4>1
    <3>2. CASE i \in 1 .. m
      <4>1. i \in 0 .. m /\ i - 1 \in 0 .. m /\ i # 0
        BY <3>2
      <4>2. f[i] = f[i - 1] * b + w[i]
        BY <2>1, <4>1 DEF Reads
      <4> QED
        BY <2>3, <4>1, <4>2
    <3>3. CASE i = 0
      <4>1. 0 \in 0 .. m
        OBVIOUS
      <4> QED
        BY <2>1, <2>3, <3>3, <4>1 DEF Reads
    <3> QED
      BY <3>1, <3>2, <3>3
  <2>6. Reads(g, w, b, c, m + 1)
    BY <2>5 DEF Reads
  <2> QED
    BY <2>6
<1> HIDE DEF S
<1>3. n \in S
  BY <1>1, <1>2, SetInduction
<1>4. PICK f : Reads(f, w, b, c, n)
  BY <1>3 DEF S
<1>5. PICK g : g = [i \in 0 .. n |-> f[i]]
  OBVIOUS
<1>6. \A i \in 0 .. n : g[i] = IF i = 0 THEN c ELSE g[i - 1] * b + w[i]
  <2> SUFFICES ASSUME NEW i \in 0 .. n PROVE g[i] = IF i = 0 THEN c ELSE g[i - 1] * b + w[i]
    OBVIOUS
  <2>1. g[i] = f[i] /\ (i # 0 => i - 1 \in 0 .. n /\ g[i - 1] = f[i - 1])
    BY <1>5
  <2> QED
    BY <1>4, <2>1 DEF Reads
<1>7. g = [i \in 0 .. n |-> IF i = 0 THEN c ELSE g[i - 1] * b + w[i]]
  BY <1>5, <1>6
<1> QED
  BY <1>6, <1>7 DEF Reads

\* What it reads from digits that are numbers is a number.
LEMMA ReadingIsNumber ==
    ASSUME NEW f, NEW w, NEW b \in Nat, NEW c \in Nat, NEW n \in Nat, Reads(f, w, b, c, n),
           \A i \in 1 .. n : w[i] \in Nat
    PROVE  \A i \in 0 .. n : f[i] \in Nat
<1> DEFINE S == {m \in Nat : m <= n => f[m] \in Nat}
<1>1. 0 \in S
  BY DEF Reads
<1>2. ASSUME NEW m \in Nat, m \in S PROVE m + 1 \in S
  <2>1. CASE m + 1 <= n
    <3>1. f[m] \in Nat /\ m + 1 \in 0 .. n /\ m + 1 # 0 /\ (m + 1) - 1 = m /\ w[m + 1] \in Nat
      BY <1>2, <2>1
    <3>2. f[m + 1] = f[m] * b + w[m + 1]
      BY <3>1 DEF Reads
    <3>3. f[m + 1] \in Nat
      BY <3>1, <3>2
    <3> QED
      BY <3>3
  <2>2. CASE ~ (m + 1 <= n)
    BY <2>2
  <2> QED
    BY <2>1, <2>2
<1> HIDE DEF S
<1>3. Nat \subseteq S
  BY <1>1, <1>2, SetInduction
<1> QED
  BY <1>3 DEF S

\* Weight, the powers of Base.
LEMMA WeightPowers ==
    /\ Weight[0] = 1
    /\ \A i \in 1 .. HeaderSize : Weight[i] = Weight[i - 1] * Base
    /\ \A i \in 0 .. HeaderSize : Weight[i] \in Nat \ {0}
<1> DEFINE P(f) == f = [i \in 0 .. HeaderSize |-> IF i = 0 THEN 1 ELSE f[i - 1] * Base]
<1>0. HeaderSize \in Nat /\ Base \in Nat \ {0}
  BY ConnectionAssumption
<1>1. \E f : P(f)
  <2>1. PICK w : w = [i \in 1 .. HeaderSize |-> 0]
    OBVIOUS
  <2>2. PICK f : /\ f = [i \in 0 .. HeaderSize |-> IF i = 0 THEN 1 ELSE f[i - 1] * Base + w[i]]
                 /\ Reads(f, w, Base, 1, HeaderSize)
    BY <1>0, ReadingExists
  <2>3. \A i \in 0 .. HeaderSize : f[i] \in Nat
    BY <1>0, <2>1, <2>2, ReadingIsNumber
  <2>4. \A i \in 0 .. HeaderSize : f[i] = IF i = 0 THEN 1 ELSE f[i - 1] * Base
    <3> SUFFICES ASSUME NEW i \in 0 .. HeaderSize, i # 0 PROVE f[i] = f[i - 1] * Base
      BY <2>2 DEF Reads
    <3>1. i - 1 \in 0 .. HeaderSize /\ i \in 1 .. HeaderSize
      BY <1>0
    <3>2. f[i] = f[i - 1] * Base + 0
      BY <2>1, <2>2, <3>1 DEF Reads
    <3>3. f[i - 1] * Base \in Nat
      BY <1>0, <2>3, <3>1
    <3> QED
      BY <3>2, <3>3
  <2> QED
    BY <2>2, <2>4
<1>2. P(Weight)
  BY <1>1, Zenon DEF Weight
<1> HIDE DEF Weight
<1>3. \A i \in 0 .. HeaderSize : Weight[i] = IF i = 0 THEN 1 ELSE Weight[i - 1] * Base
  BY <1>2
<1> DEFINE S == {m \in Nat : m <= HeaderSize => Weight[m] \in Nat \ {0}}
<1>4. 0 \in S
  BY <1>0, <1>3
<1>5. ASSUME NEW m \in Nat, m \in S PROVE m + 1 \in S
  <2>1. CASE m + 1 <= HeaderSize
    <3>1. /\ Weight[m] \in Nat \ {0} /\ m + 1 \in 0 .. HeaderSize /\ m + 1 # 0
          /\ (m + 1) - 1 = m
      BY <1>0, <1>5, <2>1
    <3>2. Weight[m + 1] = Weight[m] * Base
      BY <1>3, <3>1
    <3>3. Weight[m] * Base \in Nat \ {0}
      BY <1>0, <3>1
    <3> QED
      BY <3>2, <3>3
  <2>2. CASE ~ (m + 1 <= HeaderSize)
    BY <2>2
  <2> QED
    BY <2>1, <2>2
<1> HIDE DEF S
<1>6. Nat \subseteq S
  BY <1>4, <1>5, SetInduction
<1>7. \A i \in 0 .. HeaderSize : Weight[i] \in Nat \ {0}
  BY <1>0, <1>6 DEF S
<1>8. Weight[0] = 1 /\ \A i \in 1 .. HeaderSize : Weight[i] = Weight[i - 1] * Base
  BY <1>0, <1>3
<1> QED
  BY <1>7, <1>8

\* What the assumption on the constants says of the sizes, with Oversize a number.
LEMMA Sizes ==
    /\ HeaderSize \in Nat \ {0} /\ Base \in Nat \ {0} /\ Oversize \in Nat \ {0, 1}
    /\ PushSizes \subseteq 1 .. Oversize - 1 /\ MaxPayload \in 1 .. Oversize - 1
<1>1. /\ HeaderSize \in Nat \ {0} /\ Base \in Nat \ {0}
      /\ PushSizes \subseteq 1 .. Oversize - 1 /\ MaxPayload \in 1 .. Oversize - 1
  BY ConnectionAssumption
<1>2. HeaderSize \in 0 .. HeaderSize
  BY <1>1
<1>3. Oversize \in Nat
  BY <1>2, WeightPowers DEF Oversize
<1> QED
  BY <1>1, <1>3

-----------------------------------------------------------------------------
(* A header is the length behind it. *)

\* Any HeaderSize bytes are read as a number.
LEMMA DecodedNumber ==
    ASSUME NEW bytes, \A i \in 1 .. HeaderSize : bytes[i][2] \in Nat
    PROVE  \E f : /\ \A i \in 0 .. HeaderSize : f[i] \in Nat
                  /\ f[0] = 0
                  /\ \A i \in 1 .. HeaderSize : f[i] = f[i - 1] * Base + bytes[i][2]
                  /\ decode_frame_header(bytes)
                       = IF f[HeaderSize] > MaxPayload THEN Oversize ELSE f[HeaderSize]
<1> DEFINE P(f) == f = [i \in 0 .. HeaderSize |->
                          IF i = 0 THEN 0 ELSE f[i - 1] * Base + bytes[i][2]]
           value == CHOOSE f : P(f)
<1>1. decode_frame_header(bytes)
        = IF value[HeaderSize] > MaxPayload THEN Oversize ELSE value[HeaderSize]
  BY DEF decode_frame_header
<1>2. PICK w : w = [i \in 1 .. HeaderSize |-> bytes[i][2]]
  OBVIOUS
<1>3. PICK f : /\ f = [i \in 0 .. HeaderSize |-> IF i = 0 THEN 0 ELSE f[i - 1] * Base + w[i]]
               /\ Reads(f, w, Base, 0, HeaderSize)
  BY Sizes, ReadingExists
<1>4. \A i \in 1 .. HeaderSize : w[i] = bytes[i][2]
  BY <1>2
<1>5. \A i \in 0 .. HeaderSize : i = 0 \/ i \in 1 .. HeaderSize
  BY Sizes
<1>6. P(f)
  BY <1>3, <1>4, <1>5
<1>7. P(value)
  <2>1. \E g : P(g)
    BY <1>6
  <2> QED
    BY <2>1, Zenon
<1> HIDE DEF value
<1>8. Reads(value, w, Base, 0, HeaderSize)
  BY <1>4, <1>5, <1>7 DEF Reads
<1>9. \A i \in 0 .. HeaderSize : value[i] \in Nat
  <2>1. HeaderSize \in Nat /\ Base \in Nat /\ 0 \in Nat /\ \A i \in 1 .. HeaderSize : w[i] \in Nat
    BY <1>4, Sizes
  <2> QED
    BY <1>8, <2>1, ReadingIsNumber
<1>10. value[0] = 0 /\ \A i \in 1 .. HeaderSize : value[i] = value[i - 1] * Base + bytes[i][2]
  <2>1. /\ 0 \in 0 .. HeaderSize
        /\ \A i \in 1 .. HeaderSize : i \in 0 .. HeaderSize /\ i # 0
    BY Sizes
  <2> QED
    BY <1>4, <1>8, <2>1 DEF Reads
<1> QED
  BY <1>1, <1>9, <1>10

\* decode_frame_header returns a number, whatever bytes it is given.
LEMMA DecodedIsNumber ==
    ASSUME NEW bytes, \A i \in 1 .. HeaderSize : bytes[i][2] \in Nat
    PROVE  decode_frame_header(bytes) \in Nat
<1>1. PICK f : /\ \A i \in 0 .. HeaderSize : f[i] \in Nat
               /\ decode_frame_header(bytes)
                    = IF f[HeaderSize] > MaxPayload THEN Oversize ELSE f[HeaderSize]
  BY DecodedNumber
<1>2. HeaderSize \in 0 .. HeaderSize /\ Oversize \in Nat
  BY Sizes
<1> QED
  BY <1>1, <1>2

\* decode_frame_header undoes Header: a receiver reads the length that the
\* sender wrote, and refuses it exactly if it is above MAX_PAYLOAD_SIZE.
LEMMA HeaderDecodes ==
    ASSUME NEW n \in Nat, n < Oversize, NEW bytes,
           \A i \in 1 .. HeaderSize : bytes[i] = Header(n)[i]
    PROVE  decode_frame_header(bytes) = IF n > MaxPayload THEN Oversize ELSE n
<1> DEFINE h == HeaderSize
<1>0. h \in Nat \ {0} /\ Base \in Nat \ {0}
  BY Sizes
<1>1. \A i \in 1 .. h : bytes[i][2] = (n \div Weight[h - i]) % Base
  BY DEF Header
<1>2. \A i \in 1 .. h : bytes[i][2] \in Nat
  <2> SUFFICES ASSUME NEW i \in 1 .. h PROVE (n \div Weight[h - i]) % Base \in Nat
    BY <1>1
  <2>1. Weight[h - i] \in Nat \ {0}
    <3>1. h - i \in 0 .. HeaderSize
      BY <1>0
    <3> QED
      BY <3>1, WeightPowers
  <2>2. PICK q \in Nat : q = n \div Weight[h - i]
    BY <2>1
  <2>3. q % Base \in Nat
    BY <1>0, <2>2
  <2> QED
    BY <2>2, <2>3
<1>3. PICK f : /\ \A i \in 0 .. HeaderSize : f[i] \in Nat
               /\ f[0] = 0
               /\ \A i \in 1 .. HeaderSize : f[i] = f[i - 1] * Base + bytes[i][2]
               /\ decode_frame_header(bytes)
                    = IF f[HeaderSize] > MaxPayload THEN Oversize ELSE f[HeaderSize]
  BY <1>2, DecodedNumber
<1> DEFINE S == {m \in Nat : m <= h => f[m] = n \div Weight[h - m]}
<1>4. 0 \in S
  <2>1. n \div Oversize = 0
    <3>1. Oversize \in Nat \ {0} /\ n = 0 * Oversize + n
      BY Sizes
    <3> QED
      BY <3>1, Quotient
  <2>2. Weight[h - 0] = Oversize
    BY <1>0 DEF Oversize
  <2> QED
    BY <1>3, <2>1, <2>2
<1>5. ASSUME NEW m \in Nat, m \in S PROVE m + 1 \in S
  <2>1. CASE m + 1 <= h
    <3>1. /\ m + 1 \in 1 .. h /\ (m + 1) - 1 = m /\ h - m \in 1 .. h
          /\ h - (m + 1) \in 0 .. h /\ (h - m) - 1 = h - (m + 1)
      BY <1>0, <2>1
    <3>2. PICK p \in Nat \ {0} : p = Weight[h - (m + 1)]
      BY <3>1, WeightPowers
    <3>3. PICK w \in Nat : w = Weight[h - m] /\ w = p * Base
      BY <3>1, <3>2, WeightPowers
    <3>4. PICK x \in Nat, y \in Nat : x = f[m] /\ y = bytes[m + 1][2]
      <4>1. m \in 0 .. h
        BY <1>0, <2>1
      <4> QED
        BY <1>2, <1>3, <3>1, <4>1
    <3>5. x = n \div w
      <4>1. m <= h
        BY <1>0, <2>1
      <4>2. f[m] = n \div Weight[h - m]
        BY ONLY <1>5, <4>1
      <4> QED
        BY ONLY <3>3, <3>4, <4>2
    <3>6. y = (n \div p) % Base
      BY ONLY <1>1, <3>1, <3>2, <3>4
    <3>7. x * Base + y = n \div p
      <4>1. Digit(n, p, Base, x, y)
        BY ONLY <3>3, <3>5, <3>6 DEF Digit
      <4> QED
        BY ONLY <1>0, <4>1, NextDigit
    <3>8. f[m + 1] = x * Base + y
      BY ONLY <1>3, <3>1, <3>4
    <3>9. f[m + 1] = n \div p
      BY ONLY <3>7, <3>8
    <3> QED
      BY ONLY <3>1, <3>2, <3>9
  <2>2. CASE ~ (m + 1 <= h)
    BY <2>2
  <2> QED
    BY <2>1, <2>2
<1> HIDE DEF S
<1>6. h \in S
  BY <1>0, <1>4, <1>5, SetInduction
<1>7. f[h] = n \div Weight[0]
  BY <1>0, <1>6 DEF S
<1>8. n \div 1 = n
  <2>1. n = n * 1 + 0
    OBVIOUS
  <2> QED
    BY <2>1, Quotient
<1>9. f[h] = n
  BY <1>7, <1>8, WeightPowers
<1> QED
  BY <1>3, <1>9

-----------------------------------------------------------------------------
(* The loop over a buffer, as a function of the offset. *)

Found(o, bad) == [payloads |-> << >>, end |-> o, bad |-> bad]
HeaderAt(b, o) == decode_frame_header(SubSeq(b, o + 1, o + HeaderSize))
Loop(f, b, o) ==
    IF Len(b) - o < HeaderSize THEN Found(o, FALSE)
    ELSE LET n == HeaderAt(b, o)
             next == o + HeaderSize + n
         IN  IF n = Oversize THEN Found(o, TRUE)
             ELSE IF next > Len(b) THEN Found(o, FALSE)
             ELSE [f[next] EXCEPT !.payloads = <<SubSeq(b, o + HeaderSize + 1, next)>> \o @]

\* The length at any offset of a buffer of bytes is a number.
LEMMA HeaderAtIsNumber ==
    ASSUME NEW b, IsSeq(b), \A i \in 1 .. Len(b) : b[i][2] \in Nat,
           NEW o \in Nat, o + HeaderSize <= Len(b)
    PROVE  HeaderAt(b, o) \in Nat
<1>1. HeaderSize \in Nat
  BY Sizes
<1>2. PICK w, n : w = SubSeq(b, o + 1, n) /\ n = o + HeaderSize
  OBVIOUS
<1>3. n \in Nat /\ o <= n /\ n <= Len(b) /\ n - o = HeaderSize /\ Len(b) \in Nat
  BY <1>1, <1>2, EmptyShape
<1>4. \A i \in 1 .. HeaderSize : w[i] = b[o + i] /\ o + i \in 1 .. Len(b)
  <2>1. \A i \in 1 .. HeaderSize : w[i] = b[o + i]
    BY ONLY <1>2, <1>3, IsSeq(b), SliceShape
  <2>2. \A i \in 1 .. HeaderSize : o + i \in 1 .. Len(b)
    BY ONLY <1>1, <1>2, <1>3
  <2> QED
    BY ONLY <2>1, <2>2
<1>5. \A i \in 1 .. HeaderSize : w[i][2] \in Nat
  BY <1>4
<1>6. decode_frame_header(w) \in Nat
  BY <1>5, DecodedIsNumber
<1> QED
  BY <1>2, <1>6 DEF HeaderAt

\* The loop goes on behind what it has read.
LEMMA LoopAgrees ==
    ASSUME NEW b, IsSeq(b), \A i \in 1 .. Len(b) : b[i][2] \in Nat, NEW o \in 0 .. Len(b),
           NEW f, NEW g, \A x \in 0 .. Len(b) : x > o => f[x] = g[x]
    PROVE  Loop(f, b, o) = Loop(g, b, o)
<1>1. HeaderSize \in Nat \ {0} /\ Len(b) \in Nat /\ o \in Nat
  BY Sizes, EmptyShape
<1>2. CASE Len(b) - o < HeaderSize
  BY <1>2 DEF Loop
<1>3. CASE ~ (Len(b) - o < HeaderSize)
  <2>1. o + HeaderSize <= Len(b)
    BY <1>1, <1>3
  <2>2. HeaderAt(b, o) \in Nat
    BY <1>1, <2>1, HeaderAtIsNumber
  <2>3. PICK next : next = o + HeaderSize + HeaderAt(b, o)
    OBVIOUS
  <2>4. next \in Nat /\ next > o
    BY ONLY <1>1, <2>2, <2>3
  <2>5. next > Len(b) \/ f[next] = g[next]
    <3>1. next > Len(b) \/ next \in 0 .. Len(b)
      BY ONLY <1>1, <2>4
    <3> QED
      BY <2>4, <3>1
  <2> QED
    BY ONLY <1>3, <2>3, <2>5 DEF Loop
<1> QED
  BY <1>2, <1>3

\* The loop of onReadyRead over the buffer is a function of the offset.
LEMMA LoopExists ==
    ASSUME NEW b, IsSeq(b), \A i \in 1 .. Len(b) : b[i][2] \in Nat
    PROVE  \E f : f = [o \in 0 .. Len(b) |-> Loop(f, b, o)]
<1> DEFINE N == Len(b)
           S == {m \in Nat : \E f : \A o \in 0 .. N : N - o <= m => f[o] = Loop(f, b, o)}
<1>0. N \in Nat /\ HeaderSize \in Nat \ {0}
  BY Sizes, EmptyShape
<1>1. 0 \in S
  <2>1. PICK f : f = [o \in 0 .. N |-> Found(o, FALSE)]
    OBVIOUS
  <2>2. ASSUME NEW o \in 0 .. N, N - o <= 0 PROVE f[o] = Loop(f, b, o)
    <3>1. N - o < HeaderSize
      BY <1>0, <2>2
    <3> QED
      BY <2>1, <3>1 DEF Loop
  <2> QED
    BY <2>2
<1>2. ASSUME NEW m \in Nat, m \in S PROVE m + 1 \in S
  <2>1. PICK f : \A o \in 0 .. N : N - o <= m => f[o] = Loop(f, b, o)
    BY <1>2
  <2>2. PICK g : g = [o \in 0 .. N |-> IF N - o <= m THEN f[o] ELSE Loop(f, b, o)]
    OBVIOUS
  <2>3. ASSUME NEW o \in 0 .. N, N - o <= m + 1 PROVE g[o] = Loop(g, b, o)
    <3>1. g[o] = Loop(f, b, o)
      BY <2>1, <2>2
    <3>2. \A x \in 0 .. N : x > o => f[x] = g[x]
      <4> SUFFICES ASSUME NEW x \in 0 .. N, x > o PROVE f[x] = g[x]
        OBVIOUS
      <4>1. N - x <= m
        BY <1>0, <2>3
      <4> QED
        BY <2>2, <4>1
    <3>3. Loop(f, b, o) = Loop(g, b, o)
      BY <3>2, LoopAgrees
    <3> QED
      BY <3>1, <3>3
  <2> QED
    BY <2>3
<1> HIDE DEF S
<1>3. N \in S
  BY <1>0, <1>1, <1>2, SetInduction
<1>4. PICK f : \A o \in 0 .. N : N - o <= N => f[o] = Loop(f, b, o)
  BY <1>3 DEF S
<1>5. PICK g : g = [o \in 0 .. N |-> f[o]]
  OBVIOUS
<1>6. \A o \in 0 .. N : g[o] = Loop(g, b, o)
  <2> SUFFICES ASSUME NEW o \in 0 .. N PROVE g[o] = Loop(g, b, o)
    OBVIOUS
  <2>1. N - o <= N
    BY <1>0
  <2>2. g[o] = Loop(f, b, o)
    BY <1>4, <1>5, <2>1
  <2>3. \A x \in 0 .. N : x > o => f[x] = g[x]
    BY <1>5
  <2> QED
    BY <2>2, <2>3, LoopAgrees
<1> QED
  BY <1>5, <1>6

\* Frames(b) is that loop, started at offset 0.
LEMMA FramesLoop ==
    ASSUME NEW b, IsSeq(b), \A i \in 1 .. Len(b) : b[i][2] \in Nat
    PROVE  \E f : Frames(b) = f[0] /\ \A o \in 0 .. Len(b) : f[o] = Loop(f, b, o)
<1> DEFINE P(f) == f = [o \in 0 .. Len(b) |->
            IF Len(b) - o < HeaderSize THEN [payloads |-> << >>, end |-> o, bad |-> FALSE]
            ELSE LET n == decode_frame_header(SubSeq(b, o + 1, o + HeaderSize))
                     next == o + HeaderSize + n
                 IN  IF n = Oversize THEN [payloads |-> << >>, end |-> o, bad |-> TRUE]
                     ELSE IF next > Len(b) THEN [payloads |-> << >>, end |-> o, bad |-> FALSE]
                     ELSE [f[next] EXCEPT
                            !.payloads = <<SubSeq(b, o + HeaderSize + 1, next)>> \o @]]
           from == CHOOSE f : P(f)
<1>1. Frames(b) = from[0]
  BY DEF Frames
<1>2. ASSUME NEW f PROVE P(f) <=> f = [o \in 0 .. Len(b) |-> Loop(f, b, o)]
  BY DEF Loop, Found, HeaderAt
<1>3. P(from)
  <2> HIDE DEF P
  <2>1. PICK g : g = [o \in 0 .. Len(b) |-> Loop(g, b, o)]
    BY LoopExists
  <2>2. P(g)
    BY ONLY <1>2, <2>1
  <2> QED
    BY ONLY <2>2, Zenon
<1> HIDE DEF from, P
<1>4. \A o \in 0 .. Len(b) : from[o] = Loop(from, b, o)
  <2>1. from = [o \in 0 .. Len(b) |-> Loop(from, b, o)]
    BY <1>2, <1>3
  <2> QED
    BY ONLY <2>1
<1> QED
  BY <1>1, <1>4

-----------------------------------------------------------------------------
(* t is the frames of the payloads of T, one behind the other; the i-th one *)
(* ends at ends[i].                                                         *)

GoodPayload(x) ==
    IsSeq(x) /\ Len(x) \in 1 .. Oversize - 1 /\ \A i \in 1 .. Len(x) : x[i][2] \in Nat

Matches(t, m, s) == \A l \in 1 .. Len(s) : t[m + l] = s[l]

Framed(T, t, ends) ==
    /\ IsSeq(t) /\ ends[0] = 0 /\ ends[Len(T)] = Len(t)
    /\ \A i \in 1 .. Len(t) : t[i][2] \in Nat
    /\ \A i \in 0 .. Len(T) : ends[i] \in 0 .. Len(t)
    /\ \A i, j \in 0 .. Len(T) : i <= j => ends[i] <= ends[j]
    /\ \A i \in 1 .. Len(T) : /\ ends[i] = ends[i - 1] + HeaderSize + Len(T[i])
                              /\ Matches(t, ends[i - 1], encode_frame(T[i]))

GoodPayloads(T) == IsSeq(T) /\ \A i \in 1 .. Len(T) : GoodPayload(T[i])

\* A frame is the header of its payload's length and then the payload.
LEMMA FrameShape ==
    ASSUME NEW x, GoodPayload(x)
    PROVE  /\ IsSeq(encode_frame(x)) /\ Len(encode_frame(x)) = HeaderSize + Len(x)
           /\ Len(x) \in Nat /\ Len(x) > 0 /\ Len(x) < Oversize
           /\ \A l \in 1 .. HeaderSize : encode_frame(x)[l] = Header(Len(x))[l]
           /\ \A l \in 1 .. Len(x) : encode_frame(x)[HeaderSize + l] = x[l]
           /\ \A l \in 1 .. HeaderSize + Len(x) : encode_frame(x)[l][2] \in Nat
<1>1. PICK n : n = Len(x)
  OBVIOUS
<1>2. n \in Nat /\ n > 0 /\ n < Oversize /\ IsSeq(x) /\ HeaderSize \in Nat /\ Base \in Nat \ {0}
  BY <1>1, Sizes DEF GoodPayload
<1>3. PICK h : h = Header(n)
  OBVIOUS
<1>4. /\ IsSeq(h) /\ Len(h) = HeaderSize
      /\ \A i \in 1 .. HeaderSize : h[i][2] \in Nat
  <2>1. h = [i \in 1 .. HeaderSize |->
               <<[type |-> "header"], (n \div Weight[HeaderSize - i]) % Base>>]
    BY <1>3 DEF Header
  <2>2. IsSeq(h) /\ Len(h) = HeaderSize
    BY ONLY <1>2, <2>1, FunctionShape
  <2>3. ASSUME NEW i \in 1 .. HeaderSize PROVE h[i][2] \in Nat
    <3>1. HeaderSize - i \in 0 .. HeaderSize
      BY <1>2
    <3>2. PICK w \in Nat \ {0} : w = Weight[HeaderSize - i]
      BY <3>1, WeightPowers
    <3>3. PICK q \in Nat : q = n \div w
      BY <1>2
    <3>4. q % Base \in Nat
      BY <1>2
    <3>5. h[i] = <<[type |-> "header"], q % Base>>
      BY <2>1, <3>2, <3>3
    <3> QED
      BY <3>4, <3>5
  <2> QED
    BY <2>2, <2>3
<1>5. PICK e : e = h \o x /\ e = encode_frame(x)
  BY <1>1, <1>3 DEF encode_frame
<1>6. /\ IsSeq(e) /\ Len(e) = HeaderSize + n
      /\ \A l \in 1 .. HeaderSize : e[l] = h[l]
      /\ \A l \in 1 .. n : e[HeaderSize + l] = x[l]
  <2>1. PICK c : IsConcat(c, h, x) /\ Joins(c, h, x)
    BY ONLY <1>2, <1>4, ConcatNamed
  <2>2. c = e
    BY ONLY <1>5, <2>1 DEF IsConcat
  <2> QED
    BY ONLY <1>1, <1>4, <2>1, <2>2 DEF Joins
<1>7. ASSUME NEW l \in 1 .. HeaderSize + n PROVE e[l][2] \in Nat
  <2>1. CASE l <= HeaderSize
    <3>1. l \in 1 .. HeaderSize
      BY <1>2, <2>1
    <3> QED
      BY <1>4, <1>6, <3>1
  <2>2. CASE l > HeaderSize
    <3>1. PICK i \in 1 .. n : l = HeaderSize + i
      <4>1. l - HeaderSize \in 1 .. n /\ l = HeaderSize + (l - HeaderSize)
        BY <1>2, <2>2
      <4> QED
        BY <4>1
    <3>2. x[i][2] \in Nat
      BY <1>1, <3>1 DEF GoodPayload
    <3> QED
      BY <1>6, <3>1, <3>2
  <2> QED
    BY <1>2, <2>1, <2>2
<1> QED
  BY ONLY <1>1, <1>2, <1>3, <1>5, <1>6, <1>7

\* The bytes b are those of t from the end of the m-th frame on, as far as c.
Slice(b, t, e, c) ==
    /\ IsSeq(b) /\ e \in Nat /\ c \in Nat /\ e <= c /\ c <= Len(t) /\ Len(b) = c - e
    /\ \A i \in 1 .. c - e : b[i] = t[e + i]

\* What the loop finds: the payloads of the frames j + 1 .. k.
Reaches(r, T, j, k, end) == \E x : r = [payloads |-> SubSeq(T, j + 1, k), end |-> end, bad |-> x]

\* The loop stops at o, or it takes the frame of T[j + 1] and goes on.
LoopCase(f, b, o, T, ends, m, j, c) ==
    \/ \E x : Loop(f, b, o) = Found(o, x)
    \/ /\ j + 1 <= Len(T) /\ ends[j + 1] <= c
       /\ Loop(f, b, o) = [f[ends[j + 1] - ends[m]] EXCEPT !.payloads = <<T[j + 1]>> \o @]

\* What the loop finds at the offset where the j-th frame ends.
LEMMA LoopAtFrame ==
    ASSUME NEW T, GoodPayloads(T), NEW t, NEW ends, Framed(T, t, ends),
           NEW m \in 0 .. Len(T), NEW c, NEW b, Slice(b, t, ends[m], c),
           NEW j \in m .. Len(T), ends[j] <= c, NEW f, NEW o, o = ends[j] - ends[m]
    PROVE  LoopCase(f, b, o, T, ends, m, j, c)
<1> SUFFICES \/ \E x : Loop(f, b, o) = Found(o, x)
             \/ /\ j + 1 <= Len(T) /\ ends[j + 1] <= c
                /\ Loop(f, b, o) = [f[ends[j + 1] - ends[m]] EXCEPT !.payloads = <<T[j + 1]>> \o @]
  BY DEF LoopCase
<1>1. /\ IsSeq(T) /\ Len(T) \in Nat /\ Len(t) \in Nat /\ IsSeq(t) /\ IsSeq(b)
      /\ HeaderSize \in Nat \ {0} /\ j \in Nat /\ m \in Nat /\ m <= j /\ j <= Len(T)
  BY Sizes, EmptyShape DEF GoodPayloads, Framed, Slice
<1>2. /\ ends[m] \in Nat /\ ends[j] \in Nat /\ ends[m] <= ends[j] /\ ends[j] <= Len(t)
      /\ c \in Nat /\ c <= Len(t) /\ Len(b) = c - ends[m]
  BY <1>1 DEF Framed, Slice
<1>3. PICK em, ej, lb, lt, h : em = ends[m] /\ ej = ends[j] /\ lb = Len(b) /\ lt = Len(t) /\ h = HeaderSize
  OBVIOUS
<1>a. /\ lb \in Nat /\ lt \in Nat /\ h \in Nat /\ h > 0 /\ em \in Nat /\ ej \in Nat /\ em <= ej
      /\ ej <= lt /\ c \in Nat /\ c <= lt /\ lb = c - em /\ ej <= c /\ o = ej - em
  BY <1>1, <1>2, <1>3, EmptyShape
<1>b. o \in Nat /\ o <= lb /\ em + o = ej
  BY ONLY <1>a
<1>4. o \in Nat /\ o <= Len(b) /\ o = ej - em /\ em + o = ej /\ em \in Nat /\ ej \in Nat
  BY ONLY <1>a, <1>b, <1>3
<1>5. CASE Len(b) - o < HeaderSize
  BY ONLY <1>5 DEF Loop
<1>6. CASE ~ (Len(b) - o < HeaderSize)
  <2>1. o + HeaderSize <= Len(b) /\ ej + HeaderSize <= c /\ ej < Len(t)
    <3>1. ~ (lb - o < h)
      BY ONLY <1>3, <1>6
    <3>2. o + h <= lb /\ ej + h <= c /\ ej < lt
      BY ONLY <1>a, <1>b, <3>1
    <3> QED
      BY ONLY <1>3, <3>2
  <2>2. j + 1 <= Len(T) /\ j + 1 \in 1 .. Len(T) /\ j + 1 \in 0 .. Len(T)
    <3>1. ends[Len(T)] = Len(t)
      BY DEF Framed
    <3>2. j # Len(T)
      BY ONLY <1>2, <1>3, <2>1, <3>1
    <3> QED
      BY ONLY <1>1, <3>2
  <2>3. PICK x : x = T[j + 1]
    OBVIOUS
  <2>4. GoodPayload(x)
    BY <2>2, <2>3 DEF GoodPayloads
  <2>5. /\ ends[j + 1] = ej + HeaderSize + Len(x)
        /\ Matches(t, ej, encode_frame(x)) /\ ends[j + 1] <= Len(t)
    <3>1. (j + 1) - 1 = j
      BY ONLY <1>1
    <3>2. /\ ends[j + 1] = ends[(j + 1) - 1] + HeaderSize + Len(T[j + 1])
          /\ Matches(t, ends[(j + 1) - 1], encode_frame(T[j + 1])) /\ ends[j + 1] \in 0 .. Len(t)
      BY <2>2 DEF Framed
    <3> QED
      BY <1>1, <1>3, <2>3, <3>1, <3>2
  <2>6. PICK n, e : n = Len(x) /\ e = encode_frame(x)
    OBVIOUS
  <2>7. /\ IsSeq(x) /\ n \in Nat /\ n > 0 /\ n < Oversize /\ Len(e) = HeaderSize + n
        /\ \A l \in 1 .. HeaderSize : e[l] = Header(n)[l]
        /\ \A l \in 1 .. n : e[HeaderSize + l] = x[l]
    BY <2>4, <2>6, FrameShape DEF GoodPayload
  <2>8. ASSUME NEW l \in Nat, l > 0, o + l <= Len(b), l <= HeaderSize + n
        PROVE  b[o + l] = e[l]
    <3>1. o + l \in 1 .. c - em /\ em + (o + l) = ej + l /\ l \in 1 .. Len(e)
      <4>1. o + l <= lb /\ l <= h + n /\ Len(e) = h + n /\ n \in Nat
        BY ONLY <1>3, <2>7, <2>8
      <4>2. o + l \in 1 .. c - em /\ em + (o + l) = ej + l /\ l \in 1 .. h + n
        BY ONLY <1>a, <1>b, <2>8, <4>1
      <4> QED
        BY ONLY <4>1, <4>2
    <3>2. b[o + l] = t[em + (o + l)]
      BY <1>3, <3>1 DEF Slice
    <3>3. t[ej + l] = e[l]
      BY <2>5, <2>6, <3>1 DEF Matches
    <3> QED
      BY ONLY <3>1, <3>2, <3>3
  <2>9. HeaderAt(b, o) = IF n > MaxPayload THEN Oversize ELSE n
    <3>1. PICK w, p : w = SubSeq(b, o + 1, p) /\ p = o + HeaderSize
      OBVIOUS
    <3>2. p \in Nat /\ o <= p /\ p <= Len(b) /\ p - o = HeaderSize
      BY ONLY <1>1, <1>4, <2>1, <3>1
    <3>3. \A i \in 1 .. HeaderSize : w[i] = b[o + i]
      BY ONLY <1>1, <1>4, <3>1, <3>2, SliceShape
    <3>4. ASSUME NEW i \in 1 .. HeaderSize PROVE w[i] = Header(n)[i]
      <4>1. i \in Nat /\ i > 0 /\ o + i <= Len(b) /\ i <= HeaderSize + n
        <5>1. o + h <= lb /\ n \in Nat /\ i \in 1 .. h
          BY ONLY <1>3, <2>1, <2>7, i \in 1 .. HeaderSize
        <5>2. i \in Nat /\ i > 0 /\ o + i <= lb /\ i <= h + n
          BY ONLY <1>a, <1>b, <5>1
        <5> QED
          BY ONLY <1>3, <5>2
      <4>2. b[o + i] = e[i]
        BY ONLY <2>8, <4>1
      <4> QED
        BY ONLY <2>7, <3>3, <4>2
    <3>5. decode_frame_header(w) = IF n > MaxPayload THEN Oversize ELSE n
      BY ONLY <2>7, <3>4, HeaderDecodes
    <3> QED
      BY ONLY <3>1, <3>5 DEF HeaderAt
  <2>10. CASE HeaderAt(b, o) = Oversize
    BY ONLY <1>6, <2>10 DEF Loop
  <2>11. CASE HeaderAt(b, o) # Oversize
    <3>1. HeaderAt(b, o) = n
      BY ONLY <2>9, <2>11
    <3>2. PICK next : next = o + HeaderSize + n
      OBVIOUS
    <3>3. next \in Nat /\ next = ends[j + 1] - em /\ ends[j + 1] \in Nat
          /\ (next <= Len(b) => ends[j + 1] <= c) /\ o + HeaderSize <= next
      <4>1. PICK ek : ek = ends[j + 1] /\ ek = ej + h + n /\ n \in Nat /\ next = o + h + n
        BY ONLY <1>3, <2>5, <2>6, <2>7, <3>2
      <4>2. next \in Nat /\ next = ek - em /\ ek \in Nat /\ (next <= lb => ek <= c) /\ o + h <= next
        BY ONLY <1>a, <1>b, <4>1
      <4> QED
        BY ONLY <1>3, <4>1, <4>2
    <3>4. CASE next > Len(b)
      BY ONLY <1>6, <2>11, <3>1, <3>2, <3>4 DEF Loop
    <3>5. CASE ~ (next > Len(b))
      <4>1. PICK y, p : y = SubSeq(b, p + 1, next) /\ p = o + HeaderSize
        OBVIOUS
      <4>2. p \in Nat /\ p <= next /\ next <= Len(b) /\ next - p = n
        <5>1. next = p + n /\ p = o + h /\ ~ (next > lb) /\ n \in Nat
          <6>1. ~ (next > lb) /\ n \in Nat /\ next = o + h + n /\ p = o + h
            BY ONLY <1>3, <2>7, <3>2, <3>5, <4>1
          <6> QED
            BY ONLY <6>1
        <5>2. p \in Nat /\ p <= next /\ next <= lb /\ next - p = n
          BY ONLY <1>a, <1>b, <5>1
        <5> QED
          BY ONLY <1>3, <5>2
      <4>3. IsSeq(y) /\ Len(y) = n /\ \A i \in 1 .. n : y[i] = b[p + i]
        <5>1. /\ IsSeq(SubSeq(b, p + 1, next)) /\ Len(SubSeq(b, p + 1, next)) = next - p
              /\ \A i \in 1 .. next - p : SubSeq(b, p + 1, next)[i] = b[p + i]
          BY ONLY <1>1, <3>3, <4>2, SliceShape
        <5> QED
          BY ONLY <4>1, <4>2, <5>1
      <4>4. ASSUME NEW i \in 1 .. n PROVE y[i] = x[i]
        <5>1. /\ HeaderSize + i \in Nat /\ HeaderSize + i > 0 /\ o + (HeaderSize + i) <= Len(b)
              /\ HeaderSize + i <= HeaderSize + n /\ o + (HeaderSize + i) = p + i
          BY ONLY <1>1, <1>2, <1>4, <2>7, <3>2, <4>1, <4>2
        <5>2. b[o + (HeaderSize + i)] = e[HeaderSize + i]
          BY ONLY <2>8, <5>1
        <5> QED
          BY ONLY <2>7, <4>3, <5>1, <5>2
      <4>5. y = x
        BY ONLY <2>6, <2>7, <4>3, <4>4, SameSequence
      <4>6. Loop(f, b, o) = [f[next] EXCEPT !.payloads = <<SubSeq(b, o + HeaderSize + 1, next)>> \o @]
        BY ONLY <1>6, <2>11, <3>1, <3>2, <3>5 DEF Loop
      <4>7. Loop(f, b, o) = [f[next] EXCEPT !.payloads = <<x>> \o @]
        BY ONLY <4>1, <4>5, <4>6
      <4>8. ends[j + 1] <= c /\ next = ends[j + 1] - ends[m]
        BY ONLY <1>3, <3>3, <4>2
      <4> QED
        BY ONLY <2>2, <2>3, <4>7, <4>8
    <3> QED
      BY <3>4, <3>5
  <2> QED
    BY <2>10, <2>11
<1> QED
  BY <1>5, <1>6

\* The loop finds the payloads, whole and in order.
LEMMA FramesAreWhole ==
    ASSUME NEW T, GoodPayloads(T), NEW t, NEW ends, Framed(T, t, ends),
           NEW m \in 0 .. Len(T), NEW c, NEW b, Slice(b, t, ends[m], c)
    PROVE  \E k \in m .. Len(T) :
              ends[k] <= c /\ Reaches(Frames(b), T, m, k, ends[k] - ends[m])
<1>1. /\ IsSeq(T) /\ Len(T) \in Nat /\ Len(t) \in Nat /\ IsSeq(t) /\ IsSeq(b) /\ m \in Nat
      /\ m <= Len(T) /\ ends[m] \in Nat /\ c \in Nat /\ ends[m] <= c /\ c <= Len(t)
      /\ Len(b) = c - ends[m]
  BY EmptyShape DEF GoodPayloads, Framed, Slice
<1>2. \A i \in 1 .. Len(b) : b[i][2] \in Nat
  <2> SUFFICES ASSUME NEW i \in 1 .. Len(b) PROVE b[i][2] \in Nat
    OBVIOUS
  <2>1. i \in 1 .. c - ends[m] /\ ends[m] + i \in 1 .. Len(t)
    <3>1. PICK e, lt : e = ends[m] /\ lt = Len(t)
      OBVIOUS
    <3>2. i \in 1 .. c - e /\ lt \in Nat /\ e \in Nat /\ c \in Nat /\ c <= lt
      BY ONLY <1>1, <3>1, i \in 1 .. Len(b)
    <3>3. e + i \in 1 .. lt
      BY ONLY <3>2
    <3> QED
      BY ONLY <3>1, <3>2, <3>3
  <2>2. b[i] = t[ends[m] + i]
    BY <2>1 DEF Slice
  <2>3. t[ends[m] + i][2] \in Nat
    BY <2>1 DEF Framed
  <2> QED
    BY ONLY <2>2, <2>3
<1>3. PICK f : Frames(b) = f[0] /\ \A o \in 0 .. Len(b) : f[o] = Loop(f, b, o)
  BY <1>1, <1>2, FramesLoop
<1> DEFINE At(j) == \E k \in j .. Len(T) :
                        ends[k] <= c /\ Reaches(f[ends[j] - ends[m]], T, j, k, ends[k] - ends[m])
           S == {d \in Nat : \A j \in m .. Len(T) : (Len(T) - j <= d /\ ends[j] <= c) => At(j)}
<1>4. ASSUME NEW j \in m .. Len(T), ends[j] <= c, j + 1 <= Len(T) /\ ends[j + 1] <= c => At(j + 1)
      PROVE  At(j)
  <2>0. j \in Nat /\ j \in j .. Len(T) /\ j \in 0 .. Len(T) /\ m <= j /\ m \in 0 .. Len(T)
    BY ONLY <1>1, j \in m .. Len(T)
  <2>1. PICK o : o = ends[j] - ends[m]
    OBVIOUS
  <2>2. o \in 0 .. Len(b) /\ ends[j] \in Nat
    <3>1. ends[j] \in 0 .. Len(t) /\ ends[m] <= ends[j]
      BY <2>0 DEF Framed
    <3> QED
      BY ONLY <1>1, <1>4, <2>1, <3>1
  <2>3. f[o] = Loop(f, b, o)
    BY <1>3, <2>2
  <2>4. ASSUME NEW x, Loop(f, b, o) = Found(o, x) PROVE At(j)
    <3>1. SubSeq(T, j + 1, j) = << >>
      <4>1. PICK X : T \in Seq(X)
        BY <1>1 DEF IsSeq
      <4> QED
        BY ONLY <2>0, <4>1
    <3>2. f[ends[j] - ends[m]] = [payloads |-> SubSeq(T, j + 1, j), end |-> ends[j] - ends[m], bad |-> x]
      BY ONLY <2>1, <2>3, <2>4, <3>1 DEF Found
    <3>3. Reaches(f[ends[j] - ends[m]], T, j, j, ends[j] - ends[m])
      BY ONLY <3>2 DEF Reaches
    <3> QED
      BY ONLY <1>4, <2>0, <3>3
  <2>5. ASSUME j + 1 <= Len(T), ends[j + 1] <= c,
               Loop(f, b, o) = [f[ends[j + 1] - ends[m]] EXCEPT !.payloads = <<T[j + 1]>> \o @]
        PROVE  At(j)
    <3>1. PICK k \in j + 1 .. Len(T) :
            ends[k] <= c /\ Reaches(f[ends[j + 1] - ends[m]], T, j + 1, k, ends[k] - ends[m])
      BY ONLY <1>4, <2>5
    <3>2. PICK x : f[ends[j + 1] - ends[m]]
                     = [payloads |-> SubSeq(T, (j + 1) + 1, k), end |-> ends[k] - ends[m], bad |-> x]
      BY ONLY <3>1 DEF Reaches
    <3>3. f[o] = [payloads |-> <<T[j + 1]>> \o SubSeq(T, (j + 1) + 1, k),
                  end |-> ends[k] - ends[m], bad |-> x]
      <4>1. PICK r, z, e, y : /\ r = f[ends[j + 1] - ends[m]] /\ z = SubSeq(T, (j + 1) + 1, k)
                              /\ e = ends[k] - ends[m] /\ y = T[j + 1]
        OBVIOUS
      <4>2. r = [payloads |-> z, end |-> e, bad |-> x]
        BY ONLY <3>2, <4>1
      <4>3. [r EXCEPT !.payloads = <<y>> \o @] = [payloads |-> <<y>> \o z, end |-> e, bad |-> x]
        <5>1. PICK w : w = <<y>> \o z
          OBVIOUS
        <5>2. r.payloads = z
          BY ONLY <4>2
        <5>3. [r EXCEPT !.payloads = w] = [payloads |-> w, end |-> e, bad |-> x]
          BY ONLY <4>2
        <5> QED
          BY ONLY <5>1, <5>2, <5>3
      <4>4. f[o] = [r EXCEPT !.payloads = <<y>> \o @]
        BY ONLY <2>3, <2>5, <4>1
      <4> QED
        BY ONLY <4>1, <4>3, <4>4
    <3>4. k \in Nat /\ j + 1 <= k /\ k <= Len(T) /\ k \in j .. Len(T)
      BY ONLY <1>1, <2>0, k \in j + 1 .. Len(T)
    <3>5. <<T[j + 1]>> \o SubSeq(T, (j + 1) + 1, k) = SubSeq(T, j + 1, k)
      BY ONLY <1>1, <2>0, <3>4, SliceSplits
    <3>6. Reaches(f[ends[j] - ends[m]], T, j, k, ends[k] - ends[m])
      BY ONLY <2>1, <3>3, <3>5 DEF Reaches
    <3> QED
      BY ONLY <3>1, <3>4, <3>6
  <2> HIDE DEF At
  <2>6. \/ \E x : Loop(f, b, o) = Found(o, x)
        \/ /\ j + 1 <= Len(T) /\ ends[j + 1] <= c
           /\ Loop(f, b, o) = [f[ends[j + 1] - ends[m]] EXCEPT !.payloads = <<T[j + 1]>> \o @]
    <3>1. LoopCase(f, b, o, T, ends, m, j, c)
      BY <1>4, <2>1, LoopAtFrame
    <3> QED
      BY ONLY <3>1 DEF LoopCase
  <2> QED
    BY ONLY <2>4, <2>5, <2>6
<1> HIDE DEF At
<1>5. 0 \in S
  <2> SUFFICES ASSUME NEW j \in m .. Len(T), Len(T) - j <= 0, ends[j] <= c PROVE At(j)
    OBVIOUS
  <2>1. ~ (j + 1 <= Len(T))
    BY ONLY <1>1, j \in m .. Len(T), Len(T) - j <= 0
  <2> QED
    BY ONLY <1>4, <2>1, j \in m .. Len(T), ends[j] <= c
<1>6. ASSUME NEW d \in Nat, d \in S PROVE d + 1 \in S
  <2> SUFFICES ASSUME NEW j \in m .. Len(T), Len(T) - j <= d + 1, ends[j] <= c PROVE At(j)
    OBVIOUS
  <2>1. ASSUME j + 1 <= Len(T), ends[j + 1] <= c PROVE At(j + 1)
    <3>1. j + 1 \in m .. Len(T) /\ Len(T) - (j + 1) <= d
      BY ONLY <1>1, <2>1, j \in m .. Len(T), Len(T) - j <= d + 1, d \in Nat
    <3>2. \A i \in m .. Len(T) : (Len(T) - i <= d /\ ends[i] <= c) => At(i)
      BY ONLY <1>6
    <3> QED
      BY ONLY <2>1, <3>1, <3>2
  <2> QED
    BY ONLY <1>4, <2>1, j \in m .. Len(T), ends[j] <= c
<1> HIDE DEF S
<1>7. Len(T) \in S
  BY <1>1, <1>5, <1>6, SetInduction
<1>8. m \in m .. Len(T) /\ Len(T) - m <= Len(T)
  BY ONLY <1>1
<1>9. At(m)
  <2>1. \A j \in m .. Len(T) : (Len(T) - j <= Len(T) /\ ends[j] <= c) => At(j)
    BY ONLY <1>7 DEF S
  <2> QED
    BY ONLY <1>1, <1>8, <2>1
<1>10. ends[m] - ends[m] = 0
  BY ONLY <1>1
<1> QED
  BY ONLY <1>3, <1>9, <1>10 DEF At

-----------------------------------------------------------------------------
(* Pieces of the stream *)

\* A piece's first j bytes, the rest of it, and two pieces that meet, are pieces.
LEMMA SlicePrefix ==
    ASSUME NEW t, IsSeq(t), NEW s, NEW e, NEW c, Slice(s, t, e, c), NEW j \in 0 .. Len(s)
    PROVE  Slice(SubSeq(s, 1, j), t, e, e + j)
<1>1. IsSeq(s) /\ e \in Nat /\ c \in Nat /\ e <= c /\ c <= Len(t) /\ Len(s) = c - e
  BY DEF Slice
<1>2. PICK r : r = SubSeq(s, 1, j)
  OBVIOUS
<1>3. IsSeq(r) /\ Len(r) = j /\ \A i \in 1 .. j : r[i] = s[i]
  BY ONLY <1>1, <1>2, j \in 0 .. Len(s), PrefixShape
<1>4. PICK lt : lt = Len(t) /\ lt \in Nat
  BY EmptyShape
<1>5. j \in Nat /\ j <= c - e
  BY ONLY <1>1, j \in 0 .. Len(s)
<1>6. e + j \in Nat /\ e <= e + j /\ e + j <= lt /\ (e + j) - e = j /\ \A i \in 1 .. j : i \in 1 .. c - e
  BY ONLY <1>1, <1>4, <1>5
<1>7. \A i \in 1 .. j : r[i] = t[e + i]
  BY <1>3, <1>6 DEF Slice
<1> QED
  BY ONLY <1>1, <1>2, <1>3, <1>4, <1>6, <1>7 DEF Slice

LEMMA SliceSuffix ==
    ASSUME NEW t, IsSeq(t), NEW s, NEW e, NEW c, Slice(s, t, e, c), NEW j \in 0 .. Len(s)
    PROVE  Slice(SubSeq(s, j + 1, Len(s)), t, e + j, c)
<1>1. IsSeq(s) /\ e \in Nat /\ c \in Nat /\ e <= c /\ c <= Len(t) /\ Len(s) = c - e
  BY DEF Slice
<1>2. PICK r : r = SubSeq(s, j + 1, Len(s))
  OBVIOUS
<1>5. j \in Nat /\ j <= c - e /\ j <= Len(s)
  BY ONLY <1>1, j \in 0 .. Len(s)
<1>3. IsSeq(r) /\ Len(r) = Len(s) - j /\ \A i \in 1 .. Len(s) - j : r[i] = s[j + i]
  BY ONLY <1>1, <1>2, <1>5, SuffixShape
<1>6. /\ e + j \in Nat /\ e + j <= c /\ (c - e) - j = c - (e + j)
      /\ \A i \in 1 .. c - (e + j) : j + i \in 1 .. c - e /\ e + (j + i) = (e + j) + i
  BY ONLY <1>1, <1>5
<1>7. \A i \in 1 .. c - (e + j) : r[i] = t[(e + j) + i]
  <2> SUFFICES ASSUME NEW i \in 1 .. c - (e + j) PROVE r[i] = t[(e + j) + i]
    OBVIOUS
  <2>1. j + i \in 1 .. c - e /\ e + (j + i) = (e + j) + i /\ i \in 1 .. Len(s) - j
    BY ONLY <1>1, <1>6, i \in 1 .. c - (e + j)
  <2>2. s[j + i] = t[e + (j + i)]
    BY <2>1 DEF Slice
  <2> QED
    BY ONLY <1>3, <2>1, <2>2
<1> QED
  BY ONLY <1>1, <1>2, <1>3, <1>6, <1>7 DEF Slice

LEMMA SliceJoin ==
    ASSUME NEW t, NEW s, NEW r, NEW e, NEW m, NEW c, Slice(s, t, e, m), Slice(r, t, m, c)
    PROVE  Slice(s \o r, t, e, c)
<1>1. /\ IsSeq(s) /\ IsSeq(r) /\ e \in Nat /\ m \in Nat /\ c \in Nat /\ e <= m /\ m <= c
      /\ c <= Len(t) /\ Len(s) = m - e /\ Len(r) = c - m
  BY DEF Slice
<1>2. PICK a : IsConcat(a, s, r) /\ Joins(a, s, r)
  BY ONLY <1>1, ConcatNamed
<1>3. Len(a) = c - e /\ e <= c
  <2>1. Len(a) = (m - e) + (c - m)
    BY ONLY <1>1, <1>2 DEF Joins
  <2> QED
    BY ONLY <1>1, <2>1
<1>4. ASSUME NEW i \in 1 .. c - e PROVE a[i] = t[e + i]
  <2>1. CASE i <= m - e
    <3>1. i \in 1 .. m - e
      BY ONLY <1>1, <1>4, <2>1
    <3>2. s[i] = t[e + i]
      BY <3>1 DEF Slice
    <3>3. a[i] = s[i]
      BY ONLY <1>1, <1>2, <3>1 DEF Joins
    <3> QED
      BY ONLY <3>2, <3>3
  <2>2. CASE ~ (i <= m - e)
    <3>1. PICK l \in 1 .. c - m : i = (m - e) + l /\ e + i = m + l
      <4>1. i - (m - e) \in 1 .. c - m /\ i = (m - e) + (i - (m - e)) /\ e + i = m + (i - (m - e))
        BY ONLY <1>1, <1>4, <2>2
      <4> QED
        BY ONLY <4>1
    <3>2. r[l] = t[m + l]
      BY <3>1 DEF Slice
    <3>3. a[(m - e) + l] = r[l]
      BY ONLY <1>1, <1>2, <3>1 DEF Joins
    <3> QED
      BY ONLY <3>1, <3>2, <3>3
  <2> QED
    BY ONLY <2>1, <2>2
<1> QED
  BY ONLY <1>1, <1>2, <1>3, <1>4 DEF Slice, IsConcat, Joins

\* The write queue holds the frames behind the first q.
Queued(T, wq, ends, c) ==
    \E q \in 0 .. Len(T) : /\ Len(wq) = Len(T) - q /\ c = ends[q]
                           /\ \A i \in 1 .. Len(wq) : wq[i] = encode_frame(T[q + i])

\* t and ends are the stream of T; the client's buffer begins behind its e-th
\* frame, the bytes under way follow the buffer, and while the connection is
\* open the write queue follows them.
Stands(T, e, rx, dn, wq, open, t, ends, m, c) ==
    /\ Framed(T, t, ends) /\ e \in 0 .. Len(T)
    /\ Slice(rx, t, ends[e], m) /\ Slice(dn, t, m, c)
    /\ open => Queued(T, wq, ends, c)

Aligned(T, e, rx, dn, wq, open) ==
    \E t, ends, m, c : Stands(T, e, rx, dn, wq, open, t, ends, m, c)

\* A new connection has nothing sent, buffered, under way or queued.
LEMMA AlignedEmpty ==
    ASSUME NEW open
    PROVE  Aligned(<< >>, 0, << >>, << >>, << >>, open)
<1>1. PICK ends : ends = [i \in {0} |-> 0]
  OBVIOUS
<1>2. PICK z : z = << >>
  OBVIOUS
<1>3. IsSeq(z) /\ Len(z) = 0
  BY <1>2, EmptyShape
<1>4. ends[0] = 0
  BY <1>1
<1>5. Framed(z, z, ends)
  BY ONLY <1>3, <1>4 DEF Framed
<1>6. Slice(z, z, 0, 0)
  BY ONLY <1>3 DEF Slice
<1>7. Queued(z, z, ends, 0)
  <2>1. 0 \in 0 .. Len(z) /\ Len(z) = Len(z) - 0 /\ 0 = ends[0] /\ \A i \in 1 .. Len(z) : FALSE
    BY ONLY <1>3, <1>4
  <2> QED
    BY ONLY <2>1 DEF Queued
<1>8. Stands(z, 0, z, z, z, open, z, ends, 0, 0)
  BY ONLY <1>3, <1>4, <1>5, <1>6, <1>7 DEF Stands
<1> QED
  BY ONLY <1>2, <1>8 DEF Aligned

\* A connection that is not open any more.
LEMMA AlignedCut ==
    ASSUME NEW T, NEW e, NEW rx, NEW dn, NEW wq, NEW open, Aligned(T, e, rx, dn, wq, open),
           NEW j \in 0 .. Len(dn), NEW w
    PROVE  Aligned(T, e, rx, SubSeq(dn, 1, j), w, FALSE)
<1>1. PICK t, ends, m, c : Stands(T, e, rx, dn, wq, open, t, ends, m, c)
  BY DEF Aligned
<1>2. IsSeq(t) /\ Slice(dn, t, m, c)
  BY ONLY <1>1 DEF Stands, Framed
<1>3. Slice(SubSeq(dn, 1, j), t, m, m + j)
  BY ONLY <1>2, j \in 0 .. Len(dn), SlicePrefix
<1>4. Stands(T, e, rx, SubSeq(dn, 1, j), w, FALSE, t, ends, m, m + j)
  BY ONLY <1>1, <1>3 DEF Stands
<1> QED
  BY ONLY <1>4 DEF Aligned

\* Once the link is no longer open, the write queue does not matter.
LEMMA AlignedClosed ==
    ASSUME NEW T, NEW e, NEW rx, NEW dn, NEW wq, NEW open, Aligned(T, e, rx, dn, wq, open), NEW w
    PROVE  Aligned(T, e, rx, dn, w, FALSE)
<1>1. PICK t, ends, m, c : Stands(T, e, rx, dn, wq, open, t, ends, m, c)
  BY DEF Aligned
<1>2. Stands(T, e, rx, dn, w, FALSE, t, ends, m, c)
  BY ONLY <1>1 DEF Stands
<1> QED
  BY ONLY <1>2 DEF Aligned

\* A frame is written.
LEMMA AlignedWrite ==
    ASSUME NEW T, GoodPayloads(T), NEW e, NEW rx, NEW dn, NEW wq, IsSeq(wq), wq # << >>,
           Aligned(T, e, rx, dn, wq, TRUE)
    PROVE  Aligned(T, e, rx, dn \o Head(wq), Tail(wq), TRUE)
<1>1. PICK t, ends, m, c : Stands(T, e, rx, dn, wq, TRUE, t, ends, m, c)
  BY DEF Aligned
<1>2. PICK q \in 0 .. Len(T) : /\ Len(wq) = Len(T) - q /\ c = ends[q]
                               /\ \A i \in 1 .. Len(wq) : wq[i] = encode_frame(T[q + i])
  BY ONLY <1>1 DEF Stands, Queued
<1>3. PICK h, r : h = Head(wq) /\ r = Tail(wq)
  OBVIOUS
<1>4. /\ IsSeq(r) /\ Len(wq) \in Nat /\ Len(wq) > 0 /\ Len(r) = Len(wq) - 1
      /\ \A i \in 1 .. Len(wq) - 1 : r[i] = wq[i + 1]
      /\ h = wq[1]
  BY ONLY <1>3, IsSeq(wq), wq # << >>, TailShape
<1>5. PICK lT : lT = Len(T) /\ lT \in Nat
  BY EmptyShape DEF GoodPayloads
<1>6. /\ q \in Nat /\ q + 1 \in 1 .. lT /\ q + 1 \in 0 .. lT /\ (q + 1) - 1 = q
      /\ Len(r) = lT - (q + 1) /\ 1 \in 1 .. Len(wq)
      /\ \A i \in 1 .. Len(r) : i + 1 \in 1 .. Len(wq) /\ q + (i + 1) = (q + 1) + i
                                /\ i \in 1 .. Len(wq) - 1
  <2>1. PICK lw : lw = Len(wq) /\ lw = lT - q /\ lw \in Nat /\ lw > 0 /\ Len(r) = lw - 1 /\ q \in 0 .. lT
    BY ONLY <1>2, <1>4, <1>5
  <2>2. /\ q \in Nat /\ q + 1 \in 1 .. lT /\ q + 1 \in 0 .. lT /\ (q + 1) - 1 = q
        /\ lw - 1 = lT - (q + 1) /\ 1 \in 1 .. lw
        /\ \A i \in 1 .. lw - 1 : i + 1 \in 1 .. lw /\ q + (i + 1) = (q + 1) + i
    BY ONLY <1>5, <2>1
  <2> QED
    BY ONLY <2>1, <2>2
<1>7. PICK x : x = T[q + 1]
  OBVIOUS
<1>8. h = encode_frame(x)
  BY ONLY <1>2, <1>4, <1>6, <1>7
<1>9. GoodPayload(x)
  BY <1>5, <1>6, <1>7 DEF GoodPayloads
<1>10. IsSeq(h) /\ Len(h) = HeaderSize + Len(x) /\ Len(x) \in Nat /\ HeaderSize \in Nat
  BY ONLY <1>8, <1>9, FrameShape, Sizes
<1>11. /\ ends[q + 1] = c + HeaderSize + Len(x) /\ Matches(t, c, h)
       /\ ends[q + 1] \in 0 .. Len(t)
  <2>1. Framed(T, t, ends)
    BY ONLY <1>1 DEF Stands
  <2>2. /\ ends[q + 1] = ends[(q + 1) - 1] + HeaderSize + Len(T[q + 1])
        /\ Matches(t, ends[(q + 1) - 1], encode_frame(T[q + 1]))
        /\ ends[q + 1] \in 0 .. Len(t)
    BY ONLY <1>5, <1>6, <2>1 DEF Framed
  <2> QED
    BY ONLY <1>2, <1>6, <1>7, <1>8, <2>2
<1>12. Slice(h, t, c, ends[q + 1])
  <2>1. c \in Nat
    BY ONLY <1>1 DEF Stands, Slice
  <2>2. PICK d, n, g, lt : d = ends[q + 1] /\ n = Len(x) /\ g = HeaderSize /\ lt = Len(t)
    OBVIOUS
  <2>3. d = c + g + n /\ n \in Nat /\ g \in Nat /\ d \in 0 .. lt /\ Len(h) = g + n /\ lt \in Nat
    <3>1. IsSeq(t)
      BY ONLY <1>1 DEF Stands, Framed
    <3> QED
      BY ONLY <1>10, <1>11, <2>2, <3>1, EmptyShape
  <2>4. d \in Nat /\ c <= d /\ d <= lt /\ g + n = d - c
    BY ONLY <2>1, <2>3
  <2>5. \A i \in 1 .. d - c : h[i] = t[c + i]
    BY ONLY <1>11, <2>3, <2>4 DEF Matches
  <2> QED
    BY ONLY <1>10, <2>1, <2>2, <2>3, <2>4, <2>5 DEF Slice
<1>13. Slice(dn \o h, t, m, ends[q + 1])
  <2>1. Slice(dn, t, m, c)
    BY ONLY <1>1 DEF Stands
  <2> QED
    BY ONLY <1>12, <2>1, SliceJoin
<1>14. Queued(T, r, ends, ends[q + 1])
  <2>1. ASSUME NEW i \in 1 .. Len(r) PROVE r[i] = encode_frame(T[(q + 1) + i])
    BY ONLY <1>2, <1>4, <1>6, <2>1
  <2>2. q + 1 \in 0 .. Len(T) /\ Len(r) = Len(T) - (q + 1)
    BY ONLY <1>5, <1>6
  <2> QED
    BY ONLY <2>1, <2>2 DEF Queued
<1>15. Stands(T, e, rx, dn \o h, r, TRUE, t, ends, m, ends[q + 1])
  BY ONLY <1>1, <1>13, <1>14 DEF Stands
<1> QED
  BY ONLY <1>3, <1>15 DEF Aligned

\* One more payload: its frame is the end of the stream.
Grown(t, ends, u, fs, n) ==
    /\ Len(t) <= Len(u) /\ \A i \in 1 .. Len(t) : u[i] = t[i]
    /\ \A i \in 0 .. n : fs[i] = ends[i]

\* A piece of a stream is the same piece of a longer one.
LEMMA SliceGrown ==
    ASSUME NEW s, NEW t, NEW u, NEW a, NEW c, Slice(s, t, a, c), IsSeq(t), IsSeq(u),
           Len(t) <= Len(u), \A i \in 1 .. Len(t) : u[i] = t[i]
    PROVE  Slice(s, u, a, c)
<1>1. PICK lt, lu : lt = Len(t) /\ lu = Len(u) /\ lt \in Nat /\ lu \in Nat /\ lt <= lu
  BY EmptyShape
<1>2. IsSeq(s) /\ a \in Nat /\ c \in Nat /\ a <= c /\ c <= lt /\ Len(s) = c - a
  BY <1>1 DEF Slice
<1>3. c <= lu /\ \A i \in 1 .. c - a : a + i \in 1 .. lt
  BY ONLY <1>1, <1>2
<1>4. \A i \in 1 .. c - a : s[i] = u[a + i]
  <2> SUFFICES ASSUME NEW i \in 1 .. c - a PROVE s[i] = u[a + i]
    OBVIOUS
  <2>1. s[i] = t[a + i]
    BY DEF Slice
  <2> QED
    BY <1>1, <1>3, <2>1
<1> QED
  BY ONLY <1>1, <1>2, <1>3, <1>4 DEF Slice

\* A payload more: its frame follows the stream so far.
LEMMA FramedGrows ==
    ASSUME NEW T, GoodPayloads(T), NEW x, GoodPayload(x), NEW t, NEW ends, Framed(T, t, ends)
    PROVE  \E u, fs : Framed(Append(T, x), u, fs) /\ Grown(t, ends, u, fs, Len(T))
<1>1. PICK U, h, n : U = Append(T, x) /\ h = encode_frame(x) /\ n = Len(T)
  OBVIOUS
<1>2. IsSeq(T) /\ IsSeq(t) /\ n \in Nat /\ HeaderSize \in Nat
  BY <1>1, EmptyShape, Sizes DEF GoodPayloads, Framed
<1>3. IsSeq(U) /\ Len(U) = n + 1 /\ (\A i \in 1 .. n : U[i] = T[i]) /\ U[n + 1] = x
  BY ONLY <1>1, <1>2, AppendShape
<1>4. /\ IsSeq(h) /\ Len(h) = HeaderSize + Len(x) /\ Len(x) \in Nat
      /\ \A l \in 1 .. HeaderSize + Len(x) : h[l][2] \in Nat
  BY <1>1, FrameShape
<1>5. PICK u : IsConcat(u, t, h) /\ Joins(u, t, h)
  BY ONLY <1>2, <1>4, ConcatNamed
<1>6. PICK lt, lh, lu : lt = Len(t) /\ lh = Len(h) /\ lu = Len(u) /\ lt \in Nat /\ lh \in Nat
  BY ONLY <1>2, <1>4, EmptyShape
<1>7. /\ IsSeq(u) /\ lu = lt + lh /\ lu \in Nat /\ lt <= lu
      /\ \A i \in 1 .. lt : u[i] = t[i]
      /\ \A i \in 1 .. lh : u[lt + i] = h[i]
  <2>1. /\ IsSeq(u) /\ lu = lt + lh
        /\ \A i \in 1 .. lt : u[i] = t[i]
        /\ \A i \in 1 .. lh : u[lt + i] = h[i]
    BY ONLY <1>5, <1>6 DEF Joins
  <2>2. lu \in Nat /\ lt <= lu
    BY ONLY <1>6, <2>1
  <2> QED
    BY ONLY <2>1, <2>2
<1>8. PICK fs : fs = [i \in 0 .. n + 1 |-> IF i = n + 1 THEN lu ELSE ends[i]]
  OBVIOUS
<1>9. fs[n + 1] = lu /\ \A i \in 0 .. n : fs[i] = ends[i]
  BY ONLY <1>2, <1>8
<1>10. /\ ends[0] = 0 /\ ends[n] = lt
       /\ \A i \in 1 .. lt : t[i][2] \in Nat
       /\ \A i \in 0 .. n : ends[i] \in 0 .. lt
       /\ \A i, j \in 0 .. n : i <= j => ends[i] <= ends[j]
       /\ \A i \in 1 .. n : /\ ends[i] = ends[i - 1] + HeaderSize + Len(T[i])
                            /\ Matches(t, ends[i - 1], encode_frame(T[i]))
  BY <1>1, <1>6 DEF Framed
<1>11. fs[0] = 0 /\ 0 \in 0 .. n /\ n \in 0 .. n
  BY ONLY <1>2, <1>9, <1>10
<1>12. ASSUME NEW i \in 1 .. lu PROVE u[i][2] \in Nat
  <2>1. CASE i <= lt
    <3>1. i \in 1 .. lt
      BY ONLY <1>6, <1>7, <1>12, <2>1
    <3> QED
      BY ONLY <1>7, <1>10, <3>1
  <2>2. CASE ~ (i <= lt)
    <3>1. PICK l \in 1 .. lh : i = lt + l
      <4>1. i - lt \in 1 .. lh /\ i = lt + (i - lt)
        BY ONLY <1>6, <1>7, <1>12, <2>2
      <4> QED
        BY ONLY <4>1
    <3> QED
      BY ONLY <1>4, <1>6, <1>7, <3>1
  <2> QED
    BY ONLY <2>1, <2>2
<1>13. \A i \in 0 .. n + 1 : i = n + 1 \/ i \in 0 .. n
  BY ONLY <1>2
<1>14. ASSUME NEW i \in 0 .. n + 1 PROVE fs[i] \in 0 .. lu
  <2>1. lu \in 0 .. lu /\ \A v \in 0 .. lt : v \in 0 .. lu
    BY ONLY <1>6, <1>7
  <2> QED
    BY ONLY <1>9, <1>10, <1>13, <1>14, <2>1
<1>15. ASSUME NEW i \in 0 .. n + 1, NEW j \in 0 .. n + 1, i <= j PROVE fs[i] <= fs[j]
  <2>1. CASE j = n + 1
    BY ONLY <1>7, <1>9, <1>14, <2>1
  <2>2. CASE j # n + 1
    <3>1. i \in 0 .. n /\ j \in 0 .. n
      BY ONLY <1>2, <1>15, <2>2
    <3> QED
      BY ONLY <1>9, <1>10, <1>15, <3>1
  <2> QED
    BY ONLY <2>1, <2>2
<1>16. ASSUME NEW i \in 1 .. n + 1
       PROVE  fs[i] = fs[i - 1] + HeaderSize + Len(U[i]) /\ Matches(u, fs[i - 1], encode_frame(U[i]))
  <2>1. CASE i = n + 1
    <3>1. i - 1 = n /\ fs[i - 1] = lt /\ fs[i] = lu /\ U[i] = x
      <4>1. i - 1 = n
        BY ONLY <1>2, <2>1
      <4> QED
        BY ONLY <1>3, <1>9, <1>10, <1>11, <2>1, <4>1
    <3>2. lu = lt + HeaderSize + Len(x)
      <4>1. PICK p, y : p = HeaderSize /\ y = Len(x) /\ p \in Nat /\ y \in Nat /\ lh = p + y
        BY ONLY <1>2, <1>4, <1>6
      <4>2. lu = lt + p + y
        BY ONLY <1>6, <1>7, <4>1
      <4> QED
        BY ONLY <4>1, <4>2
    <3>3. Matches(u, lt, h)
      BY ONLY <1>6, <1>7 DEF Matches
    <3> QED
      BY ONLY <1>1, <3>1, <3>2, <3>3
  <2>2. CASE i # n + 1
    <3>1. i \in 1 .. n /\ i \in 0 .. n /\ i - 1 \in 0 .. n
      BY ONLY <1>2, <1>16, <2>2
    <3>2. fs[i] = ends[i] /\ fs[i - 1] = ends[i - 1] /\ U[i] = T[i]
      BY ONLY <1>3, <1>9, <3>1
    <3>3. PICK a, f, y : a = ends[i - 1] /\ f = encode_frame(T[i]) /\ y = T[i]
      OBVIOUS
    <3>4. Matches(t, a, f) /\ ends[i] = a + HeaderSize + Len(y) /\ ends[i] \in 0 .. lt /\ a \in 0 .. lt
      BY ONLY <1>10, <3>1, <3>3
    <3>5. GoodPayload(y)
      BY <1>1, <3>1, <3>3 DEF GoodPayloads
    <3>6. Len(f) = HeaderSize + Len(y) /\ Len(y) \in Nat
      BY ONLY <3>3, <3>5, FrameShape
    <3>7. ASSUME NEW l \in 1 .. Len(f) PROVE u[a + l] = f[l]
      <4>1. a + l \in 1 .. lt
        <5>1. PICK p, z, d : /\ p = HeaderSize /\ z = Len(y) /\ p \in Nat /\ z \in Nat
                             /\ l \in 1 .. p + z /\ d = a + p + z /\ d \in 0 .. lt
          BY ONLY <1>2, <3>4, <3>6, <3>7
        <5> QED
          BY ONLY <1>6, <3>4, <5>1
      <4>2. t[a + l] = f[l]
        BY ONLY <3>4, <3>7 DEF Matches
      <4> QED
        BY ONLY <1>7, <4>1, <4>2
    <3>8. Matches(u, a, f)
      BY ONLY <3>7 DEF Matches
    <3> QED
      BY ONLY <3>2, <3>3, <3>4, <3>8
  <2> QED
    BY ONLY <2>1, <2>2
<1>17. Framed(U, u, fs)
  <2>1. fs[Len(U)] = Len(u)
    BY ONLY <1>3, <1>6, <1>9
  <2>2. \A i, j \in 0 .. Len(U) : i <= j => fs[i] <= fs[j]
    BY ONLY <1>3, <1>15
  <2>3. \A i \in 1 .. Len(U) : /\ fs[i] = fs[i - 1] + HeaderSize + Len(U[i])
                               /\ Matches(u, fs[i - 1], encode_frame(U[i]))
    BY ONLY <1>3, <1>16
  <2>4. (\A i \in 0 .. Len(U) : fs[i] \in 0 .. Len(u)) /\ (\A i \in 1 .. Len(u) : u[i][2] \in Nat)
    BY ONLY <1>3, <1>6, <1>12, <1>14
  <2> QED
    BY ONLY <1>7, <1>11, <2>1, <2>2, <2>3, <2>4 DEF Framed
<1>18. Grown(t, ends, u, fs, Len(T))
  BY ONLY <1>1, <1>6, <1>7, <1>9 DEF Grown
<1> QED
  BY ONLY <1>1, <1>17, <1>18

\* ClientSession::send queues one more frame behind everything.
LEMMA AlignedSend ==
    ASSUME NEW T, GoodPayloads(T), NEW x, GoodPayload(x), NEW e, NEW rx, NEW dn,
           NEW wq, IsSeq(wq), NEW open, Aligned(T, e, rx, dn, wq, open)
    PROVE  Aligned(Append(T, x), e, rx, dn, Append(wq, encode_frame(x)), open)
<1>1. PICK t, ends, m, c : Stands(T, e, rx, dn, wq, open, t, ends, m, c)
  BY DEF Aligned
<1>2. Framed(T, t, ends) /\ e \in 0 .. Len(T) /\ Slice(rx, t, ends[e], m) /\ Slice(dn, t, m, c)
  BY ONLY <1>1 DEF Stands
<1>3. PICK U, h, w, n : U = Append(T, x) /\ h = encode_frame(x) /\ w = Append(wq, h) /\ n = Len(T)
  OBVIOUS
<1>4. PICK u, fs : Framed(U, u, fs) /\ Grown(t, ends, u, fs, n)
  BY <1>2, <1>3, FramedGrows
<1>5. IsSeq(T) /\ n \in Nat
  BY <1>3, EmptyShape DEF GoodPayloads
<1>6. IsSeq(U) /\ Len(U) = n + 1 /\ (\A i \in 1 .. n : U[i] = T[i]) /\ U[n + 1] = x
  BY ONLY <1>3, <1>5, AppendShape
<1>7. PICK lw : lw = Len(wq) /\ lw \in Nat
  BY EmptyShape
<1>8. Len(w) = lw + 1 /\ (\A i \in 1 .. lw : w[i] = wq[i]) /\ w[lw + 1] = h
  BY ONLY <1>3, <1>7, IsSeq(wq), AppendShape
<1>9. e \in 0 .. Len(U) /\ fs[e] = ends[e]
  <2>1. e \in 0 .. n /\ e \in 0 .. n + 1
    BY ONLY <1>2, <1>3, <1>5
  <2> QED
    BY ONLY <1>4, <1>6, <2>1 DEF Grown
<1>10. Slice(rx, u, fs[e], m) /\ Slice(dn, u, m, c)
  <2>1. IsSeq(t) /\ IsSeq(u) /\ Len(t) <= Len(u) /\ \A i \in 1 .. Len(t) : u[i] = t[i]
    BY ONLY <1>2, <1>4 DEF Framed, Grown
  <2>2. PICK a : a = ends[e]
    OBVIOUS
  <2>3. Slice(rx, u, a, m)
    BY ONLY <1>2, <2>1, <2>2, SliceGrown
  <2>4. Slice(dn, u, m, c)
    BY ONLY <1>2, <2>1, SliceGrown
  <2> QED
    BY ONLY <1>9, <2>2, <2>3, <2>4
<1>11. ASSUME open PROVE Queued(U, w, fs, c)
  <2>1. PICK q \in 0 .. Len(T) : /\ lw = Len(T) - q /\ c = ends[q]
                                 /\ \A i \in 1 .. lw : wq[i] = encode_frame(T[q + i])
    BY ONLY <1>1, <1>7, <1>11 DEF Stands, Queued
  <2>2. q \in 0 .. n /\ lw = n - q
    BY ONLY <1>3, <2>1
  <2>3. q \in 0 .. n + 1 /\ lw + 1 = (n + 1) - q /\ q + (lw + 1) = n + 1
    BY ONLY <1>5, <2>2
  <2>4. c = fs[q]
    BY ONLY <1>4, <2>1, <2>2 DEF Grown
  <2>5. ASSUME NEW i \in 1 .. lw + 1 PROVE w[i] = encode_frame(U[q + i])
    <3>1. CASE i = lw + 1
      BY ONLY <1>3, <1>6, <1>8, <2>3, <3>1
    <3>2. CASE i # lw + 1
      <4>1. i \in 1 .. lw /\ q + i \in 1 .. n
        BY ONLY <1>5, <1>7, <2>2, <2>5, <3>2
      <4> QED
        BY ONLY <1>6, <1>8, <2>1, <4>1
    <3> QED
      BY ONLY <3>1, <3>2
  <2>6. q \in 0 .. Len(U) /\ Len(w) = Len(U) - q /\ \A i \in 1 .. Len(w) : w[i] = encode_frame(U[q + i])
    BY ONLY <1>6, <1>8, <2>3, <2>5
  <2> QED
    BY ONLY <2>4, <2>6 DEF Queued
<1>12. Stands(U, e, rx, dn, w, open, u, fs, m, c)
  BY ONLY <1>4, <1>9, <1>10, <1>11 DEF Stands
<1> QED
  BY ONLY <1>3, <1>12 DEF Aligned

\* onReadyRead: whole payloads, the next ones, and what is left begins with a
\* header again.
LEMMA AlignedRead ==
    ASSUME NEW T, GoodPayloads(T), NEW e, NEW rx, NEW dn, NEW wq, NEW open,
           Aligned(T, e, rx, dn, wq, open), NEW n \in 1 .. Len(dn), NEW b,
           b = rx \o SubSeq(dn, 1, n)
    PROVE  \E k \in e .. Len(T) :
              /\ IsSeq(b) /\ e \in Nat /\ Frames(b).payloads = SubSeq(T, e + 1, k)
              /\ Aligned(T, k, SubSeq(b, Frames(b).end + 1, Len(b)),
                         SubSeq(dn, n + 1, Len(dn)), wq, open)
<1>1. PICK t, ends, m, c : Stands(T, e, rx, dn, wq, open, t, ends, m, c)
  BY DEF Aligned
<1>2. /\ Framed(T, t, ends) /\ e \in 0 .. Len(T) /\ Slice(rx, t, ends[e], m) /\ Slice(dn, t, m, c)
      /\ IsSeq(t)
  BY ONLY <1>1 DEF Stands, Framed
<1>3. IsSeq(T) /\ Len(T) \in Nat /\ IsSeq(dn) /\ n \in 0 .. Len(dn) /\ e \in Nat
  <2>1. IsSeq(T) /\ IsSeq(dn)
    BY <1>2 DEF GoodPayloads, Slice
  <2>2. Len(T) \in Nat /\ Len(dn) \in Nat
    BY ONLY <2>1, EmptyShape
  <2> QED
    BY ONLY <1>2, <2>1, <2>2, n \in 1 .. Len(dn)
<1>4. Slice(SubSeq(dn, 1, n), t, m, m + n)
  BY ONLY <1>2, <1>3, SlicePrefix
<1>5. Slice(SubSeq(dn, n + 1, Len(dn)), t, m + n, c)
  BY ONLY <1>2, <1>3, SliceSuffix
<1>6. Slice(b, t, ends[e], m + n)
  <2>1. PICK a, s : a = ends[e] /\ s = SubSeq(dn, 1, n)
    OBVIOUS
  <2>2. Slice(rx \o s, t, a, m + n)
    BY ONLY <1>2, <1>4, <2>1, SliceJoin
  <2> QED
    BY ONLY <2>1, <2>2, b = rx \o SubSeq(dn, 1, n)
<1>7. PICK k \in e .. Len(T) :
        ends[k] <= m + n /\ Reaches(Frames(b), T, e, k, ends[k] - ends[e])
  BY <1>2, <1>6, FramesAreWhole
<1>8. PICK p : Frames(b).payloads = SubSeq(T, e + 1, k) /\ Frames(b).end = p /\ p = ends[k] - ends[e]
  <2>1. PICK r, s, z : r = Frames(b) /\ s = SubSeq(T, e + 1, k) /\ z = ends[k] - ends[e]
    OBVIOUS
  <2>2. PICK x : r = [payloads |-> s, end |-> z, bad |-> x]
    BY ONLY <1>7, <2>1 DEF Reaches
  <2>3. r.payloads = s /\ r.end = z
    BY ONLY <2>2
  <2> QED
    BY ONLY <2>1, <2>3
<1>9. IsSeq(b) /\ p \in 0 .. Len(b) /\ ends[e] + p = ends[k] /\ k \in 0 .. Len(T)
  <2>1. k \in 0 .. Len(T) /\ e <= k
    BY ONLY <1>3, <1>7
  <2>2. PICK a, d, lt : /\ a = ends[e] /\ d = ends[k] /\ lt = Len(t)
                        /\ a \in 0 .. lt /\ d \in 0 .. lt /\ a <= d
    BY ONLY <1>2, <2>1 DEF Framed
  <2>3. IsSeq(b) /\ Len(b) = (m + n) - a /\ m + n \in Nat /\ d <= m + n /\ p = d - a
    BY ONLY <1>6, <1>7, <1>8, <2>2 DEF Slice
  <2>4. lt \in Nat
    BY ONLY <1>2, <2>2, EmptyShape
  <2>5. p \in 0 .. (m + n) - a /\ a + p = d
    <3>1. PICK v : v = m + n
      OBVIOUS
    <3>2. v \in Nat /\ d <= v /\ p = d - a /\ a \in 0 .. lt /\ d \in 0 .. lt /\ a <= d
      BY ONLY <2>2, <2>3, <3>1
    <3>3. p \in 0 .. v - a /\ a + p = d
      BY ONLY <2>4, <3>2
    <3> QED
      BY ONLY <3>1, <3>3
  <2> QED
    BY ONLY <2>1, <2>2, <2>3, <2>5
<1>10. Slice(SubSeq(b, p + 1, Len(b)), t, ends[k], m + n)
  <2>1. PICK a, d : a = ends[e] /\ d = a + p
    OBVIOUS
  <2>2. Slice(SubSeq(b, p + 1, Len(b)), t, a + p, m + n)
    BY ONLY <1>2, <1>6, <1>9, <2>1, SliceSuffix
  <2> QED
    BY ONLY <1>9, <2>1, <2>2
<1>11. Stands(T, k, SubSeq(b, p + 1, Len(b)), SubSeq(dn, n + 1, Len(dn)), wq, open,
              t, ends, m + n, c)
  BY ONLY <1>1, <1>2, <1>5, <1>9, <1>10 DEF Stands
<1>12. Aligned(T, k, SubSeq(b, p + 1, Len(b)), SubSeq(dn, n + 1, Len(dn)), wq, open)
  BY ONLY <1>11 DEF Aligned
<1> QED
  BY ONLY <1>3, <1>7, <1>8, <1>9, <1>12

-----------------------------------------------------------------------------
(* The invariant *)

\* No connection is used, and none comes to be used without a call.
Quiet == \/ sock \in {"unconnected", "closing"}
         \/ sock = "connecting" /\ pendingClose

\* connectToHost is only called when no connection is used: startAuth is the
\* one place that asks for it, and a failed attempt has asked for disconnection.
SignalNames == {"connected", "disconnected", "error", "message"}
Signals(q) == IsSeq(q) /\ \A i \in 1 .. Len(q) : q[i].signal \in SignalNames

Calls ==
    /\ IsSeq(netq)
    /\ \A i \in 1 .. Len(netq) : /\ netq[i].call \in {"connect", "disconnect", "send"}
                                 /\ netq[i].call = "connect" => i = 1 /\ Quiet /\ conn < attempts

\* A failed attempt has asked for disconnection.
Idle ==
    ~ accepted /\ ~ box /\ pending_action = "" =>
        IF netq = << >> THEN Quiet ELSE netq[Len(netq)].call = "disconnect"

\* There are no more connections than attempts.
Attempts ==
    /\ sock \in {"unconnected", "connecting", "connected", "closing"}
    /\ conn \in Nat /\ attempts \in Nat /\ conn <= attempts /\ attempts <= MaxAttempts
    /\ sock # "unconnected" => conn > 0

Dialog == Calls /\ Idle /\ Attempts /\ Signals(guiq)

Fields == {"userId", "username", "authenticated", "disconnected", "reading", "length",
           "write_queue", "writing"}

Shapes ==
    /\ DOMAIN link = Conn /\ DOMAIN down = Conn /\ DOMAIN toClient = Conn
    /\ DOMAIN emitted = Conn /\ DOMAIN session = Conn
    /\ \A k \in Conn : DOMAIN session[k] = Fields

\* What was emitted is the beginning of what was sent.
Kept(k) ==
    /\ IsSeq(emitted[k]) /\ GoodPayloads(toClient[k])
    /\ IsSeq(session[k].write_queue)
    /\ Len(emitted[k]) <= Len(toClient[k])
    /\ \A i \in 1 .. Len(emitted[k]) : emitted[k][i] = toClient[k][i]

\* The client's buffer, the bytes under way and the write queue are the rest.
Follows(k) == Aligned(toClient[k], Len(emitted[k]), rx_buffer, down[k],
                      session[k].write_queue, link[k] = "open")

Unused(k) ==
    /\ link[k] = "none" /\ session[k].reading = "none" /\ session[k].authenticated = FALSE
    /\ session[k].write_queue = << >> /\ down[k] = << >>
    /\ toClient[k] = << >> /\ emitted[k] = << >>
    /\ \A x \in pool : x.conn # k

Ahead(k) == k > conn \/ (k = conn /\ sock = "connecting")

Streams ==
    /\ Shapes /\ conn \in Nat
    /\ \A x \in pool : "conn" \in DOMAIN x /\ x.conn \in Conn
    /\ \A k \in Conn : Kept(k)
    /\ \A k \in Conn : Ahead(k) => Unused(k)
    /\ sock = "connecting" => rx_buffer = << >>
    /\ sock = "connected" /\ conn \in Conn => Follows(conn)

\* Connections are numbered in the order of the attempts.
LEMMA ConnNumbers == \A k \in Conn : k \in Nat
  BY ConnectionAssumption DEF Conn

\* The invariant says what StreamKeepsOrder does.
LEMMA StreamInvariant == Streams => StreamKeepsOrder
<1> SUFFICES ASSUME Streams, NEW k \in Conn
             PROVE  /\ Len(emitted[k]) <= Len(toClient[k])
                    /\ emitted[k] = SubSeq(toClient[k], 1, Len(emitted[k]))
  BY DEF StreamKeepsOrder
<1>1. PICK E, T, n : E = emitted[k] /\ T = toClient[k] /\ n = Len(E)
  OBVIOUS
<1>2. IsSeq(E) /\ IsSeq(T) /\ n <= Len(T) /\ \A i \in 1 .. n : E[i] = T[i]
  BY <1>1 DEF Streams, Kept, GoodPayloads
<1>3. n \in 0 .. Len(T)
  <2>1. n \in Nat /\ Len(T) \in Nat
    BY ONLY <1>1, <1>2, EmptyShape
  <2> QED
    BY ONLY <1>2, <2>1
<1>4. PICK P : P = SubSeq(T, 1, n)
  OBVIOUS
<1>5. IsSeq(P) /\ Len(P) = n /\ \A i \in 1 .. n : P[i] = T[i]
  BY ONLY <1>2, <1>3, <1>4, PrefixShape
<1>6. E = P
  BY ONLY <1>1, <1>2, <1>5, SameSequence
<1> QED
  BY ONLY <1>1, <1>2, <1>4, <1>6

\* Before anything is clicked there is no call, no signal and no connection.
LEMMA InitDialog == ConnInit => Dialog
<1> SUFFICES ASSUME ConnInit PROVE Dialog
  OBVIOUS
<1>1. IsSeq(netq) /\ IsSeq(guiq) /\ Len(netq) = 0 /\ Len(guiq) = 0 /\ netq = << >>
  BY EmptyShape DEF ConnInit
<1>2. sock = "unconnected" /\ conn = 0 /\ attempts = 0 /\ MaxAttempts \in Nat
  BY ConnectionAssumption DEF ConnInit
<1> QED
  BY ONLY <1>1, <1>2 DEF Dialog, Calls, Idle, Attempts, Signals, Quiet

\* ... and no byte.
LEMMA InitStreams == ConnInit => Streams
<1> SUFFICES ASSUME ConnInit PROVE Streams
  OBVIOUS
<1>1. Shapes /\ conn \in Nat /\ pool = {} /\ sock = "unconnected"
  BY DEF ConnInit, Shapes, Fields
<1>2. ASSUME NEW k \in Conn PROVE Kept(k) /\ Unused(k)
  <2>1. /\ emitted[k] = << >> /\ toClient[k] = << >> /\ down[k] = << >> /\ link[k] = "none"
        /\ session[k].write_queue = << >> /\ session[k].reading = "none"
        /\ session[k].authenticated = FALSE
    BY DEF ConnInit
  <2>2. GoodPayloads(<< >>)
    BY EmptyShape DEF GoodPayloads
  <2>3. Kept(k)
    BY <2>1, <2>2, EmptyShape DEF Kept
  <2> QED
    BY <1>1, <2>1, <2>3 DEF Unused
<1> QED
  BY <1>1, <1>2 DEF Streams

-----------------------------------------------------------------------------
(* The server's steps *)

\* A step at connection k changes nothing of the others.
ServerStep(k) ==
    /\ UNCHANGED <<sock, conn, rx_buffer, emitted>>
    /\ DOMAIN link' = Conn /\ DOMAIN down' = Conn /\ DOMAIN toClient' = Conn
    /\ DOMAIN session' = Conn /\ DOMAIN session'[k] = Fields
    /\ \A j \in Conn : j # k => /\ link'[j] = link[j] /\ down'[j] = down[j]
                                /\ session'[j] = session[j] /\ toClient'[j] = toClient[j]
    /\ \A x \in pool' : /\ "conn" \in DOMAIN x /\ x.conn \in Conn
                        /\ x.conn = k \/ \E y \in pool : y.conn = x.conn

\* A step of the server at connection k has to care for k only.
LEMMA ServerKeeps ==
    ASSUME Streams, NEW k \in Conn, ~ Unused(k), ServerStep(k), Kept(k)',
           sock = "connected" /\ k = conn => Follows(k)'
    PROVE  Streams'
<1>1. Shapes'
  BY DEF Streams, Shapes, ServerStep
<1>2. ASSUME NEW j \in Conn PROVE Kept(j)'
  <2>1. CASE j = k
    BY <2>1
  <2>2. CASE j # k
    BY <2>2 DEF Streams, Kept, ServerStep
  <2> QED
    BY <2>1, <2>2
<1>3. ASSUME NEW j \in Conn, Ahead(j)' PROVE Unused(j)'
  <2>1. Ahead(j)
    BY <1>3 DEF Ahead, ServerStep
  <2>2. Unused(j) /\ j # k
    BY <2>1 DEF Streams
  <2> QED
    BY <2>2 DEF Unused, ServerStep
<1>4. ASSUME sock' = "connected", conn' \in Conn PROVE Follows(conn)'
  <2>1. sock = "connected" /\ conn \in Conn /\ conn' = conn
    BY <1>4 DEF ServerStep
  <2>2. CASE conn = k
    <3>1. Follows(k)'
      BY <2>1, <2>2
    <3> QED
      BY <2>1, <2>2, <3>1 DEF Follows
  <2>3. CASE conn # k
    <3>1. Follows(conn)
      BY <2>1 DEF Streams
    <3> QED
      BY <2>1, <2>3, <3>1 DEF Follows, ServerStep
  <2> QED
    BY <2>2, <2>3
<1>5. (sock = "connecting" => rx_buffer = << >>)' /\ conn' \in Nat
  BY DEF Streams, ServerStep
<1>6. \A x \in pool' : "conn" \in DOMAIN x /\ x.conn \in Conn
  BY DEF ServerStep
<1> QED
  BY <1>1, <1>2, <1>3, <1>4, <1>5, <1>6 DEF Streams

\* A message of an allowed size is a payload that a frame can carry.
LEMMA PayloadIsGood ==
    ASSUME NEW m, m.size \in 1 .. Oversize - 1
    PROVE  GoodPayload(Payload(m))
<1>1. PICK n, p : n = m.size /\ p = Payload(m) /\ n \in 1 .. Oversize - 1
  OBVIOUS
<1>2. Oversize \in Nat /\ n \in Nat
  BY <1>1, Sizes
<1>3. p = [i \in 1 .. n |-> <<m, i>>]
  BY <1>1 DEF Payload
<1>4. p = [i \in 1 .. n |-> p[i]]
  BY ONLY <1>3
<1>5. IsSeq(p) /\ Len(p) = n
  BY ONLY <1>2, <1>4, FunctionShape
<1>6. \A i \in 1 .. n : p[i][2] \in Nat
  BY ONLY <1>2, <1>3
<1> QED
  BY ONLY <1>1, <1>5, <1>6 DEF GoodPayload

\* A sequence that is only longer begins as before.
LEMMA StillPrefix ==
    ASSUME NEW E, IsSeq(E), NEW T, GoodPayloads(T), NEW x, GoodPayload(x),
           Len(E) <= Len(T), \A i \in 1 .. Len(E) : E[i] = T[i]
    PROVE  /\ GoodPayloads(Append(T, x)) /\ Len(E) <= Len(Append(T, x))
           /\ \A i \in 1 .. Len(E) : E[i] = Append(T, x)[i]
<1>1. PICK e, n, U : e = Len(E) /\ n = Len(T) /\ U = Append(T, x) /\ e \in Nat /\ n \in Nat /\ e <= n
  BY EmptyShape DEF GoodPayloads
<1>2. IsSeq(T) /\ \A i \in 1 .. n : GoodPayload(T[i])
  BY <1>1 DEF GoodPayloads
<1>3. IsSeq(U) /\ Len(U) = n + 1 /\ (\A i \in 1 .. n : U[i] = T[i]) /\ U[n + 1] = x
  BY ONLY <1>1, <1>2, AppendShape
<1>4. (\A i \in 1 .. e : i \in 1 .. n) /\ e <= n + 1 /\ \A i \in 1 .. n + 1 : i = n + 1 \/ i \in 1 .. n
  BY ONLY <1>1
<1>5. \A i \in 1 .. e : E[i] = U[i]
  BY <1>1, <1>3, <1>4
<1>6. \A i \in 1 .. n + 1 : GoodPayload(U[i])
  BY <1>2, <1>3, <1>4
<1>7. GoodPayloads(U)
  BY ONLY <1>3, <1>6 DEF GoodPayloads
<1> QED
  BY ONLY <1>1, <1>3, <1>4, <1>5, <1>7

\* ClientSession::send.
LEMMA SendingKeeps ==
    ASSUME Streams, NEW k \in Conn, NEW m, GoodPayload(Payload(m)), Sending(k, m),
           UNCHANGED <<rx_buffer, emitted, link, down>>
    PROVE  /\ DOMAIN toClient' = Conn /\ DOMAIN session' = Conn /\ DOMAIN session'[k] = Fields
           /\ \A j \in Conn : j # k => session'[j] = session[j] /\ toClient'[j] = toClient[j]
           /\ Kept(k)' /\ (Follows(k) => Follows(k)')
<1>1. Shapes /\ Kept(k)
  BY DEF Streams
<1>2. /\ DOMAIN toClient' = Conn /\ DOMAIN session' = Conn /\ DOMAIN session'[k] = Fields
      /\ \A j \in Conn : j # k => session'[j] = session[j] /\ toClient'[j] = toClient[j]
  BY <1>1 DEF Shapes, Sending, Fields
<1>3. CASE session[k].disconnected
  <2>1. toClient' = toClient
    BY <1>3 DEF Sending
  <2>2. session'[k].write_queue = session[k].write_queue
    BY <1>1, <1>3 DEF Sending, Shapes, Fields
  <2>3. Kept(k)'
    BY <1>1, <2>1, <2>2 DEF Kept
  <2>4. Follows(k) => Follows(k)'
    BY <2>1, <2>2 DEF Follows
  <2> QED
    BY <1>2, <2>3, <2>4
<1>4. CASE ~ session[k].disconnected
  <2>1. PICK T, x, wq, h, E : /\ T = toClient[k] /\ x = Payload(m) /\ wq = session[k].write_queue
                              /\ h = encode_frame(x) /\ E = emitted[k]
    OBVIOUS
  <2>2. toClient'[k] = Append(T, x)
    BY <1>1, <1>4, <2>1 DEF Sending, Shapes
  <2>3. session'[k].write_queue = Append(wq, h)
    BY <1>1, <1>4, <2>1 DEF Sending, Shapes, Fields
  <2>4. /\ IsSeq(E) /\ GoodPayloads(T) /\ IsSeq(wq) /\ Len(E) <= Len(T)
        /\ \A i \in 1 .. Len(E) : E[i] = T[i]
    BY ONLY <1>1, <2>1 DEF Kept
  <2>5. GoodPayload(x)
    BY <2>1
  <2>6. /\ GoodPayloads(Append(T, x)) /\ Len(E) <= Len(Append(T, x))
        /\ \A i \in 1 .. Len(E) : E[i] = Append(T, x)[i]
    BY ONLY <2>4, <2>5, StillPrefix
  <2>7. IsSeq(Append(wq, h))
    BY ONLY <2>4, AppendShape
  <2>8. emitted'[k] = E /\ down'[k] = down[k] /\ link'[k] = link[k] /\ rx_buffer' = rx_buffer
    BY <2>1
  <2>9. Kept(k)'
    BY ONLY <2>2, <2>3, <2>4, <2>6, <2>7, <2>8 DEF Kept
  <2>10. ASSUME Follows(k) PROVE Follows(k)'
    <3>1. Aligned(T, Len(E), rx_buffer, down[k], wq, link[k] = "open")
      BY ONLY <2>1, <2>10 DEF Follows
    <3>2. Aligned(Append(T, x), Len(E), rx_buffer, down[k], Append(wq, h), link[k] = "open")
      BY ONLY <2>1, <2>4, <2>5, <3>1, AlignedSend
    <3> QED
      BY ONLY <2>2, <2>3, <2>8, <3>2 DEF Follows
  <2> QED
    BY <1>2, <2>9, <2>10
<1> QED
  BY <1>3, <1>4

\* The end of a session clears its write queue, and its connection is not open.
LEMMA DisconnectedKeeps ==
    ASSUME Streams, NEW k \in Conn, Disconnected(k), link'[k] # "open",
           UNCHANGED <<rx_buffer, emitted, down, toClient>>
    PROVE  /\ DOMAIN session' = Conn /\ DOMAIN session'[k] = Fields
           /\ \A j \in Conn : j # k => session'[j] = session[j]
           /\ Kept(k)' /\ (Follows(k) => Follows(k)')
<1>1. Shapes /\ Kept(k)
  BY DEF Streams
<1>2. /\ DOMAIN session' = Conn /\ DOMAIN session'[k] = Fields
      /\ session'[k].write_queue = << >>
      /\ \A j \in Conn : j # k => session'[j] = session[j]
  BY <1>1 DEF Disconnected, Shapes, Fields
<1>3. Kept(k)'
  BY <1>1, <1>2, EmptyShape DEF Kept
<1>4. ASSUME Follows(k) PROVE Follows(k)'
  <2>1. Aligned(toClient[k], Len(emitted[k]), rx_buffer, down[k], << >>, FALSE)
    BY ONLY <1>4, AlignedClosed DEF Follows
  <2>2. (link'[k] = "open") = FALSE
    OBVIOUS
  <2> QED
    BY <1>2, <2>1, <2>2 DEF Follows
<1> QED
  BY <1>2, <1>3, <1>4

\* A step that writes, reads and queues nothing at k leaves its stream alone.
LEMMA SameKeeps ==
    ASSUME Streams, NEW k \in Conn, UNCHANGED <<rx_buffer, emitted, down, toClient, link>>,
           session'[k].write_queue = session[k].write_queue
    PROVE  Kept(k)' /\ (Follows(k) => Follows(k)')
<1>1. Kept(k)
  BY DEF Streams
<1>2. Kept(k)'
  BY <1>1 DEF Kept
<1>3. Follows(k) => Follows(k)'
  BY DEF Follows
<1> QED
  BY <1>2, <1>3

\* One lemma per step of the server: each keeps the streams.
LEMMA AcceptStep == ASSUME Streams, NEW k \in Conn, do_accept(k) PROVE Streams'
<1>1. Shapes /\ ~ Unused(k)
  BY DEF Streams, do_accept, Unused
<1>2. /\ DOMAIN session' = Conn /\ DOMAIN session'[k] = Fields
      /\ session'[k].write_queue = session[k].write_queue
      /\ \A j \in Conn : j # k => session'[j] = session[j]
  BY <1>1 DEF do_accept, Shapes, Fields
<1>3. UNCHANGED <<sock, conn, rx_buffer, emitted, link, down, toClient, pool>>
  BY DEF do_accept, netVars
<1>4. Kept(k)' /\ (Follows(k) => Follows(k)')
  BY <1>2, <1>3, SameKeeps
<1>5. ServerStep(k)
  BY <1>1, <1>2, <1>3 DEF ServerStep, Shapes, Streams
<1> QED
  BY <1>1, <1>4, <1>5, ServerKeeps DEF Streams

LEMMA ReadHeaderStep == ASSUME Streams, NEW k \in Conn, do_read_header(k) PROVE Streams'
<1>1. Shapes /\ ~ Unused(k)
  BY DEF Streams, do_read_header, Unused
<1>2. UNCHANGED <<sock, conn, rx_buffer, emitted, down, toClient, pool>>
  BY DEF do_read_header, netVars
<1> DEFINE n == decode_frame_header(SubSeq(up[k], 1, HeaderSize))
<1>3. CASE n = Oversize
  <2>1. Disconnected(k) /\ link' = [link EXCEPT ![k] = IF @ = "open" THEN "lost" ELSE @]
    BY <1>3 DEF do_read_header
  <2>2. link'[k] # "open" /\ DOMAIN link' = Conn /\ \A j \in Conn : j # k => link'[j] = link[j]
    BY <1>1, <2>1 DEF Shapes
  <2>3. /\ DOMAIN session' = Conn /\ DOMAIN session'[k] = Fields
        /\ \A j \in Conn : j # k => session'[j] = session[j]
        /\ Kept(k)' /\ (Follows(k) => Follows(k)')
    BY <1>2, <2>1, <2>2, DisconnectedKeeps
  <2>4. ServerStep(k)
    BY <1>1, <1>2, <2>2, <2>3 DEF ServerStep, Shapes, Streams
  <2> QED
    BY <1>1, <2>3, <2>4, ServerKeeps DEF Streams
<1>4. CASE n # Oversize
  <2>1. /\ session' = [session EXCEPT ![k].length = n, ![k].reading = "body"]
        /\ link' = link
    BY <1>4 DEF do_read_header
  <2> HIDE DEF n
  <2>2. /\ DOMAIN session' = Conn /\ DOMAIN session'[k] = Fields
        /\ session'[k].write_queue = session[k].write_queue
        /\ \A j \in Conn : j # k => session'[j] = session[j]
    BY <1>1, <2>1 DEF Shapes, Fields
  <2>3. Kept(k)' /\ (Follows(k) => Follows(k)')
    BY <1>2, <2>1, <2>2, SameKeeps
  <2>4. ServerStep(k)
    BY <1>1, <1>2, <2>1, <2>2 DEF ServerStep, Shapes, Streams
  <2> QED
    BY <1>1, <2>3, <2>4, ServerKeeps DEF Streams
<1> QED
  BY <1>3, <1>4

LEMMA ReadBodyStep == ASSUME Streams, NEW k \in Conn, do_read_body(k) PROVE Streams'
<1>1. Shapes /\ ~ Unused(k)
  BY DEF Streams, do_read_body, Unused
<1>2. /\ DOMAIN session' = Conn /\ DOMAIN session'[k] = Fields
      /\ session'[k].write_queue = session[k].write_queue
      /\ \A j \in Conn : j # k => session'[j] = session[j]
  BY <1>1 DEF do_read_body, Shapes, Fields
<1>3. UNCHANGED <<sock, conn, rx_buffer, emitted, link, down, toClient>>
  BY DEF do_read_body, netVars
<1>4. Kept(k)' /\ (Follows(k) => Follows(k)')
  BY <1>2, <1>3, SameKeeps
<1>5. PICK msg : pool' = pool \cup {[conn |-> k, msg |-> msg, step |-> "received", userId |-> 0]}
  BY DEF do_read_body
<1>6. ServerStep(k)
  BY <1>1, <1>2, <1>3, <1>5 DEF ServerStep, Shapes, Streams
<1> QED
  BY <1>1, <1>4, <1>6, ServerKeeps DEF Streams

LEMMA ReadFailsStep == ASSUME Streams, NEW k \in Conn, ReadFails(k) PROVE Streams'
<1>1. Shapes /\ ~ Unused(k)
  BY DEF Streams, ReadFails, Unused
<1>2. UNCHANGED <<sock, conn, rx_buffer, emitted, link, down, toClient, pool>>
  BY DEF ReadFails, netVars
<1>3. Disconnected(k) /\ link'[k] # "open"
  BY <1>2 DEF ReadFails
<1>4. /\ DOMAIN session' = Conn /\ DOMAIN session'[k] = Fields
      /\ \A j \in Conn : j # k => session'[j] = session[j]
      /\ Kept(k)' /\ (Follows(k) => Follows(k)')
  BY <1>2, <1>3, DisconnectedKeeps
<1>5. ServerStep(k)
  BY <1>1, <1>2, <1>4 DEF ServerStep, Shapes, Streams
<1> QED
  BY <1>1, <1>4, <1>5, ServerKeeps DEF Streams

LEMMA WriteStep == ASSUME Streams, NEW k \in Conn, do_write(k) PROVE Streams'
<1>1. Shapes /\ Kept(k) /\ ~ Unused(k) /\ session[k].write_queue # << >>
  BY DEF Streams, do_write, Unused
<1>2. UNCHANGED <<sock, conn, rx_buffer, emitted, link, toClient, pool>>
  BY DEF do_write, netVars
<1>3. CASE link[k] = "open"
  <2>1. PICK wq, dn, T, E : wq = session[k].write_queue /\ dn = down[k] /\ T = toClient[k] /\ E = emitted[k]
    OBVIOUS
  <2>2. /\ down' = [down EXCEPT ![k] = @ \o Head(session[k].write_queue)]
        /\ session' = [session EXCEPT ![k].write_queue = Tail(@),
                                      ![k].writing = Len(session[k].write_queue) > 1]
    BY <1>3 DEF do_write
  <2>3. down'[k] = dn \o Head(wq) /\ DOMAIN down' = Conn /\ \A j \in Conn : j # k => down'[j] = down[j]
    BY <1>1, <2>1, <2>2 DEF Shapes
  <2>4. /\ DOMAIN session' = Conn /\ DOMAIN session'[k] = Fields
        /\ session'[k].write_queue = Tail(wq)
        /\ \A j \in Conn : j # k => session'[j] = session[j]
    BY <1>1, <2>1, <2>2 DEF Shapes, Fields
  <2>5. IsSeq(wq) /\ wq # << >> /\ GoodPayloads(T)
    BY ONLY <1>1, <2>1 DEF Kept
  <2>6. ASSUME sock = "connected", k = conn PROVE Follows(k)'
    <3>1. Follows(k)
      BY <2>6 DEF Streams
    <3>2. (link[k] = "open") = TRUE /\ (link'[k] = "open") = TRUE
      BY <1>2, <1>3
    <3>3. Aligned(T, Len(E), rx_buffer, dn, wq, TRUE)
      BY ONLY <2>1, <3>1, <3>2 DEF Follows
    <3>4. Aligned(T, Len(E), rx_buffer, dn \o Head(wq), Tail(wq), TRUE)
      BY ONLY <2>5, <3>3, AlignedWrite
    <3>5. toClient'[k] = T /\ emitted'[k] = E /\ rx_buffer' = rx_buffer
      BY <1>2, <2>1
    <3> QED
      BY ONLY <2>3, <2>4, <3>2, <3>4, <3>5 DEF Follows
  <2>7. Kept(k)'
    BY <1>1, <1>2, <2>1, <2>4, <2>5, TailShape DEF Kept
  <2>8. ServerStep(k)
    BY <1>1, <1>2, <2>3, <2>4 DEF ServerStep, Shapes, Streams
  <2> QED
    BY <1>1, <2>6, <2>7, <2>8, ServerKeeps
<1>4. CASE link[k] # "open"
  <2>1. Disconnected(k) /\ down' = down /\ link'[k] # "open"
    BY <1>2, <1>4 DEF do_write
  <2>2. /\ DOMAIN session' = Conn /\ DOMAIN session'[k] = Fields
        /\ \A j \in Conn : j # k => session'[j] = session[j]
        /\ Kept(k)' /\ (Follows(k) => Follows(k)')
    BY <1>2, <2>1, DisconnectedKeeps
  <2>3. ServerStep(k)
    BY <1>1, <1>2, <2>1, <2>2 DEF ServerStep, Shapes, Streams
  <2> QED
    BY <1>1, <2>2, <2>3, ServerKeeps DEF Streams
<1> QED
  BY <1>3, <1>4

LEMMA PoolTaskStep == ASSUME Streams, NEW a \in pool, PoolTask(a) PROVE Streams'
<1>1. PICK k \in Conn : k = a.conn
  BY DEF Streams
<1>2. Shapes /\ ~ Unused(k) /\ "conn" \in DOMAIN a
  BY <1>1 DEF Streams, Unused
<1>3. UNCHANGED <<sock, conn, rx_buffer, emitted, link, down>>
  BY DEF PoolTask, netVars
<1> DEFINE Smaller == pool' \subseteq pool
           Replaced == \E b : "conn" \in DOMAIN b /\ b.conn = k /\ pool' \subseteq pool \cup {b}
           Sends == \E m : m.size \in 1 .. Oversize - 1 /\ Sending(k, m)
           Quietly == /\ toClient' = toClient /\ DOMAIN session' = Conn /\ DOMAIN session'[k] = Fields
                      /\ session'[k].write_queue = session[k].write_queue
                      /\ \A j \in Conn : j # k => session'[j] = session[j]
<1>4. (Smaller \/ Replaced) /\ (Sends \/ Quietly)
  <2>0. 1 \in 1 .. Oversize - 1
    BY Sizes
  <2>1. CASE Verify(a)
    <3>1. CASE pool' = pool \ {a} /\ Sending(a.conn, AuthResponse(FALSE, 0))
      <4>1. AuthResponse(FALSE, 0).size = 1
        BY DEF AuthResponse
      <4> QED
        BY <1>1, <2>0, <3>1, <4>1
    <3>2. ASSUME NEW u, pool' = (pool \ {a}) \cup {[a EXCEPT !.step = "verified", !.userId = u]},
                 UNCHANGED <<session, toClient>>
          PROVE  Replaced /\ Quietly
      <4>1. PICK b : b = [a EXCEPT !.step = "verified", !.userId = u]
        OBVIOUS
      <4>2. "conn" \in DOMAIN b /\ b.conn = k
        BY <1>1, <1>2, <4>1
      <4>3. pool' \subseteq pool \cup {b}
        BY <3>2, <4>1
      <4>4. Quietly
        BY <1>2, <3>2 DEF Shapes
      <4> QED
        BY <4>2, <4>3, <4>4
    <3> QED
      BY <2>1, <3>1, <3>2 DEF Verify
  <2>2. CASE set_auth(a)
    <3>1. Quietly
      BY <1>1, <1>2, <2>2 DEF set_auth, Shapes, Fields
    <3>2. PICK b : b = [a EXCEPT !.step = "authenticated"]
      OBVIOUS
    <3>3. "conn" \in DOMAIN b /\ b.conn = k
      BY <1>1, <1>2, <3>2
    <3>4. pool' \subseteq pool \cup {b}
      BY <2>2, <3>2 DEF set_auth
    <3> QED
      BY <3>1, <3>3, <3>4
  <2>3. CASE Answer(a)
    <3>1. AuthResponse(TRUE, a.userId).size = 1
      BY DEF AuthResponse
    <3> QED
      BY <1>1, <2>0, <2>3, <3>1 DEF Answer
  <2>4. CASE HandleRequest(a)
    <3>1. PICK m : m.size = 1 /\ Sending(k, m)
      <4>1. Push(0, 1).size = 1 /\ ErrorMsg("not_authenticated").size = 1
        BY DEF Push, ErrorMsg
      <4> QED
        BY <1>1, <2>4, <4>1 DEF HandleRequest
    <3> QED
      BY <2>0, <2>4, <3>1 DEF HandleRequest
  <2> QED
    BY <2>1, <2>2, <2>3, <2>4 DEF PoolTask
<1>5. \A x \in pool' : /\ "conn" \in DOMAIN x /\ x.conn \in Conn
                       /\ x.conn = k \/ \E y \in pool : y.conn = x.conn
  <2>1. CASE Smaller
    BY <2>1 DEF Streams
  <2>2. CASE Replaced
    BY <2>2 DEF Streams
  <2> QED
    BY <1>4, <2>1, <2>2
<1>6. CASE Sends
  <2>1. PICK m : m.size \in 1 .. Oversize - 1 /\ Sending(k, m)
    BY <1>6
  <2>2. GoodPayload(Payload(m))
    BY ONLY <2>1, PayloadIsGood
  <2>3. /\ DOMAIN toClient' = Conn /\ DOMAIN session' = Conn /\ DOMAIN session'[k] = Fields
        /\ \A j \in Conn : j # k => session'[j] = session[j] /\ toClient'[j] = toClient[j]
        /\ Kept(k)' /\ (Follows(k) => Follows(k)')
    BY <1>3, <2>1, <2>2, SendingKeeps
  <2>4. ServerStep(k)
    BY <1>2, <1>3, <1>5, <2>3 DEF ServerStep, Shapes
  <2> QED
    BY <1>2, <2>3, <2>4, ServerKeeps DEF Streams
<1>7. CASE Quietly
  <2>1. Kept(k)' /\ (Follows(k) => Follows(k)')
    BY <1>3, <1>7, SameKeeps
  <2>2. ServerStep(k)
    BY <1>2, <1>3, <1>5, <1>7 DEF ServerStep, Shapes
  <2> QED
    BY <1>2, <2>1, <2>2, ServerKeeps DEF Streams
<1> QED
  BY <1>4, <1>6, <1>7

LEMMA PushStep == ASSUME Streams, NEW k \in Conn, PushMessage(k) PROVE Streams'
<1>1. Shapes /\ ~ Unused(k)
  BY DEF Streams, PushMessage, Unused
<1>2. UNCHANGED <<sock, conn, rx_buffer, emitted, link, down, pool>>
  BY DEF PushMessage, netVars
<1>3. PICK m : m.size \in 1 .. Oversize - 1 /\ Sending(k, m)
  <2>1. PICK size \in PushSizes : Sending(k, Push(pushes + 1, size))
    BY DEF PushMessage
  <2>2. Push(pushes + 1, size).size = size
    BY DEF Push
  <2> QED
    BY <2>1, <2>2, Sizes
<1>4. GoodPayload(Payload(m))
  BY ONLY <1>3, PayloadIsGood
<1>5. /\ DOMAIN toClient' = Conn /\ DOMAIN session' = Conn /\ DOMAIN session'[k] = Fields
      /\ \A j \in Conn : j # k => session'[j] = session[j] /\ toClient'[j] = toClient[j]
      /\ Kept(k)' /\ (Follows(k) => Follows(k)')
  BY <1>2, <1>3, <1>4, SendingKeeps
<1>6. ServerStep(k)
  BY <1>1, <1>2, <1>5 DEF ServerStep, Shapes, Streams
<1> QED
  BY <1>1, <1>5, <1>6, ServerKeeps DEF Streams

LEMMA LoseLinkStep == ASSUME Streams, NEW k \in Conn, LoseLink(k) PROVE Streams'
<1>1. Shapes /\ Kept(k) /\ ~ Unused(k)
  BY DEF Streams, LoseLink, Unused
<1>2. UNCHANGED <<sock, conn, rx_buffer, emitted, session, toClient, pool>>
  BY DEF LoseLink, netVars, serverVars
<1>3. link'[k] = "lost" /\ DOMAIN link' = Conn /\ \A j \in Conn : j # k => link'[j] = link[j]
  BY <1>1 DEF LoseLink, Shapes
<1>4. PICK n \in 0 .. Len(down[k]) : down' = [down EXCEPT ![k] = SubSeq(@, 1, n)]
  BY DEF LoseLink
<1>5. /\ down'[k] = SubSeq(down[k], 1, n) /\ DOMAIN down' = Conn
      /\ \A j \in Conn : j # k => down'[j] = down[j]
  BY <1>1, <1>4 DEF Shapes
<1>6. Kept(k)'
  BY <1>1, <1>2 DEF Kept
<1>7. ASSUME Follows(k) PROVE Follows(k)'
  <2>1. PICK T, e, dn, wq : /\ T = toClient[k] /\ e = Len(emitted[k]) /\ dn = down[k]
                            /\ wq = session[k].write_queue
    OBVIOUS
  <2>2. Aligned(T, e, rx_buffer, dn, wq, link[k] = "open") /\ n \in 0 .. Len(dn)
    BY ONLY <1>4, <1>7, <2>1 DEF Follows
  <2>3. Aligned(T, e, rx_buffer, SubSeq(dn, 1, n), wq, FALSE)
    BY ONLY <2>2, AlignedCut
  <2>4. (link'[k] = "open") = FALSE
    BY <1>3
  <2> QED
    BY <1>2, <1>5, <2>1, <2>3, <2>4 DEF Follows
<1>8. ServerStep(k)
  BY <1>1, <1>2, <1>3, <1>5 DEF ServerStep, Shapes, Streams
<1> QED
  BY <1>1, <1>6, <1>7, <1>8, ServerKeeps DEF Streams

-----------------------------------------------------------------------------
(* The dialog *)

\* A step of the dialog touches no stream.
LEMMA DialogKeepsStreams ==
    ASSUME Streams, UNCHANGED <<sock, conn, rx_buffer, link, down, session, pool, toClient, emitted>>
    PROVE  Streams'
<1>1. Shapes'
  BY DEF Streams, Shapes
<1>2. \A k \in Conn : Kept(k)'
  BY DEF Streams, Kept
<1>3. \A k \in Conn : Ahead(k)' => Unused(k)'
  BY DEF Streams, Ahead, Unused
<1>4. sock' = "connected" /\ conn' \in Conn => Follows(conn)'
  BY DEF Streams, Follows
<1> QED
  BY <1>1, <1>2, <1>3, <1>4 DEF Streams

\* A step of the server touches no part of the dialog.
LEMMA ServerKeepsDialog ==
    ASSUME Dialog, UNCHANGED <<accepted, box, pending_action, netq, guiq, sock, pendingClose, conn, attempts>>
    PROVE  Dialog'
  BY DEF Dialog, Calls, Idle, Attempts, Signals, Quiet

\* A call that is not connectToHost is posted.
LEMMA PostKeeps ==
    ASSUME Calls, NEW c, c.call \in {"disconnect", "send"}, Post(<<c>>),
           UNCHANGED <<sock, pendingClose, conn, attempts>>
    PROVE  Calls' /\ netq' # << >> /\ netq'[Len(netq')] = c
<1>1. PICK q, n : q = netq' /\ n = Len(netq)
  OBVIOUS
<1>2. IsSeq(netq) /\ n \in Nat
  BY <1>1, EmptyShape DEF Calls
<1>3. IsSeq(<<c>>) /\ Len(<<c>>) = 1 /\ <<c>>[1] = c
  BY SingleShape
<1>4. PICK d : IsConcat(d, netq, <<c>>) /\ Joins(d, netq, <<c>>)
  BY ONLY <1>2, <1>3, ConcatNamed
<1>5. d = q
  BY <1>1, <1>4 DEF IsConcat, Post
<1>6. IsSeq(q) /\ Len(q) = n + 1 /\ (\A i \in 1 .. n : q[i] = netq[i]) /\ q[n + 1] = c
  BY ONLY <1>1, <1>3, <1>4, <1>5 DEF Joins
<1>7. q # << >>
  BY ONLY <1>2, <1>6, EmptyShape
<1>8. \A i \in 1 .. n + 1 : i = n + 1 \/ i \in 1 .. n
  BY ONLY <1>2
<1>9. Calls'
  <2> SUFFICES ASSUME NEW i \in 1 .. n + 1
               PROVE  /\ q[i].call \in {"connect", "disconnect", "send"}
                      /\ q[i].call = "connect" => i = 1 /\ Quiet /\ conn < attempts
    BY <1>1, <1>6 DEF Calls, Quiet
  <2>1. CASE i = n + 1
    BY <1>6, <2>1
  <2>2. CASE i \in 1 .. n
    BY <1>1, <1>6, <2>2 DEF Calls
  <2> QED
    BY <1>8, <2>1, <2>2
<1> QED
  BY ONLY <1>1, <1>6, <1>7, <1>9

\* One lemma per step of the GUI thread.
LEMMA StartAuthStep == ASSUME Dialog, Streams, startAuth PROVE Dialog' /\ Streams'
<1>1. UNCHANGED <<accepted, sock, pendingClose, conn, rx_buffer, link, down, session, pool, toClient, emitted, guiq>>
  BY DEF startAuth, netVars, serverVars
<1>2. Streams'
  BY <1>1, DialogKeepsStreams
<1>3. /\ netq = << >> /\ Quiet /\ conn < attempts' /\ Attempts'
  <2>1. netq = << >> /\ ~ accepted /\ ~ box /\ pending_action = "" /\ attempts < MaxAttempts
        /\ attempts' = attempts + 1
    BY DEF startAuth
  <2>2. Quiet
    BY <2>1 DEF Dialog, Idle
  <2>3. Attempts /\ MaxAttempts \in Nat
    BY ConnectionAssumption DEF Dialog
  <2>4. Attempts' /\ conn < attempts'
    <3>1. /\ conn \in Nat /\ attempts \in Nat /\ conn <= attempts /\ attempts < MaxAttempts
          /\ MaxAttempts \in Nat /\ attempts' = attempts + 1
      BY ONLY <2>1, <2>3 DEF Attempts
    <3>2. attempts' \in Nat /\ conn <= attempts' /\ attempts' <= MaxAttempts /\ conn < attempts'
      BY ONLY <3>1
    <3> QED
      BY ONLY <1>1, <2>3, <3>2 DEF Attempts
  <2> QED
    BY <2>1, <2>2, <2>4
<1>4. Signals(guiq)'
  BY <1>1 DEF Dialog, Signals
<1>5. CASE box' = TRUE /\ UNCHANGED <<pending_action, netq>>
  <2>1. Len(netq) = 0 /\ IsSeq(netq)
    BY <1>3, EmptyShape
  <2>2. Calls' /\ Idle'
    BY <1>5, <2>1 DEF Calls, Idle
  <2> QED
    BY <1>2, <1>3, <1>4, <2>2 DEF Dialog
<1>6. ASSUME NEW a \in {"login", "register"}, pending_action' = a, Post(<<[call |-> "connect"]>>)
      PROVE  Dialog'
  <2>1. PICK c : c = [call |-> "connect"]
    OBVIOUS
  <2>2. c.call = "connect"
    BY <2>1
  <2>3. IsSeq(<<c>>) /\ Len(<<c>>) = 1 /\ <<c>>[1] = c
    BY SingleShape
  <2>4. netq' = <<c>>
    <3>1. netq' = << >> \o <<c>>
      BY <1>3, <1>6, <2>1 DEF Post
    <3>2. << >> \o <<c>> = <<c>>
      OBVIOUS
    <3> QED
      BY <3>1, <3>2
  <2>5. Quiet'
    BY <1>1, <1>3 DEF Quiet
  <2>6. conn' < attempts'
    BY <1>1, <1>3
  <2>7. Calls'
    BY <2>2, <2>3, <2>4, <2>5, <2>6 DEF Calls
  <2>8. Idle'
    BY <1>6 DEF Idle
  <2> QED
    BY <1>3, <1>4, <2>7, <2>8 DEF Dialog
<1> QED
  BY <1>2, <1>5, <1>6 DEF startAuth

LEMMA CloseBoxStep == ASSUME Dialog, Streams, CloseBox PROVE Dialog' /\ Streams'
<1>1. UNCHANGED <<accepted, sock, pendingClose, conn, rx_buffer, link, down, session, pool, toClient, emitted, guiq, attempts>>
  BY DEF CloseBox, netVars, serverVars, connBounds
<1>2. Streams'
  BY <1>1, DialogKeepsStreams
<1>3. PICK c : c = [call |-> "disconnect"]
  OBVIOUS
<1>4. c.call = "disconnect"
  BY <1>3
<1>5. Calls' /\ netq' # << >> /\ netq'[Len(netq')] = c
  <2>1. Post(<<c>>) /\ Calls
    BY <1>3 DEF CloseBox, Dialog
  <2> QED
    BY <1>1, <1>4, <2>1, PostKeeps
<1>6. Idle'
  BY <1>4, <1>5 DEF Idle
<1>7. Attempts' /\ Signals(guiq)'
  BY <1>1 DEF Dialog, Attempts, Signals
<1> QED
  BY <1>2, <1>5, <1>6, <1>7 DEF Dialog

LEMMA UserRequestStep == ASSUME Dialog, Streams, UserRequest PROVE Dialog' /\ Streams'
<1>1. UNCHANGED <<accepted, sock, pendingClose, conn, rx_buffer, link, down, session, pool, toClient, emitted, guiq, attempts>>
  BY DEF UserRequest, netVars, serverVars, dialogVars
<1>2. Streams'
  BY <1>1, DialogKeepsStreams
<1>3. PICK c : c.call = "send" /\ Post(<<c>>)
  <2>1. PICK size \in PushSizes : Post(<<[call |-> "send", msg |-> Request(pushes + 1, size)]>>)
    BY DEF UserRequest
  <2> QED
    BY <2>1
<1>4. Calls'
  BY <1>1, <1>3, PostKeeps DEF Dialog
<1>5. Idle'
  BY <1>1 DEF Idle, UserRequest
<1>6. Attempts' /\ Signals(guiq)'
  BY <1>1 DEF Dialog, Attempts, Signals
<1> QED
  BY <1>2, <1>4, <1>5, <1>6 DEF Dialog

LEMMA GuiEventStep == ASSUME Dialog, Streams, GuiEvent PROVE Dialog' /\ Streams'
<1>1. UNCHANGED <<sock, pendingClose, conn, rx_buffer, link, down, session, pool, toClient, emitted, attempts>>
  BY DEF GuiEvent, netVars, serverVars, connBounds
<1>2. Streams'
  BY <1>1, DialogKeepsStreams
<1>3. Signals(guiq') /\ Head(guiq).signal \in SignalNames
  <2>1. guiq # << >> /\ guiq' = Tail(guiq) /\ IsSeq(guiq)
    BY DEF GuiEvent, Dialog, Signals
  <2>2. PICK q, r, n : q = guiq /\ r = guiq' /\ n = Len(q)
    OBVIOUS
  <2>3. /\ IsSeq(r) /\ n \in Nat /\ n > 0 /\ Len(r) = n - 1
        /\ (\A i \in 1 .. n - 1 : r[i] = q[i + 1]) /\ Head(q) = q[1]
    BY ONLY <2>1, <2>2, TailShape
  <2>4. 1 \in 1 .. n /\ \A i \in 1 .. n - 1 : i + 1 \in 1 .. n
    BY ONLY <2>3
  <2>5. \A i \in 1 .. n : q[i].signal \in SignalNames
    BY <2>2 DEF Dialog, Signals
  <2> QED
    BY ONLY <2>2, <2>3, <2>4, <2>5 DEF Signals
<1>4. Attempts'
  BY <1>1 DEF Dialog, Attempts
<1>5. CASE UNCHANGED <<pending_action, box, accepted, netq>>
  BY <1>1, <1>2, <1>3, <1>4, <1>5 DEF Dialog, Calls, Idle, Quiet
<1>6. CASE pending_action' = "" /\ box' = TRUE /\ netq' = netq
  <2>1. Calls' /\ Idle'
    BY <1>1, <1>6 DEF Dialog, Calls, Idle, Quiet
  <2> QED
    BY <1>2, <1>3, <1>4, <2>1 DEF Dialog
<1>7. ASSUME NEW c, c.call = "send", Post(<<c>>),
             accepted' \/ pending_action' # ""
      PROVE  Dialog'
  <2>0. Calls /\ c.call \in {"disconnect", "send"} /\ UNCHANGED <<sock, pendingClose, conn, attempts>>
    BY <1>1, <1>7 DEF Dialog
  <2>1. Post(<<c>>)
    BY <1>7
  <2>a. Calls'
    BY ONLY <2>0, <2>1, PostKeeps
  <2>2. Idle'
    BY <1>7 DEF Idle
  <2> QED
    BY <1>3, <1>4, <2>a, <2>2 DEF Dialog
<1>8. CASE pending_action = ""
  BY <1>5, <1>8 DEF GuiEvent
<1>9. CASE pending_action # ""
  <2>1. PICK e : e = Head(guiq)
    OBVIOUS
  <2>2. CASE e.signal = "connected"
    <3>1. onConnected
      BY <1>9, <2>1, <2>2 DEF GuiEvent
    <3>2. PICK c : c.call = "send" /\ Post(<<c>>)
      BY <3>1 DEF onConnected
    <3>3. pending_action' # ""
      BY <1>9, <3>1 DEF onConnected
    <3> QED
      BY <1>2, <1>7, <3>2, <3>3
  <2>3. CASE e.signal \in {"disconnected", "error"}
    <3>1. reportFailure
      BY <1>9, <2>1, <2>3 DEF GuiEvent
    <3> QED
      BY <1>6, <3>1 DEF reportFailure
  <2>4. CASE e.signal = "message"
    <3>1. CASE Parsed(e.payload).type = "auth_response"
      <4>1. onAuthResponse(Parsed(e.payload))
        BY <1>9, <2>1, <2>4, <3>1 DEF GuiEvent
      <4>2. CASE reportFailure
        BY <1>6, <4>2 DEF reportFailure
      <4>3. CASE accepted' = TRUE /\ Post(<<[call |-> "send", msg |-> Request(0, 1)]>>)
        <5>1. PICK c : c.call = "send" /\ Post(<<c>>)
          BY <4>3
        <5> QED
          BY <1>2, <1>7, <4>3, <5>1
      <4> QED
        BY <4>1, <4>2, <4>3 DEF onAuthResponse
    <3>2. CASE Parsed(e.payload).type # "auth_response"
      <4>1. UNCHANGED <<pending_action, box, accepted, netq>>
        BY <1>9, <2>1, <2>4, <3>2 DEF GuiEvent
      <4> QED
        BY <1>5, <4>1
    <3> QED
      BY <3>1, <3>2
  <2> QED
    BY <1>3, <2>1, <2>2, <2>3, <2>4 DEF SignalNames
<1> QED
  BY <1>8, <1>9

-----------------------------------------------------------------------------
(* The network thread *)

\* The queue of the GUI thread holds signals of NetworkManager only.
LEMMA SignalsJoin ==
    ASSUME NEW q, Signals(q), NEW r, Signals(r)
    PROVE  Signals(q \o r)
<1>1. IsSeq(q) /\ IsSeq(r)
  BY DEF Signals
<1>2. PICK a, m, n : IsConcat(a, q, r) /\ Joins(a, q, r) /\ m = Len(q) /\ n = Len(r) /\ m \in Nat /\ n \in Nat
  BY ONLY <1>1, ConcatNamed, EmptyShape
<1>3. /\ IsSeq(a) /\ Len(a) = m + n /\ (\A i \in 1 .. m : a[i] = q[i])
      /\ \A i \in 1 .. n : a[m + i] = r[i]
  BY ONLY <1>2 DEF Joins
<1>4. ASSUME NEW i \in 1 .. m + n PROVE a[i].signal \in SignalNames
  <2>1. CASE i <= m
    <3>1. i \in 1 .. m
      BY ONLY <1>2, <1>4, <2>1
    <3> QED
      BY <1>2, <1>3, <3>1 DEF Signals
  <2>2. CASE ~ (i <= m)
    <3>1. PICK l \in 1 .. n : i = m + l
      <4>1. i - m \in 1 .. n /\ i = m + (i - m)
        BY ONLY <1>2, <1>4, <2>2
      <4> QED
        BY ONLY <4>1
    <3> QED
      BY <1>2, <1>3, <3>1 DEF Signals
  <2> QED
    BY ONLY <2>1, <2>2
<1>5. Signals(a)
  BY ONLY <1>3, <1>4 DEF Signals
<1> QED
  BY ONLY <1>2, <1>5 DEF IsConcat

\* Signal(names) posts one signal per name ...
LEMMA NamesAreSignals ==
    ASSUME NEW names, IsSeq(names), \A i \in 1 .. Len(names) : names[i] \in SignalNames
    PROVE  Signals([i \in DOMAIN names |-> [signal |-> names[i]]])
<1>1. PICK n, g : /\ n = Len(names) /\ n \in Nat
                  /\ g = [i \in DOMAIN names |-> [signal |-> names[i]]] /\ DOMAIN names = 1 .. n
  BY DomainShape
<1>2. g = [i \in 1 .. n |-> g[i]]
  BY ONLY <1>1
<1>3. IsSeq(g) /\ Len(g) = n
  BY ONLY <1>1, <1>2, FunctionShape
<1>4. \A i \in 1 .. n : g[i].signal = names[i]
  BY ONLY <1>1
<1>5. Signals(g)
  BY <1>1, <1>3, <1>4 DEF Signals
<1> QED
  BY ONLY <1>1, <1>5

\* ... one, or the two of a connection that is cut for a bad header.
LEMMA SignalOne ==
    ASSUME Signals(guiq), NEW n \in SignalNames, Signal(<<n>>)
    PROVE  Signals(guiq')
<1>1. IsSeq(<<n>>) /\ \A i \in 1 .. Len(<<n>>) : <<n>>[i] \in SignalNames
  <2>1. IsSeq(<<n>>) /\ Len(<<n>>) = 1
    BY SingleShape
  <2> QED
    BY <2>1
<1>2. PICK r : r = [i \in DOMAIN <<n>> |-> [signal |-> <<n>>[i]]]
  OBVIOUS
<1>3. Signals(r)
  BY ONLY <1>1, <1>2, NamesAreSignals
<1>4. guiq' = guiq \o r
  BY ONLY <1>2, Signal(<<n>>) DEF Signal
<1>5. Signals(guiq \o r)
  BY ONLY <1>3, Signals(guiq), SignalsJoin
<1> QED
  BY ONLY <1>4, <1>5

LEMMA SignalTwo ==
    ASSUME Signals(guiq), Signal(<<"error", "disconnected">>)
    PROVE  Signals(guiq')
<1>1. PICK w : w = <<"error", "disconnected">>
  OBVIOUS
<1>2. IsSeq(w) /\ \A i \in 1 .. Len(w) : w[i] \in SignalNames
  <2>1. w \in Seq(SignalNames)
    BY ONLY <1>1 DEF SignalNames
  <2> QED
    BY ONLY <2>1 DEF IsSeq
<1>3. PICK r : r = [i \in DOMAIN w |-> [signal |-> w[i]]]
  OBVIOUS
<1>4. Signals(r)
  BY ONLY <1>2, <1>3, NamesAreSignals
<1>5. guiq' = guiq \o r
  BY ONLY <1>1, <1>3, Signal(<<"error", "disconnected">>) DEF Signal
<1>6. Signals(guiq \o r)
  BY ONLY <1>4, Signals(guiq), SignalsJoin
<1> QED
  BY ONLY <1>5, <1>6

\* An event of the socket posts no call and does not end the quiet.
LEMMA SocketKeepsDialog ==
    ASSUME Dialog, UNCHANGED <<accepted, box, pending_action, netq, conn, attempts>>,
           Quiet => Quiet', Signals(guiq'),
           sock # "unconnected", sock' \in {"unconnected", "connected", "closing"}
    PROVE  Dialog'
<1>1. Calls'
  BY DEF Dialog, Calls
<1>2. Idle'
  BY DEF Dialog, Idle
<1>3. Attempts'
  BY DEF Dialog, Attempts
<1> QED
  BY <1>1, <1>2, <1>3 DEF Dialog

\* A socket that is not closed belongs to a connection.
LEMMA CurrentConn == ASSUME Dialog, sock # "unconnected" PROVE conn \in Conn
<1>1. conn \in Nat /\ attempts \in Nat /\ conn <= attempts /\ attempts <= MaxAttempts /\ conn > 0
  BY DEF Dialog, Attempts
<1>2. MaxAttempts \in Nat
  BY ConnectionAssumption
<1> QED
  BY ONLY <1>1, <1>2 DEF Conn

\* One lemma per step of the network thread.
LEMMA SocketConnectedStep == ASSUME Dialog, Streams, SocketConnected PROVE Dialog' /\ Streams'
<1>1. /\ UNCHANGED <<accepted, box, pending_action, netq, conn, attempts>>
      /\ UNCHANGED <<rx_buffer, down, session, pool, toClient, emitted>>
      /\ sock = "connecting" /\ sock' \in {"closing", "connected"} /\ Signal(<<"connected">>)
      /\ link' = [link EXCEPT ![conn] = "open"]
  BY DEF SocketConnected, dialogVars, connBounds, serverVars
<1>2. Quiet => Quiet'
  BY DEF SocketConnected, Quiet
<1>3. Signals(guiq')
  BY <1>1, SignalOne DEF Dialog, SignalNames
<1>4. Dialog'
  BY <1>1, <1>2, <1>3, SocketKeepsDialog
<1>5. conn \in Conn
  BY <1>1, CurrentConn
<1>6. Unused(conn) /\ rx_buffer = << >>
  BY <1>1, <1>5 DEF Streams, Ahead
<1>7. Shapes'
  BY <1>1 DEF Streams, Shapes
<1>8. \A k \in Conn : Kept(k)'
  BY <1>1 DEF Streams, Kept
<1>9. ASSUME NEW k \in Conn, Ahead(k)' PROVE Unused(k)'
  <2>1. k > conn /\ k # conn
    <3>1. k > conn
      BY <1>1, <1>9 DEF Ahead
    <3> QED
      BY <3>1, <1>5, ConnNumbers
  <2>2. Unused(k) /\ link'[k] = link[k]
    BY <1>1, <2>1 DEF Streams, Ahead, Shapes
  <2> QED
    BY <1>1, <2>2 DEF Unused
<1>10. Follows(conn)'
  <2>1. /\ toClient'[conn'] = << >> /\ emitted'[conn'] = << >> /\ rx_buffer' = << >>
        /\ down'[conn'] = << >> /\ session'[conn'].write_queue = << >>
    BY <1>1, <1>6 DEF Unused
  <2>2. Aligned(<< >>, 0, << >>, << >>, << >>, link'[conn'] = "open")
    BY AlignedEmpty
  <2>3. Len(<< >>) = 0
    BY EmptyShape
  <2> QED
    BY ONLY <2>1, <2>2, <2>3 DEF Follows
<1>11. Streams'
  BY <1>1, <1>7, <1>8, <1>9, <1>10 DEF Streams
<1> QED
  BY <1>4, <1>11

\* The connection is given up: nothing of it is looked at any more.
LEMMA GivenUp ==
    ASSUME Streams, conn \in Conn, sock' \in {"unconnected", "closing"},
           UNCHANGED <<conn, session, pool, toClient, emitted>>,
           DOMAIN link' = Conn, DOMAIN down' = Conn,
           \A k \in Conn : k # conn => link'[k] = link[k] /\ down'[k] = down[k]
    PROVE  Streams'
<1>1. Shapes'
  BY DEF Streams, Shapes
<1>2. \A k \in Conn : Kept(k)'
  BY DEF Streams, Kept
<1>3. ASSUME NEW k \in Conn, Ahead(k)' PROVE Unused(k)'
  <2>1. k > conn /\ k # conn
    <3>1. k > conn
      BY <1>3 DEF Ahead
    <3> QED
      BY <3>1, ConnNumbers
  <2>2. Unused(k)
    BY <2>1 DEF Streams, Ahead
  <2> QED
    BY <2>1, <2>2 DEF Unused
<1> QED
  BY <1>1, <1>2, <1>3 DEF Streams

LEMMA SocketRefusedStep == ASSUME Dialog, Streams, SocketRefused PROVE Dialog' /\ Streams'
<1>1. /\ UNCHANGED <<accepted, box, pending_action, netq, conn, attempts>>
      /\ UNCHANGED <<rx_buffer, link, down, session, pool, toClient, emitted>>
      /\ sock = "connecting" /\ sock' = "unconnected" /\ Signal(<<"error">>)
  BY DEF SocketRefused, dialogVars, connBounds, serverVars
<1>2. Quiet => Quiet'
  BY <1>1 DEF Quiet
<1>3. Signals(guiq')
  BY <1>1, SignalOne DEF Dialog, SignalNames
<1>4. Dialog'
  BY <1>1, <1>2, <1>3, SocketKeepsDialog
<1>5. conn \in Conn
  BY <1>1, CurrentConn
<1>6. Streams'
  BY <1>1, <1>5, GivenUp DEF Streams, Shapes
<1> QED
  BY <1>4, <1>6

LEMMA SocketDisconnectedStep == ASSUME Dialog, Streams, SocketDisconnected PROVE Dialog' /\ Streams'
<1>1. /\ UNCHANGED <<accepted, box, pending_action, netq, conn, attempts>>
      /\ UNCHANGED <<session, pool, toClient, emitted>>
      /\ sock \in {"closing", "connected"} /\ sock' = "unconnected"
      /\ Signal(<<"disconnected">>) \/ Signal(<<"error", "disconnected">>)
      /\ link' = [link EXCEPT ![conn] = IF @ = "open" THEN "closed" ELSE @]
      /\ down' = [down EXCEPT ![conn] = << >>]
  BY DEF SocketDisconnected, dialogVars, connBounds, serverVars
<1>2. Quiet => Quiet'
  BY <1>1 DEF Quiet
<1>3. Signals(guiq')
  BY <1>1, SignalOne, SignalTwo DEF Dialog, SignalNames
<1>4. Dialog'
  BY <1>1, <1>2, <1>3, SocketKeepsDialog
<1>5. conn \in Conn
  BY <1>1, CurrentConn
<1>6. /\ DOMAIN link' = Conn /\ DOMAIN down' = Conn
      /\ \A k \in Conn : k # conn => link'[k] = link[k] /\ down'[k] = down[k]
  BY <1>1 DEF Streams, Shapes
<1>7. Streams'
  BY <1>1, <1>5, <1>6, GivenUp
<1> QED
  BY <1>4, <1>7

\* The payloads emitted next.
Goes(T, E, e, k, p) ==
    /\ IsSeq(T) /\ IsSeq(E) /\ e = Len(E) /\ (\A i \in 1 .. e : E[i] = T[i])
    /\ k \in e .. Len(T) /\ p = SubSeq(T, e + 1, k)
Gone(T, a, k, p) ==
    IsSeq(p) /\ IsSeq(a) /\ Len(a) = k /\ k <= Len(T) /\ \A i \in 1 .. k : a[i] = T[i]

\* The frames that a read completes extend what was emitted by what comes next.
LEMMA PrefixGrows ==
    ASSUME NEW T, NEW E, NEW e, NEW k, NEW p, Goes(T, E, e, k, p)
    PROVE  Gone(T, E \o p, k, p)
<1>0. /\ IsSeq(T) /\ IsSeq(E) /\ e = Len(E) /\ (\A i \in 1 .. e : E[i] = T[i])
      /\ k \in e .. Len(T) /\ p = SubSeq(T, e + 1, k)
  BY DEF Goes
<1>1. PICK n : n = Len(T) /\ n \in Nat /\ e \in Nat
  BY <1>0, EmptyShape
<1>2. k \in Nat /\ e <= k /\ k <= n
  BY ONLY <1>0, <1>1
<1>3. IsSeq(p) /\ Len(p) = k - e /\ \A i \in 1 .. k - e : p[i] = T[e + i]
  <2>1. /\ IsSeq(SubSeq(T, e + 1, k)) /\ Len(SubSeq(T, e + 1, k)) = k - e
        /\ \A i \in 1 .. k - e : SubSeq(T, e + 1, k)[i] = T[e + i]
    BY ONLY <1>0, <1>1, <1>2, SliceShape
  <2> QED
    BY ONLY <1>0, <2>1
<1>4. PICK a : IsConcat(a, E, p) /\ Joins(a, E, p)
  BY <1>0, <1>3, ConcatNamed
<1>5. /\ IsSeq(a) /\ Len(a) = e + (k - e) /\ (\A i \in 1 .. e : a[i] = E[i])
      /\ \A i \in 1 .. k - e : a[e + i] = p[i]
  BY ONLY <1>0, <1>3, <1>4 DEF Joins
<1>6. Len(a) = k
  BY ONLY <1>1, <1>2, <1>5
<1>7. ASSUME NEW i \in 1 .. k PROVE a[i] = T[i]
  <2>1. CASE i <= e
    <3>1. i \in 1 .. e
      BY ONLY <1>1, <1>2, <1>7, <2>1
    <3> QED
      BY <1>0, <1>5, <3>1
  <2>2. CASE ~ (i <= e)
    <3>1. PICK l \in 1 .. k - e : i = e + l
      <4>1. i - e \in 1 .. k - e /\ i = e + (i - e)
        BY ONLY <1>1, <1>2, <1>7, <2>2
      <4> QED
        BY ONLY <4>1
    <3> QED
      BY ONLY <1>3, <1>5, <3>1
  <2> QED
    BY ONLY <2>1, <2>2
<1> QED
  BY ONLY <1>1, <1>2, <1>3, <1>4, <1>5, <1>6, <1>7 DEF IsConcat, Gone

LEMMA ReadyReadStep == ASSUME Dialog, Streams, onReadyRead PROVE Dialog' /\ Streams'
<1>1. PICK n, b, f, messages :
        /\ n \in 1 .. Len(down[conn])
        /\ b = rx_buffer \o SubSeq(down[conn], 1, n) /\ f = Frames(b)
        /\ messages = [i \in DOMAIN f.payloads |-> [signal |-> "message", payload |-> f.payloads[i]]]
        /\ down' = [down EXCEPT ![conn] = SubSeq(@, n + 1, Len(@))]
        /\ rx_buffer' = SubSeq(b, f.end + 1, Len(b))
        /\ emitted' = [emitted EXCEPT ![conn] = @ \o f.payloads]
        /\ guiq' = guiq \o messages \o (IF f.bad THEN <<[signal |-> "error"]>> ELSE << >>)
        /\ sock' = IF f.bad THEN "closing" ELSE sock
  BY DEF onReadyRead
<1>2. /\ UNCHANGED <<accepted, box, pending_action, netq, pendingClose, conn, attempts>>
      /\ UNCHANGED <<link, session, pool, toClient>> /\ sock = "connected"
  BY DEF onReadyRead, dialogVars, serverVars, connBounds
<1>3. conn \in Conn
  BY <1>2, CurrentConn
<1>4. Shapes /\ Kept(conn) /\ Follows(conn)
  BY <1>2, <1>3 DEF Streams
<1>5. PICK T, E, e, dn, wq, open, p :
        /\ T = toClient[conn] /\ E = emitted[conn] /\ e = Len(E) /\ dn = down[conn]
        /\ wq = session[conn].write_queue /\ open = (link[conn] = "open") /\ p = f.payloads
  OBVIOUS
<1>6. /\ IsSeq(E) /\ GoodPayloads(T) /\ IsSeq(T) /\ e <= Len(T) /\ \A i \in 1 .. e : E[i] = T[i]
  BY ONLY <1>4, <1>5 DEF Kept, GoodPayloads
<1>7. Aligned(T, e, rx_buffer, dn, wq, open)
  BY ONLY <1>4, <1>5 DEF Follows
<1>8. PICK k \in e .. Len(T) :
        /\ Frames(b).payloads = SubSeq(T, e + 1, k)
        /\ Aligned(T, k, SubSeq(b, Frames(b).end + 1, Len(b)), SubSeq(dn, n + 1, Len(dn)), wq, open)
  <2>1. n \in 1 .. Len(dn) /\ b = rx_buffer \o SubSeq(dn, 1, n)
    BY <1>1, <1>5
  <2> QED
    BY ONLY <1>6, <1>7, <2>1, AlignedRead
<1>9. p = SubSeq(T, e + 1, k)
  BY ONLY <1>1, <1>5, <1>8
<1>10. /\ IsSeq(p) /\ IsSeq(E \o p) /\ Len(E \o p) = k /\ k <= Len(T)
       /\ \A i \in 1 .. k : (E \o p)[i] = T[i]
  <2>1. Goes(T, E, e, k, p)
    BY ONLY <1>5, <1>6, <1>9, k \in e .. Len(T) DEF Goes
  <2>2. Gone(T, E \o p, k, p)
    BY ONLY <2>1, PrefixGrows
  <2> QED
    BY ONLY <2>2 DEF Gone
<1>11. /\ emitted'[conn] = E \o p /\ down'[conn] = SubSeq(dn, n + 1, Len(dn))
       /\ DOMAIN emitted' = Conn /\ DOMAIN down' = Conn
       /\ \A j \in Conn : j # conn => emitted'[j] = emitted[j] /\ down'[j] = down[j]
  BY ONLY <1>1, <1>3, <1>4, <1>5 DEF Shapes
<1>12. Kept(conn)'
  <2>1. toClient'[conn] = T /\ session'[conn] = session[conn] /\ IsSeq(session[conn].write_queue) /\ conn' = conn
    BY <1>2, <1>4, <1>5 DEF Kept
  <2> QED
    BY ONLY <1>6, <1>10, <1>11, <2>1 DEF Kept
<1>13. Follows(conn)'
  <2>1. /\ toClient'[conn] = T /\ session'[conn].write_queue = wq /\ (link'[conn] = "open") = open /\ conn' = conn
    BY <1>2, <1>5
  <2>2. rx_buffer' = SubSeq(b, Frames(b).end + 1, Len(b))
    BY ONLY <1>1
  <2> QED
    BY ONLY <1>8, <1>10, <1>11, <2>1, <2>2 DEF Follows
<1>14. Streams'
  <2>1. Shapes'
    BY <1>2, <1>4, <1>11 DEF Shapes
  <2>2. ASSUME NEW j \in Conn PROVE Kept(j)'
    <3>1. CASE j = conn
      BY <1>2, <1>12, <3>1
    <3>2. CASE j # conn
      BY <1>2, <1>11, <3>2 DEF Streams, Kept
    <3> QED
      BY <3>1, <3>2
  <2>3. ASSUME NEW j \in Conn, Ahead(j)' PROVE Unused(j)'
    <3>1. sock' # "connecting"
      BY <1>1, <1>2
    <3>2. j > conn /\ j # conn
      <4>1. j > conn
        BY <1>2, <2>3, <3>1 DEF Ahead
      <4> QED
        BY <4>1, <1>3, ConnNumbers
    <3>3. Unused(j)
      BY <3>2 DEF Streams, Ahead
    <3> QED
      BY <1>2, <1>11, <3>2, <3>3 DEF Unused
  <2>4. sock' # "connecting"
    BY <1>1, <1>2
  <2> QED
    BY <1>2, <1>13, <2>1, <2>2, <2>3, <2>4 DEF Streams
<1>15. Signals(guiq')
  <2>1. Signals(messages)
    <3>1. PICK l : l = Len(p) /\ l \in Nat /\ DOMAIN p = 1 .. l
      BY ONLY <1>10, DomainShape
    <3>2. messages = [i \in 1 .. l |-> [signal |-> "message", payload |-> p[i]]]
      BY ONLY <1>1, <1>5, <3>1
    <3>3. messages = [i \in 1 .. l |-> messages[i]]
      BY ONLY <3>2
    <3>4. IsSeq(messages) /\ Len(messages) = l
      BY ONLY <3>1, <3>3, FunctionShape
    <3>5. \A i \in 1 .. l : messages[i].signal = "message"
      BY ONLY <3>2
    <3> QED
      BY ONLY <3>4, <3>5 DEF Signals, SignalNames
  <2>2. PICK r : r = (IF f.bad THEN <<[signal |-> "error"]>> ELSE << >>)
    OBVIOUS
  <2>3. Signals(r)
    <3>1. CASE r = << >>
      BY ONLY <3>1, EmptyShape DEF Signals
    <3>2. CASE r = <<[signal |-> "error"]>>
      <4>1. PICK x : x = [signal |-> "error"]
        OBVIOUS
      <4>2. r = <<x>> /\ x.signal = "error"
        BY ONLY <3>2, <4>1
      <4>3. IsSeq(<<x>>) /\ Len(<<x>>) = 1 /\ <<x>>[1] = x
        BY SingleShape
      <4> QED
        BY ONLY <4>2, <4>3 DEF Signals, SignalNames
    <3> QED
      BY <2>2, <3>1, <3>2
  <2>4. Signals(guiq)
    BY DEF Dialog
  <2>5. Signals(guiq \o messages)
    BY ONLY <2>1, <2>4, SignalsJoin
  <2>6. Signals((guiq \o messages) \o r)
    BY ONLY <2>3, <2>5, SignalsJoin
  <2> QED
    BY ONLY <1>1, <2>2, <2>6
<1>16. Dialog'
  <2>1. sock' \in {"connected", "closing"} /\ ~ Quiet
    BY <1>1, <1>2 DEF Quiet
  <2> QED
    BY <1>2, <1>15, <2>1, SocketKeepsDialog
<1> QED
  BY <1>14, <1>16

\* The calls that are left when the first one is taken.
LEMMA NextCall ==
    ASSUME Calls, netq # << >>, netq' = Tail(netq)
    PROVE  /\ Head(netq).call \in {"connect", "disconnect", "send"}
           /\ Head(netq).call = "connect" => Quiet /\ conn < attempts
           /\ IsSeq(netq') /\ \A i \in 1 .. Len(netq') : netq'[i].call \in {"disconnect", "send"}
           /\ netq' = << >> => Head(netq) = netq[Len(netq)]
           /\ netq' # << >> => netq'[Len(netq')] = netq[Len(netq)]
<1>1. PICK n, r, m : n = Len(netq) /\ r = netq' /\ m = Len(r)
  OBVIOUS
<1>2. /\ IsSeq(r) /\ n \in Nat /\ n > 0 /\ m = n - 1
      /\ (\A i \in 1 .. n - 1 : r[i] = netq[i + 1]) /\ Head(netq) = netq[1]
  BY <1>1, TailShape DEF Calls
<1>3. /\ 1 \in 1 .. n /\ m \in Nat
      /\ \A i \in 1 .. m : i + 1 \in 1 .. n /\ i + 1 # 1 /\ i \in 1 .. n - 1
      /\ m # 0 => m \in 1 .. m /\ m + 1 = n
      /\ m = 0 => n = 1
  BY ONLY <1>2
<1>4. PICK q : q = netq
  OBVIOUS
<1>5. ASSUME NEW i \in 1 .. n
      PROVE  q[i].call \in {"connect", "disconnect", "send"} /\ (q[i].call = "connect" => i = 1 /\ Quiet /\ conn < attempts)
  BY <1>1, <1>4 DEF Calls
<1>6. ASSUME NEW i \in 1 .. m PROVE r[i].call \in {"disconnect", "send"}
  <2>1. PICK l : l = i + 1 /\ l \in 1 .. n /\ l # 1 /\ r[i] = q[l]
    BY ONLY <1>2, <1>3, <1>4, <1>6
  <2>2. q[l].call \in {"connect", "disconnect", "send"}
    BY ONLY <1>5, <2>1
  <2>3. q[l].call # "connect"
    BY ONLY <1>5, <2>1
  <2> QED
    BY ONLY <2>1, <2>2, <2>3
<1>7. r = << >> <=> m = 0
  BY ONLY <1>1, <1>2, EmptyShape
<1>8. r = << >> => Head(netq) = netq[n]
  BY ONLY <1>2, <1>3, <1>7
<1>9. r # << >> => r[m] = netq[n]
  <2>1. ASSUME r # << >> PROVE r[m] = netq[n]
    <3>1. m \in 1 .. n - 1 /\ m + 1 = n
      BY ONLY <1>3, <1>7, <2>1
    <3> QED
      BY ONLY <1>2, <3>1
  <2> QED
    BY <2>1
<1>10. PICK h : h = Head(netq) /\ h = q[1] /\ 1 \in 1 .. n
  BY ONLY <1>2, <1>3, <1>4
<1>11. h.call \in {"connect", "disconnect", "send"} /\ (h.call = "connect" => Quiet /\ conn < attempts)
  BY ONLY <1>5, <1>10
<1>12. IsSeq(netq') /\ \A i \in 1 .. Len(netq') : netq'[i].call \in {"disconnect", "send"}
  BY ONLY <1>1, <1>2, <1>6
<1>13. /\ netq' = << >> => Head(netq) = netq[Len(netq)]
       /\ netq' # << >> => netq'[Len(netq')] = netq[Len(netq)]
  BY ONLY <1>1, <1>8, <1>9
<1> QED
  BY ONLY <1>10, <1>11, <1>12, <1>13

LEMMA NetCallStep == ASSUME Dialog, Streams, NetCall PROVE Dialog' /\ Streams'
<1>1. /\ UNCHANGED <<accepted, box, pending_action, attempts>>
      /\ UNCHANGED <<link, down, session, pool, toClient, emitted>>
      /\ netq # << >> /\ netq' = Tail(netq)
  BY DEF NetCall, dialogVars, serverVars, connBounds
<1>2. PICK c : c = Head(netq)
  OBVIOUS
<1>3. /\ c.call \in {"connect", "disconnect", "send"}
      /\ c.call = "connect" => Quiet /\ conn < attempts
      /\ IsSeq(netq') /\ \A i \in 1 .. Len(netq') : netq'[i].call \in {"disconnect", "send"}
      /\ netq' = << >> => c = netq[Len(netq)]
      /\ netq' # << >> => netq'[Len(netq')] = netq[Len(netq)]
  BY <1>1, <1>2, NextCall DEF Dialog
<1>4. Calls'
  BY ONLY <1>3 DEF Calls
<1>5. ASSUME c.call = "disconnect" => Quiet' PROVE Idle'
  <2> SUFFICES ASSUME ~ accepted', ~ box', pending_action' = ""
               PROVE  IF netq' = << >> THEN Quiet' ELSE netq'[Len(netq')].call = "disconnect"
    BY DEF Idle
  <2>1. netq[Len(netq)].call = "disconnect"
    BY <1>1 DEF Dialog, Idle
  <2> QED
    BY <1>3, <1>5, <2>1
<1>6. Signals(guiq)
  BY DEF Dialog
<1>7. CASE c.call = "connect"
  <2>1. connectToHost /\ Quiet /\ conn < attempts
    BY <1>2, <1>3, <1>7 DEF NetCall
  <2>2. Idle'
    BY <1>5, <1>7
  <2>3. CASE sock = "unconnected"
    <3>1. sock' = "connecting" /\ conn' = conn + 1 /\ guiq' = guiq /\ rx_buffer' = << >>
      BY <2>1, <2>3 DEF connectToHost
    <3>2. Attempts'
      <4>1. conn \in Nat /\ attempts \in Nat /\ conn < attempts /\ attempts <= MaxAttempts /\ conn' = conn + 1
        BY <2>1, <3>1 DEF Dialog, Attempts
      <4>2. conn' \in Nat /\ conn' <= attempts /\ conn' > 0
        BY ONLY <4>1
      <4> QED
        BY <1>1, <3>1, <4>1, <4>2 DEF Attempts
    <3>3. Dialog'
      BY <1>4, <1>6, <2>2, <3>1, <3>2 DEF Dialog
    <3>4. conn \in Nat
      BY DEF Streams
    <3>5. \A k \in Conn : Ahead(k)' => Ahead(k)
      <4> SUFFICES ASSUME NEW k \in Conn, Ahead(k)' PROVE Ahead(k)
        OBVIOUS
      <4>1. k \in Nat /\ (k > conn + 1 \/ k = conn + 1)
        BY <3>1, ConnNumbers DEF Ahead
      <4>2. k > conn
        BY ONLY <3>4, <4>1
      <4> QED
        BY <4>2 DEF Ahead
    <3>6. \A k \in Conn : Kept(k)' /\ (Ahead(k)' => Unused(k)')
      BY <1>1, <3>5 DEF Streams, Kept, Unused
    <3>7. Shapes' /\ conn' \in Nat
      BY <1>1, <3>1, <3>4 DEF Streams, Shapes
    <3>8. Streams'
      BY <1>1, <3>1, <3>6, <3>7 DEF Streams
    <3> QED
      BY <3>3, <3>8
  <2>4. CASE sock # "unconnected"
    <3>1. Signal(<<"error">>) /\ UNCHANGED <<sock, conn>> /\ rx_buffer' = << >>
      BY <2>1, <2>4 DEF connectToHost
    <3>2. Signals(guiq')
      BY <1>6, <3>1, SignalOne DEF SignalNames
    <3>3. Attempts'
      BY <1>1, <3>1 DEF Dialog, Attempts
    <3>4. Dialog'
      BY <1>4, <2>2, <3>2, <3>3 DEF Dialog
    <3>5. sock' # "connected"
      BY <2>1, <3>1 DEF Quiet
    <3>6. \A k \in Conn : Kept(k)' /\ (Ahead(k)' => Unused(k)')
      BY <1>1, <3>1 DEF Streams, Kept, Unused, Ahead
    <3>7. Shapes'
      BY <1>1 DEF Streams, Shapes
    <3>8. Streams'
      BY <1>1, <3>1, <3>5, <3>6, <3>7 DEF Streams
    <3> QED
      BY <3>4, <3>8
  <2> QED
    BY <2>3, <2>4
<1>8. CASE c.call = "disconnect"
  <2>1. disconnectFromHost
    BY <1>2, <1>8 DEF NetCall
  <2>2. UNCHANGED <<guiq, conn, rx_buffer>> /\ sock' = IF sock = "connected" THEN "closing" ELSE sock
    BY <2>1 DEF disconnectFromHost
  <2>3. Attempts /\ Attempts'
    BY <1>1, <2>2 DEF Dialog, Attempts
  <2>4. Quiet'
    BY <2>1, <2>3 DEF disconnectFromHost, Quiet, Attempts
  <2>5. Dialog'
    BY <1>4, <1>5, <1>6, <2>2, <2>3, <2>4 DEF Dialog
  <2>6. CASE sock = "connected"
    <3>1. conn \in Conn
      BY <2>6, CurrentConn
    <3>2. Streams'
      BY <1>1, <2>2, <2>6, <3>1, GivenUp DEF Streams, Shapes
    <3> QED
      BY <2>5, <3>2
  <2>7. CASE sock # "connected"
    <3>1. Streams'
      BY <1>1, <2>2, <2>7, DialogKeepsStreams
    <3> QED
      BY <2>5, <3>1
  <2> QED
    BY <2>6, <2>7
<1>9. CASE c.call = "send"
  <2>1. sendFrame(c.msg)
    BY <1>2, <1>9 DEF NetCall
  <2>2. UNCHANGED <<sock, pendingClose, conn, rx_buffer>>
    BY <2>1 DEF sendFrame, netVars
  <2>3. Streams'
    BY <1>1, <2>2, DialogKeepsStreams
  <2>4. Signals(guiq')
    <3>1. guiq' = guiq \/ Signal(<<"error">>)
      BY <2>1 DEF sendFrame
    <3> QED
      BY <1>6, <3>1, SignalOne DEF SignalNames
  <2>5. Attempts'
    BY <1>1, <2>2 DEF Dialog, Attempts
  <2> QED
    BY <1>4, <1>5, <1>9, <2>3, <2>4, <2>5 DEF Dialog
<1> QED
  BY <1>3, <1>7, <1>8, <1>9

\* Every step of the connection keeps both invariants.
LEMMA ConnStep == ASSUME Dialog, Streams, [ConnNext]_connVars PROVE Dialog' /\ Streams'
<1>1. CASE UNCHANGED connVars
  <2>1. UNCHANGED <<accepted, box, pending_action, netq, guiq, sock, pendingClose, conn, attempts>>
    BY <1>1 DEF connVars, dialogVars, netVars, connBounds
  <2>2. UNCHANGED <<sock, conn, rx_buffer, link, down, session, pool, toClient, emitted>>
    BY <1>1 DEF connVars, netVars, serverVars
  <2> QED
    BY <2>1, <2>2, ServerKeepsDialog, DialogKeepsStreams
<1>2. CASE startAuth \/ CloseBox \/ UserRequest \/ Gui
  BY <1>2, StartAuthStep, CloseBoxStep, UserRequestStep, GuiEventStep DEF Gui
<1>3. CASE Net
  BY <1>3, NetCallStep, SocketConnectedStep, SocketRefusedStep, SocketDisconnectedStep, ReadyReadStep DEF Net
<1>4. CASE Handle
  <2>1. PICK a \in pool : PoolTask(a)
    BY <1>4 DEF Handle
  <2>2. UNCHANGED <<accepted, box, pending_action, netq, guiq, sock, pendingClose, conn, attempts>>
    BY <2>1 DEF PoolTask, dialogVars, netVars, connBounds
  <2> QED
    BY <2>1, <2>2, PoolTaskStep, ServerKeepsDialog
<1>5. ASSUME NEW k \in Conn, Io(k) \/ PushMessage(k) \/ LoseLink(k) PROVE Dialog' /\ Streams'
  <2>1. UNCHANGED <<accepted, box, pending_action, netq, guiq, sock, pendingClose, conn, attempts>>
    BY <1>5 DEF Io, do_accept, do_read_header, do_read_body, ReadFails, do_write, PushMessage,
                LoseLink, dialogVars, netVars, connBounds
  <2>2. Streams'
    BY <1>5, AcceptStep, ReadHeaderStep, ReadBodyStep, ReadFailsStep, WriteStep, PushStep,
       LoseLinkStep DEF Io
  <2> QED
    BY <2>1, <2>2, ServerKeepsDialog
<1> QED
  BY <1>1, <1>2, <1>3, <1>4, <1>5 DEF ConnNext

\* NetworkManager emits the payloads that were given to ClientSession::send on
\* its connection, whole, each once and in the order of the calls, however the
\* bytes arrive at onReadyRead and wherever the link is lost (StreamKeepsOrder).
THEOREM StreamDelivered == ConnSpec => []StreamKeepsOrder
<1>1. ConnInit => Dialog /\ Streams
  BY InitDialog, InitStreams
<1>2. Dialog /\ Streams /\ [ConnNext]_connVars => Dialog' /\ Streams'
  BY ConnStep
<1>3. Dialog /\ Streams => StreamKeepsOrder
  BY StreamInvariant
<1> QED
  BY <1>1, <1>2, <1>3, PTL DEF ConnSpec

-----------------------------------------------------------------------------
(* The requests under way to the server *)

\* u is what the session has not read of the frames of T: it begins at a frame
\* or, when the header has been read, at the payload of the length read; while
\* the connection is open nothing behind it is missing.
Begins(T, u, body, length, open, t, ends, j, a, c) ==
    /\ Framed(T, t, ends) /\ j \in 0 .. Len(T) /\ Slice(u, t, a, c)
    /\ IF body THEN j < Len(T) /\ length = Len(T[j + 1]) /\ a = ends[j] + HeaderSize ELSE a = ends[j]
    /\ open => c = Len(t)

Comes(T, u, body, length, open) ==
    \E t, ends, j, a, c : Begins(T, u, body, length, open, t, ends, j, a, c)

\* Nothing was sent yet.
LEMMA ComesEmpty ==
    ASSUME NEW body, ~ body, NEW length, NEW open
    PROVE  Comes(<< >>, << >>, body, length, open)
<1>1. PICK ends : ends = [i \in {0} |-> 0]
  OBVIOUS
<1>2. PICK z : z = << >>
  OBVIOUS
<1>3. IsSeq(z) /\ Len(z) = 0
  BY <1>2, EmptyShape
<1>4. ends[0] = 0
  BY <1>1
<1>5. Framed(z, z, ends)
  BY ONLY <1>3, <1>4 DEF Framed
<1>6. Slice(z, z, 0, 0)
  BY ONLY <1>3 DEF Slice
<1>7. Begins(z, z, body, length, open, z, ends, 0, 0, 0)
  BY ONLY <1>3, <1>4, <1>5, <1>6, ~ body DEF Begins
<1> QED
  BY ONLY <1>2, <1>7 DEF Comes

\* The end of the stream is lost with the connection.
LEMMA ComesCut ==
    ASSUME NEW T, NEW u, NEW body, NEW length, NEW open, Comes(T, u, body, length, open),
           NEW i \in 0 .. Len(u)
    PROVE  Comes(T, SubSeq(u, 1, i), body, length, FALSE)
<1>1. PICK t, ends, j, a, c : Begins(T, u, body, length, open, t, ends, j, a, c)
  BY DEF Comes
<1>2. IsSeq(t) /\ Slice(u, t, a, c)
  BY ONLY <1>1 DEF Begins, Framed
<1>3. Slice(SubSeq(u, 1, i), t, a, a + i)
  BY ONLY <1>2, i \in 0 .. Len(u), SlicePrefix
<1>4. Begins(T, SubSeq(u, 1, i), body, length, FALSE, t, ends, j, a, a + i)
  BY ONLY <1>1, <1>3 DEF Begins
<1> QED
  BY ONLY <1>4 DEF Comes

\* A connection that may be open no more.
LEMMA ComesClosed ==
    ASSUME NEW T, NEW u, NEW body, NEW length, NEW open, Comes(T, u, body, length, open),
           NEW still, still => open
    PROVE  Comes(T, u, body, length, still)
<1>1. PICK t, ends, j, a, c : Begins(T, u, body, length, open, t, ends, j, a, c)
  BY DEF Comes
<1>2. Begins(T, u, body, length, still, t, ends, j, a, c)
  BY ONLY <1>1, still => open DEF Begins
<1> QED
  BY ONLY <1>2 DEF Comes

\* sendFrame puts a frame behind what is under way.
LEMMA ComesSend ==
    ASSUME NEW T, GoodPayloads(T), NEW x, GoodPayload(x), NEW u, NEW body, NEW length,
           Comes(T, u, body, length, TRUE), NEW open
    PROVE  Comes(Append(T, x), u \o encode_frame(x), body, length, open)
<1>1. PICK t, ends, j, a, c : Begins(T, u, body, length, TRUE, t, ends, j, a, c)
  BY DEF Comes
<1>2. Framed(T, t, ends) /\ j \in 0 .. Len(T) /\ Slice(u, t, a, c) /\ c = Len(t)
  BY ONLY <1>1 DEF Begins
<1>3. PICK U, h, n, lt : U = Append(T, x) /\ h = encode_frame(x) /\ n = Len(T) /\ lt = Len(t)
  OBVIOUS
<1>4. PICK w, fs : Framed(U, w, fs) /\ Grown(t, ends, w, fs, n)
  BY <1>2, <1>3, FramedGrows
<1>5. IsSeq(T) /\ n \in Nat /\ lt \in Nat
  BY <1>2, <1>3, EmptyShape DEF GoodPayloads, Framed
<1>6. IsSeq(U) /\ Len(U) = n + 1 /\ (\A i \in 1 .. n : U[i] = T[i]) /\ U[n + 1] = x
  BY ONLY <1>3, <1>5, AppendShape
<1>7. /\ IsSeq(h) /\ Len(h) = HeaderSize + Len(x) /\ Len(x) \in Nat
  BY <1>3, FrameShape
<1>8. PICK lw, lh : lw = Len(w) /\ lh = Len(h) /\ lh \in Nat /\ HeaderSize \in Nat
  BY <1>7, EmptyShape, Sizes
<1>9. fs[n] = lt /\ fs[n + 1] = lw /\ lw = lt + lh /\ \A l \in 1 .. lh : w[lt + l] = h[l]
  <2>1. ends[n] = lt /\ fs[n] = ends[n]
    <3>1. n \in 0 .. n
      BY ONLY <1>5
    <3> QED
      BY ONLY <1>2, <1>3, <1>4, <3>1 DEF Framed, Grown
  <2>2. n + 1 \in 1 .. Len(U) /\ (n + 1) - 1 = n
    BY ONLY <1>5, <1>6
  <2>3. fs[n + 1] = fs[n] + HeaderSize + Len(x) /\ Matches(w, fs[n], h)
    BY ONLY <1>3, <1>4, <1>6, <2>2 DEF Framed
  <2>4. fs[n + 1] = lw
    BY ONLY <1>4, <1>6, <1>8 DEF Framed
  <2>5. \A l \in 1 .. lh : w[lt + l] = h[l]
    BY ONLY <1>8, <2>1, <2>3 DEF Matches
  <2>6. lw = lt + lh
    BY ONLY <1>5, <1>7, <1>8, <2>1, <2>3, <2>4
  <2> QED
    BY ONLY <2>1, <2>4, <2>5, <2>6
<1>10. IsSeq(w) /\ IsSeq(t) /\ Len(t) <= Len(w) /\ \A i \in 1 .. Len(t) : w[i] = t[i]
  BY ONLY <1>2, <1>4 DEF Framed, Grown
<1>11. Slice(u, w, a, lt)
  BY ONLY <1>2, <1>3, <1>10, SliceGrown
<1>12. Slice(h, w, lt, lw)
  <2>1. lt <= lw /\ lw - lt = lh /\ lw \in Nat
    BY ONLY <1>5, <1>8, <1>9
  <2> QED
    BY ONLY <1>5, <1>7, <1>8, <1>9, <2>1 DEF Slice
<1>13. Slice(u \o h, w, a, lw)
  BY ONLY <1>11, <1>12, SliceJoin
<1>14. j \in 0 .. Len(U) /\ fs[j] = ends[j] /\ (j < n => j < Len(U) /\ U[j + 1] = T[j + 1])
  <2>1. j \in 0 .. n /\ j \in 0 .. n + 1 /\ (j < n => j + 1 \in 1 .. n /\ j < n + 1)
    BY ONLY <1>2, <1>3, <1>5
  <2> QED
    BY ONLY <1>4, <1>6, <2>1 DEF Grown
<1>15. Begins(U, u \o h, body, length, open, w, fs, j, a, lw)
  <2>1. IF body THEN j < Len(T) /\ length = Len(T[j + 1]) /\ a = ends[j] + HeaderSize ELSE a = ends[j]
    BY ONLY <1>1 DEF Begins
  <2>2. IF body THEN j < Len(U) /\ length = Len(U[j + 1]) /\ a = fs[j] + HeaderSize ELSE a = fs[j]
    BY ONLY <1>3, <1>14, <2>1
  <2> QED
    BY ONLY <1>4, <1>8, <1>13, <1>14, <2>2 DEF Begins
<1> QED
  BY ONLY <1>3, <1>15 DEF Comes

\* What is known of the frame that is read next.
NextFrame(T, t, ends, j) ==
    /\ j + 1 \in 1 .. Len(T) /\ Len(T[j + 1]) \in Nat /\ Len(T[j + 1]) > 0 /\ Len(T[j + 1]) < Oversize
    /\ ends[j + 1] = ends[j] + HeaderSize + Len(T[j + 1])
    /\ \A l \in 1 .. HeaderSize : t[ends[j] + l] = Header(Len(T[j + 1]))[l]
    /\ \A l \in 1 .. Len(T[j + 1]) : t[ends[j] + HeaderSize + l] = T[j + 1][l]

\* The next frame has a header with its length, and then its payload.
LEMMA FrameNext ==
    ASSUME NEW T, GoodPayloads(T), NEW t, NEW ends, Framed(T, t, ends), NEW j \in 0 .. Len(T), j < Len(T)
    PROVE  NextFrame(T, t, ends, j)
<1>1. PICK n, e, i : n = Len(T) /\ e = ends[j] /\ i = j + 1
  OBVIOUS
<1>2. IsSeq(T) /\ n \in Nat /\ HeaderSize \in Nat
  BY <1>1, EmptyShape, Sizes DEF GoodPayloads
<1>3. i \in 1 .. n /\ i - 1 = j /\ j \in 0 .. n
  BY ONLY <1>1, <1>2, j \in 0 .. Len(T), j < Len(T)
<1>4. PICK x, h, lx : x = T[i] /\ h = encode_frame(x) /\ lx = Len(x)
  OBVIOUS
<1>5. GoodPayload(x)
  BY <1>1, <1>3, <1>4 DEF GoodPayloads
<1>6. /\ Len(h) = HeaderSize + lx /\ lx \in Nat /\ lx > 0 /\ lx < Oversize
      /\ \A l \in 1 .. HeaderSize : h[l] = Header(lx)[l]
      /\ \A l \in 1 .. lx : h[HeaderSize + l] = x[l]
  BY ONLY <1>4, <1>5, FrameShape
<1>7. e \in Nat /\ ends[i] = e + HeaderSize + lx /\ \A l \in 1 .. HeaderSize + lx : t[e + l] = h[l]
  <2>1. e \in 0 .. Len(t) /\ Len(t) \in Nat
    BY <1>1, <1>3, EmptyShape DEF Framed
  <2>2. ends[i] = ends[i - 1] + HeaderSize + Len(T[i]) /\ Matches(t, ends[i - 1], encode_frame(T[i]))
    BY <1>1, <1>3 DEF Framed
  <2> QED
    BY ONLY <1>1, <1>3, <1>4, <1>6, <2>1, <2>2 DEF Matches
<1>8. \A l \in 1 .. HeaderSize : t[e + l] = Header(lx)[l]
  <2>1. \A l \in 1 .. HeaderSize : l \in 1 .. HeaderSize + lx
    BY ONLY <1>2, <1>6
  <2> QED
    BY ONLY <1>6, <1>7, <2>1
<1>9. \A l \in 1 .. lx : t[e + HeaderSize + l] = x[l]
  <2>1. \A l \in 1 .. lx : HeaderSize + l \in 1 .. HeaderSize + lx /\ e + (HeaderSize + l) = e + HeaderSize + l
    BY ONLY <1>2, <1>6, <1>7
  <2> QED
    BY ONLY <1>6, <1>7, <2>1
<1> QED
  BY ONLY <1>1, <1>3, <1>4, <1>6, <1>7, <1>8, <1>9 DEF NextFrame

\* do_read_header reads the length of the next payload, unless it refuses it.
LEMMA ComesHeader ==
    ASSUME NEW T, GoodPayloads(T), NEW u, NEW length, NEW open, Comes(T, u, FALSE, length, open),
           HeaderSize <= Len(u), NEW n, n = decode_frame_header(SubSeq(u, 1, HeaderSize)), n # Oversize
    PROVE  Comes(T, SubSeq(u, HeaderSize + 1, Len(u)), TRUE, n, open)
<1>1. PICK t, ends, j, a, c : Begins(T, u, FALSE, length, open, t, ends, j, a, c)
  BY DEF Comes
<1>2. /\ Framed(T, t, ends) /\ IsSeq(t) /\ j \in 0 .. Len(T) /\ Slice(u, t, a, c) /\ a = ends[j]
      /\ open => c = Len(t)
  BY ONLY <1>1 DEF Begins, Framed
<1>3. PICK lu, lt, lT : lu = Len(u) /\ lt = Len(t) /\ lT = Len(T)
  OBVIOUS
<1>4. /\ IsSeq(u) /\ a \in Nat /\ c \in Nat /\ a <= c /\ c <= lt /\ lu = c - a
      /\ \A i \in 1 .. c - a : u[i] = t[a + i]
  BY ONLY <1>2, <1>3 DEF Slice
<1>5. HeaderSize \in Nat \ {0} /\ HeaderSize <= lu /\ lu \in Nat /\ lt \in Nat /\ lT \in Nat /\ IsSeq(T)
  BY <1>2, <1>3, <1>4, Sizes, EmptyShape DEF GoodPayloads
<1>6. j < lT
  <2>1. ASSUME j = lT PROVE FALSE
    <3>1. a = lt
      BY ONLY <1>2, <1>3, <2>1 DEF Framed
    <3> QED
      BY ONLY <1>4, <1>5, <3>1
  <2> QED
    BY ONLY <1>2, <1>3, <1>5, <2>1
<1>7. NextFrame(T, t, ends, j)
  BY <1>2, <1>3, <1>6, FrameNext
<1>8. PICK lx : lx = Len(T[j + 1]) /\ lx \in Nat /\ lx < Oversize
  BY ONLY <1>7 DEF NextFrame
<1>9. PICK hd : hd = SubSeq(u, 1, HeaderSize)
  OBVIOUS
<1>10. \A i \in 1 .. HeaderSize : hd[i] = Header(lx)[i]
  <2>1. HeaderSize \in 0 .. Len(u)
    BY ONLY <1>3, <1>5
  <2>2. \A i \in 1 .. HeaderSize : hd[i] = u[i]
    BY ONLY <1>4, <1>9, <2>1, PrefixShape
  <2>3. \A i \in 1 .. HeaderSize : i \in 1 .. c - a
    BY ONLY <1>4, <1>5
  <2>4. \A i \in 1 .. HeaderSize : t[a + i] = Header(lx)[i]
    BY ONLY <1>2, <1>7, <1>8 DEF NextFrame
  <2> QED
    BY ONLY <1>4, <2>2, <2>3, <2>4
<1>11. n = lx
  <2>1. n = IF lx > MaxPayload THEN Oversize ELSE lx
    <3>1. decode_frame_header(hd) = IF lx > MaxPayload THEN Oversize ELSE lx
      BY ONLY <1>8, <1>10, HeaderDecodes
    <3> QED
      BY ONLY <1>9, <3>1, n = decode_frame_header(SubSeq(u, 1, HeaderSize))
  <2> QED
    BY ONLY <2>1, n # Oversize
<1>12. Slice(SubSeq(u, HeaderSize + 1, Len(u)), t, a + HeaderSize, c)
  <2>1. HeaderSize \in 0 .. Len(u)
    BY ONLY <1>3, <1>5
  <2> QED
    BY ONLY <1>2, <2>1, SliceSuffix
<1>13. Begins(T, SubSeq(u, HeaderSize + 1, Len(u)), TRUE, n, open, t, ends, j, a + HeaderSize, c)
  BY ONLY <1>2, <1>3, <1>6, <1>8, <1>11, <1>12 DEF Begins
<1> QED
  BY ONLY <1>13 DEF Comes

\* do_read_body reads a payload that was sent.
Brings(T, u, n) == \E i \in 1 .. Len(T) : Parsed(SubSeq(u, 1, n)) = Parsed(T[i])

\* After the payload the session stands before the next header.
LEMMA ComesBody ==
    ASSUME NEW T, GoodPayloads(T), NEW u, NEW n, NEW open, Comes(T, u, TRUE, n, open), n <= Len(u)
    PROVE  /\ Comes(T, SubSeq(u, n + 1, Len(u)), FALSE, 0, open)
           /\ Brings(T, u, n)
<1>1. PICK t, ends, j, a, c : Begins(T, u, TRUE, n, open, t, ends, j, a, c)
  BY DEF Comes
<1>2. /\ Framed(T, t, ends) /\ IsSeq(t) /\ j \in 0 .. Len(T) /\ Slice(u, t, a, c)
      /\ j < Len(T) /\ n = Len(T[j + 1]) /\ a = ends[j] + HeaderSize
      /\ open => c = Len(t)
  BY ONLY <1>1 DEF Begins, Framed
<1>3. PICK lu, x : lu = Len(u) /\ x = T[j + 1]
  OBVIOUS
<1>4. /\ IsSeq(u) /\ a \in Nat /\ c \in Nat /\ a <= c /\ lu = c - a
      /\ \A i \in 1 .. c - a : u[i] = t[a + i]
  BY ONLY <1>2, <1>3 DEF Slice
<1>5. NextFrame(T, t, ends, j)
  BY <1>2, FrameNext
<1>6. /\ j + 1 \in 1 .. Len(T) /\ n \in Nat /\ n > 0 /\ ends[j + 1] = a + n
      /\ \A l \in 1 .. n : t[a + l] = x[l]
  BY ONLY <1>2, <1>3, <1>5 DEF NextFrame
<1>7. n <= lu /\ n \in 0 .. lu /\ lu \in Nat
  BY ONLY <1>3, <1>4, <1>6, n <= Len(u)
<1>8. Slice(SubSeq(u, n + 1, Len(u)), t, a + n, c)
  BY ONLY <1>2, <1>3, <1>7, SliceSuffix
<1>9. Begins(T, SubSeq(u, n + 1, Len(u)), FALSE, 0, open, t, ends, j + 1, a + n, c)
  <2>1. j + 1 \in 0 .. Len(T)
    BY ONLY <1>2, <1>6
  <2> QED
    BY ONLY <1>2, <1>6, <1>8, <2>1 DEF Begins
<1>10. Parsed(SubSeq(u, 1, n)) = Parsed(x)
  <2>1. PICK p : p = SubSeq(u, 1, n)
    OBVIOUS
  <2>2. \A i \in 1 .. n : p[i] = u[i]
    BY ONLY <1>3, <1>4, <1>7, <2>1, PrefixShape
  <2>3. 1 \in 1 .. n /\ 1 \in 1 .. c - a
    BY ONLY <1>4, <1>6, <1>7
  <2>4. p[1] = x[1]
    BY ONLY <1>4, <1>6, <2>2, <2>3
  <2> QED
    BY ONLY <2>1, <2>4 DEF Parsed
<1>11. Comes(T, SubSeq(u, n + 1, Len(u)), FALSE, 0, open)
  BY ONLY <1>9 DEF Comes
<1> QED
  BY ONLY <1>3, <1>6, <1>10, <1>11 DEF Brings

-----------------------------------------------------------------------------
(* Who is at the other end *)

\* k is the connection that the client uses.
Live(k) == k = conn /\ sock = "connected"

\* The account n exists, and has the identifier id.
Known(n, id) == n \in Names /\ users[n] # NoUser /\ users[n].id = id

\* The client sends its user's name on the connection it uses, and asks for
\* something else only when the session there has been authenticated.
Sent(k, m) ==
    \/ m.type = "auth_request" /\ m.username \in Names /\ (Live(k) => m.username = username)
    \/ m.type = "request" /\ session[k].authenticated

\* A task for connection k, past register_user or login, knows the account; past
\* set_auth, the session is authenticated.
ServedTask(k, x) ==
    /\ DOMAIN x = {"conn", "msg", "step", "userId"} /\ Sent(k, x.msg)
    /\ x.step \in {"verified", "authenticated"} =>
          x.msg.type = "auth_request" /\ Known(x.msg.username, x.userId)
    /\ x.step = "authenticated" => session[k].authenticated

PoolServed(k) == \A x \in pool : x.conn = k => ServedTask(k, x)

SessionServed(k) ==
    Live(k) /\ session[k].authenticated =>
        session[k].username = username /\ Known(username, session[k].userId)

Answered(k, m) ==
    /\ m.type # "error"
    /\ m.type = "auth_response" /\ m.success /\ Live(k) =>
          session[k].authenticated /\ Known(username, m.userId)

AnswersServed(k) == \A i \in 1 .. Len(toClient[k]) : Answered(k, Parsed(toClient[k][i]))

\* A frame that sendFrame may write.
Allowed(m) ==
    /\ m.size \in 1 .. Oversize - 1
    /\ \/ m.type = "auth_request" /\ m.username \in Names /\ m.username = username
       \/ m.type = "request" /\ accepted

\* A connection is being opened.
Opening == \/ sock = "connecting" /\ ~ pendingClose
           \/ netq # << >> /\ netq[1].call = "connect"

Silent(q) == \A i \in 1 .. Len(q) : q[i].signal # "message"
Received(q, T) ==
    \A i \in 1 .. Len(q) : q[i].signal = "message" => \E j \in 1 .. Len(T) : q[i].payload = T[j]

\* Who signs in has typed a name.
Named == pending_action # "" => username \in Names

Asks == \A i \in 1 .. Len(netq) : netq[i].call = "send" => Allowed(netq[i].msg)

\* While a connection is being opened nobody has signed in, and no message of an
\* earlier connection is left.
OpensFirst == Opening => ~ accepted /\ Silent(guiq)

\* The messages the dialog has yet to see came on the connection that is used.
Hears == sock = "connected" => Received(guiq, toClient[conn])

Agrees ==
    accepted /\ sock = "connected" =>
        session[conn].authenticated /\ identity = <<session[conn].userId, session[conn].username>>

Client == Named /\ Asks /\ OpensFirst /\ Hears /\ Agrees

Carries(k, T) == GoodPayloads(T) /\ \A i \in 1 .. Len(T) : Sent(k, Parsed(T[i]))

\* The bytes under way carry such messages, until the session has ended.
UpServed(k) ==
    session[k].reading # "ended" =>
        \E T : /\ Carries(k, T)
               /\ Comes(T, up[k], session[k].reading = "body", session[k].length, link[k] = "open")

Served(k) == PoolServed(k) /\ SessionServed(k) /\ AnswersServed(k) /\ UpServed(k)

Server ==
    /\ DOMAIN up = Conn /\ DOMAIN users = Names
    /\ \A k \in Conn : Served(k)
    /\ \A k \in Conn : Ahead(k) => up[k] = << >>

\* What no step takes back: the client's user while its connection is used,
\* the authentication of a session, and the accounts.
Steady(k) ==
    /\ Live(k)' => Live(k) /\ username' = username
    /\ session[k].authenticated => session'[k].authenticated

UsersStay == \A n, id : Known(n, id) => Known(n, id)'

\* A message that was sent rightly stays so while nothing is taken back.
LEMMA SentStays ==
    ASSUME NEW k, Steady(k), NEW m, Sent(k, m)
    PROVE  Sent(k, m)'
  BY DEF Steady, Sent

\* So does a task of the pool,
LEMMA TaskStays ==
    ASSUME NEW k, Steady(k), UsersStay, NEW x, ServedTask(k, x)
    PROVE  ServedTask(k, x)'
<1>1. Sent(k, x.msg)'
  BY SentStays DEF ServedTask
<1>2. x.step \in {"verified", "authenticated"} => Known(x.msg.username, x.userId)'
  BY DEF ServedTask, UsersStay
<1> QED
  BY <1>1, <1>2 DEF ServedTask, Steady

\* and all tasks of a connection, if every new one is served;
LEMMA PoolStays ==
    ASSUME NEW k, PoolServed(k), Steady(k), UsersStay,
           \A x \in pool' : x.conn = k => x \in pool \/ ServedTask(k, x)'
    PROVE  PoolServed(k)'
<1> SUFFICES ASSUME NEW x \in pool', x.conn = k PROVE ServedTask(k, x)'
  BY DEF PoolServed
<1>1. CASE x \in pool
  BY <1>1, TaskStays DEF PoolServed
<1> QED
  BY <1>1

\* so does a session whose authentication does not change,
LEMMA SessionStays ==
    ASSUME NEW k, SessionServed(k), Steady(k), UsersStay,
           /\ session'[k].authenticated = session[k].authenticated
           /\ session'[k].userId = session[k].userId /\ session'[k].username = session[k].username
    PROVE  SessionServed(k)'
<1> SUFFICES ASSUME Live(k)', session'[k].authenticated
             PROVE  session'[k].username = username' /\ Known(username, session[k].userId)'
  BY DEF SessionServed
<1>1. Live(k) /\ username' = username /\ session[k].authenticated
  BY DEF Steady
<1>2. session[k].username = username /\ Known(username, session[k].userId)
  BY <1>1 DEF SessionServed
<1>3. PICK n, id : n = username /\ id = session[k].userId /\ Known(n, id)
  BY <1>2
<1>4. Known(n, id)'
  BY <1>3 DEF UsersStay
<1>5. n = username' /\ id = session'[k].userId
  BY <1>1, <1>3
<1> QED
  BY <1>1, <1>2, <1>4, <1>5 DEF Known

\* an answer that was sent,
LEMMA AnswerStays ==
    ASSUME NEW k, Steady(k), UsersStay, NEW m, Answered(k, m)
    PROVE  Answered(k, m)'
<1> SUFFICES ASSUME m.type = "auth_response", m.success, Live(k)'
             PROVE  session'[k].authenticated /\ Known(username, m.userId)'
  BY DEF Answered
<1>1. Live(k) /\ username' = username
  BY DEF Steady
<1>2. session[k].authenticated /\ Known(username, m.userId)
  BY <1>1 DEF Answered
<1>3. PICK n : n = username /\ Known(n, m.userId)
  BY <1>2
<1>4. Known(n, m.userId)'
  BY <1>3 DEF UsersStay
<1> QED
  BY <1>1, <1>2, <1>3, <1>4 DEF Known, Steady

\* all answers of a connection to which nothing is added,
LEMMA AnswersStay ==
    ASSUME NEW k, AnswersServed(k), Steady(k), UsersStay, toClient'[k] = toClient[k]
    PROVE  AnswersServed(k)'
  BY AnswerStays DEF AnswersServed

\* a list of messages under way,
LEMMA CarriesStays ==
    ASSUME NEW k, Steady(k), NEW T, Carries(k, T)
    PROVE  Carries(k, T)'
  BY SentStays DEF Carries

\* and the bytes of a connection from which nothing is read.
LEMMA UpStays ==
    ASSUME NEW k, UpServed(k), Steady(k), up'[k] = up[k],
           /\ session'[k].reading = session[k].reading /\ session'[k].length = session[k].length
           /\ link'[k] = "open" => link[k] = "open"
    PROVE  UpServed(k)'
<1> SUFFICES ASSUME session'[k].reading # "ended"
             PROVE  \E T : /\ Carries(k, T)'
                           /\ Comes(T, up'[k], session'[k].reading = "body", session'[k].length, link'[k] = "open")
  BY DEF UpServed
<1>1. PICK T : /\ Carries(k, T)
               /\ Comes(T, up[k], session[k].reading = "body", session[k].length, link[k] = "open")
  BY DEF UpServed
<1>2. Comes(T, up[k], session[k].reading = "body", session[k].length, link'[k] = "open")
  BY <1>1, ComesClosed
<1>3. Carries(k, T)'
  BY <1>1, CarriesStays
<1> QED
  BY <1>2, <1>3

\* A connection at which nothing happens.
LEMMA ServedStays ==
    ASSUME NEW k, Served(k), Steady(k), UsersStay, up'[k] = up[k], session'[k] = session[k],
           toClient'[k] = toClient[k], link'[k] = "open" => link[k] = "open",
           \A x \in pool' : x.conn = k => x \in pool
    PROVE  Served(k)'
<1>1. PoolServed(k)'
  BY PoolStays DEF Served
<1>2. SessionServed(k)'
  BY SessionStays DEF Served
<1>3. AnswersServed(k)'
  BY AnswersStay DEF Served
<1>4. UpServed(k)'
  BY UpStays DEF Served
<1> QED
  BY <1>1, <1>2, <1>3, <1>4 DEF Served

\* A step that does not touch the server.
LEMMA ClientKeepsServer ==
    ASSUME Server, UNCHANGED <<session, toClient, pool, users>>, DOMAIN up' = Conn,
           \A k \in Conn : /\ up'[k] = up[k]
                           /\ Live(k)' => Live(k) /\ username' = username
                           /\ link'[k] = "open" => link[k] = "open"
                           /\ Ahead(k)' => Ahead(k)
    PROVE  Server'
<1>1. UsersStay
  BY DEF UsersStay, Known
<1>2. ASSUME NEW k \in Conn PROVE Served(k)'
  <2>1. Steady(k)
    BY DEF Steady
  <2> QED
    BY <1>1, <2>1, ServedStays DEF Server
<1> QED
  BY <1>2 DEF Server

\* A step of the server at connection k: the others keep what they have.
LEMMA StepAtServer ==
    ASSUME Server, UNCHANGED <<sock, conn, username>>, NEW k \in Conn, UsersStay, Served(k)',
           DOMAIN up' = Conn, DOMAIN users' = Names, ~ Ahead(k),
           \A j \in Conn : j # k => /\ up'[j] = up[j] /\ session'[j] = session[j] /\ link'[j] = link[j]
                                    /\ toClient'[j] = toClient[j],
           \A x \in pool' : x \in pool \/ x.conn = k
    PROVE  Server'
<1>1. ASSUME NEW j \in Conn PROVE Served(j)'
  <2>1. CASE j = k
    BY <2>1
  <2>2. CASE j # k
    <3>1. Steady(j)
      BY <2>2 DEF Steady, Live
    <3>2. \A x \in pool' : x.conn = j => x \in pool
      BY <2>2
    <3> QED
      BY <2>2, <3>1, <3>2, ServedStays DEF Server
  <2> QED
    BY <2>1, <2>2
<1>2. ASSUME NEW j \in Conn, Ahead(j)' PROVE up'[j] = << >>
  <2>1. Ahead(j)
    BY <1>2 DEF Ahead
  <2> QED
    BY <2>1 DEF Server
<1> QED
  BY <1>1, <1>2 DEF Server

\* A step that leaves the session's user alone.
LEMMA StepAtSession ==
    ASSUME Streams, Server, UNCHANGED <<sock, conn, username>>, NEW k \in Conn, ~ Unused(k), UsersStay,
           /\ session'[k].authenticated = session[k].authenticated
           /\ session'[k].userId = session[k].userId /\ session'[k].username = session[k].username,
           DOMAIN up' = Conn, DOMAIN users' = Names,
           \A j \in Conn : j # k => /\ up'[j] = up[j] /\ session'[j] = session[j] /\ link'[j] = link[j]
                                    /\ toClient'[j] = toClient[j],
           \A x \in pool' : x \in pool \/ (x.conn = k /\ ServedTask(k, x)'),
           AnswersServed(k)', UpServed(k)'
    PROVE  Server'
<1>1. Steady(k)
  BY DEF Steady, Live
<1>2. Served(k) /\ ~ Ahead(k)
  BY DEF Server, Streams
<1>3. PoolServed(k)'
  BY <1>1, <1>2, PoolStays DEF Served
<1>4. SessionServed(k)'
  BY <1>1, <1>2, SessionStays DEF Served
<1>5. Served(k)'
  BY <1>3, <1>4 DEF Served
<1> QED
  BY <1>2, <1>5, StepAtServer

\* The accounts are where they were.
LEMMA SameUsers == ASSUME UNCHANGED users PROVE UsersStay
  BY DEF UsersStay, Known

\* A step of the session's reader or writer that reads no message.
LEMMA StepAtStream ==
    ASSUME Streams, Server, UNCHANGED <<sock, conn, username, users, toClient, pool>>, NEW k \in Conn,
           ~ Unused(k),
           /\ session'[k].authenticated = session[k].authenticated
           /\ session'[k].userId = session[k].userId /\ session'[k].username = session[k].username,
           DOMAIN up' = Conn,
           \A j \in Conn : j # k => up'[j] = up[j] /\ session'[j] = session[j] /\ link'[j] = link[j],
           UpServed(k)'
    PROVE  Server'
<1>1. UsersStay /\ DOMAIN users' = Names
  BY SameUsers DEF Server
<1>2. Steady(k)
  BY DEF Steady, Live
<1>3. AnswersServed(k)'
  BY <1>1, <1>2, AnswersStay DEF Server, Served
<1> QED
  BY <1>1, <1>3, StepAtSession

\* do_accept: the new session has read nothing and nothing was sent on it.
LEMMA AcceptServes == ASSUME Streams, Server, NEW k \in Conn, do_accept(k) PROVE Server'
<1>1. Shapes /\ ~ Unused(k)
  BY DEF Streams, do_accept, Unused
<1>2. /\ session'[k].authenticated = session[k].authenticated
      /\ session'[k].userId = session[k].userId /\ session'[k].username = session[k].username
      /\ session'[k].length = session[k].length /\ session'[k].reading = "header"
      /\ \A j \in Conn : j # k => session'[j] = session[j]
  BY <1>1 DEF do_accept, Shapes, Fields
<1>3. UNCHANGED <<sock, conn, username, users, toClient, pool, link, up>> /\ session[k].reading = "none"
  BY DEF do_accept, netVars, dialogVars
<1>4. UpServed(k)'
  <2>1. PICK T : /\ Carries(k, T)
                 /\ Comes(T, up[k], session[k].reading = "body", session[k].length, link[k] = "open")
    BY <1>3 DEF Server, Served, UpServed
  <2>2. (session'[k].reading = "body") = (session[k].reading = "body")
    BY <1>2, <1>3
  <2>3. Carries(k, T)'
    BY <1>2, <1>3, <2>1, CarriesStays DEF Steady, Live
  <2> QED
    BY <1>2, <1>3, <2>1, <2>2, <2>3 DEF UpServed
<1> QED
  BY <1>1, <1>2, <1>3, <1>4, StepAtStream DEF Server

\* The end of a session ends its reading.
LEMMA EndedServes ==
    ASSUME Streams, NEW k \in Conn, Disconnected(k)
    PROVE  /\ session'[k].authenticated = session[k].authenticated
           /\ session'[k].userId = session[k].userId /\ session'[k].username = session[k].username
           /\ \A j \in Conn : j # k => session'[j] = session[j]
           /\ UpServed(k)'
<1>1. Shapes
  BY DEF Streams
<1>2. /\ session'[k].authenticated = session[k].authenticated
      /\ session'[k].userId = session[k].userId /\ session'[k].username = session[k].username
      /\ session'[k].reading = "ended"
      /\ \A j \in Conn : j # k => session'[j] = session[j]
  BY <1>1 DEF Disconnected, Shapes, Fields
<1> QED
  BY <1>2 DEF UpServed

\* do_read_header: the length read is that of the next payload.
LEMMA ReadHeaderServes == ASSUME Streams, Server, NEW k \in Conn, do_read_header(k) PROVE Server'
<1>1. Shapes /\ ~ Unused(k) /\ DOMAIN up = Conn
  BY DEF Streams, do_read_header, Unused, Server
<1>2. UNCHANGED <<sock, conn, username, users, toClient, pool>>
  BY DEF do_read_header, netVars, dialogVars
<1>3. PICK n : n = decode_frame_header(SubSeq(up[k], 1, HeaderSize))
  OBVIOUS
<1>4. CASE n = Oversize
  <2>1. /\ Disconnected(k) /\ link' = [link EXCEPT ![k] = IF @ = "open" THEN "lost" ELSE @]
        /\ up' = [up EXCEPT ![k] = << >>]
    BY <1>3, <1>4 DEF do_read_header
  <2>2. DOMAIN up' = Conn /\ \A j \in Conn : j # k => link'[j] = link[j] /\ up'[j] = up[j]
    BY <1>1, <2>1 DEF Shapes
  <2> QED
    BY <1>1, <1>2, <2>1, <2>2, EndedServes, StepAtStream
<1>5. CASE n # Oversize
  <2>1. /\ session' = [session EXCEPT ![k].length = n, ![k].reading = "body"]
        /\ up' = [up EXCEPT ![k] = SubSeq(@, HeaderSize + 1, Len(@))] /\ link' = link
        /\ session[k].reading = "header" /\ Len(up[k]) >= HeaderSize
    BY <1>3, <1>5 DEF do_read_header
  <2>2. /\ session'[k].authenticated = session[k].authenticated
        /\ session'[k].userId = session[k].userId /\ session'[k].username = session[k].username
        /\ session'[k].length = n /\ session'[k].reading = "body"
        /\ \A j \in Conn : j # k => session'[j] = session[j]
    BY ONLY <1>1, <2>1, k \in Conn DEF Shapes, Fields
  <2>3. PICK u : u = up[k]
    OBVIOUS
  <2>4. /\ DOMAIN up' = Conn /\ up'[k] = SubSeq(u, HeaderSize + 1, Len(u))
        /\ \A j \in Conn : j # k => up'[j] = up[j]
    BY ONLY <1>1, <2>1, <2>3, k \in Conn
  <2>5. UpServed(k)'
    <3>1. PICK T : /\ Carries(k, T)
                   /\ Comes(T, u, session[k].reading = "body", session[k].length, link[k] = "open")
      BY <2>1, <2>3 DEF Server, Served, UpServed
    <3>2. (session[k].reading = "body") = FALSE /\ (session'[k].reading = "body") = TRUE
      BY <2>1, <2>2
    <3>3. Comes(T, u, FALSE, session[k].length, link[k] = "open")
      BY <3>1, <3>2
    <3>4. GoodPayloads(T) /\ HeaderSize <= Len(u)
      <4>1. IsSeq(u) /\ HeaderSize \in Nat
        BY ONLY <3>3, Sizes DEF Comes, Begins, Slice
      <4>2. PICK lu : lu = Len(u) /\ lu \in Nat /\ lu >= HeaderSize
        BY <2>1, <2>3, <4>1, EmptyShape
      <4> QED
        BY <3>1, <4>1, <4>2 DEF Carries
    <3>5. Comes(T, SubSeq(u, HeaderSize + 1, Len(u)), TRUE, n, link[k] = "open")
      BY ONLY <1>3, <1>5, <2>3, <3>3, <3>4, ComesHeader
    <3>6. Carries(k, T)'
      BY <1>2, <2>2, <3>1, CarriesStays DEF Steady, Live
    <3> QED
      BY <2>1, <2>2, <2>4, <3>2, <3>5, <3>6 DEF UpServed
  <2> QED
    BY <1>1, <1>2, <2>1, <2>2, <2>4, <2>5, StepAtStream
<1> QED
  BY <1>4, <1>5

\* do_read_body: the task it submits has a message that the client sent.
LEMMA ReadBodyServes == ASSUME Streams, Server, NEW k \in Conn, do_read_body(k) PROVE Server'
<1>1. Shapes /\ ~ Unused(k) /\ DOMAIN up = Conn
  BY DEF Streams, do_read_body, Unused, Server
<1>2. UNCHANGED <<sock, conn, username, users, toClient, link>>
  BY DEF do_read_body, netVars, dialogVars
<1>3. PICK n, u, x : /\ n = session[k].length /\ u = up[k]
                     /\ x = [conn |-> k, msg |-> Parsed(SubSeq(u, 1, n)), step |-> "received", userId |-> 0]
  OBVIOUS
<1>4. /\ session[k].reading = "body" /\ Len(u) >= n /\ pool' = pool \cup {x}
      /\ session' = [session EXCEPT ![k].reading = "header", ![k].length = 0]
      /\ up' = [up EXCEPT ![k] = SubSeq(@, n + 1, Len(@))]
  BY <1>3 DEF do_read_body
<1>5. /\ session'[k].authenticated = session[k].authenticated
      /\ session'[k].userId = session[k].userId /\ session'[k].username = session[k].username
      /\ session'[k].length = 0 /\ session'[k].reading = "header"
      /\ \A j \in Conn : j # k => session'[j] = session[j]
  BY ONLY <1>1, <1>4, k \in Conn DEF Shapes, Fields
<1>6. DOMAIN up' = Conn /\ up'[k] = SubSeq(u, n + 1, Len(u)) /\ \A j \in Conn : j # k => up'[j] = up[j]
  BY ONLY <1>1, <1>3, <1>4, k \in Conn
<1>7. Steady(k)
  BY <1>2, <1>5 DEF Steady, Live
<1>8. PICK T : Carries(k, T) /\ Comes(T, u, session[k].reading = "body", n, link[k] = "open")
  BY <1>3, <1>4 DEF Server, Served, UpServed
<1>9. (session[k].reading = "body") = TRUE /\ (session'[k].reading = "body") = FALSE
  BY <1>4, <1>5
<1>10. Comes(T, u, TRUE, n, link[k] = "open")
  BY <1>8, <1>9
<1>11. GoodPayloads(T) /\ n <= Len(u)
  <2>1. GoodPayloads(T) /\ IsSeq(u)
    BY <1>8 DEF Carries, Comes, Begins, Slice
  <2>2. n \in Nat
    <3>1. PICK j \in 0 .. Len(T) : j < Len(T) /\ n = Len(T[j + 1])
      BY ONLY <1>10 DEF Comes, Begins
    <3>2. Len(T) \in Nat
      BY ONLY <2>1, EmptyShape DEF GoodPayloads
    <3>3. j + 1 \in 1 .. Len(T)
      BY ONLY <3>1, <3>2
    <3> QED
      BY ONLY <2>1, <3>1, <3>3, EmptyShape DEF GoodPayloads, GoodPayload
  <2>3. PICK lu : lu = Len(u) /\ lu \in Nat /\ lu >= n
    BY <1>4, <2>1, EmptyShape
  <2> QED
    BY ONLY <2>1, <2>2, <2>3
<1>12. /\ Comes(T, SubSeq(u, n + 1, Len(u)), FALSE, 0, link[k] = "open")
       /\ Brings(T, u, n)
  <2>1. PICK open : open = (link[k] = "open") /\ Comes(T, u, TRUE, n, open)
    BY <1>10
  <2>2. Comes(T, SubSeq(u, n + 1, Len(u)), FALSE, 0, open)
    BY ONLY <1>11, <2>1, ComesBody
  <2>3. Brings(T, u, n)
    BY ONLY <1>11, <2>1, ComesBody
  <2> QED
    BY <2>1, <2>2, <2>3
<1>13. Sent(k, x.msg)
  BY <1>3, <1>8, <1>12 DEF Carries, Brings
<1>14. ServedTask(k, x)' /\ x.conn = k
  <2>1. Sent(k, x.msg)'
    BY <1>7, <1>13, SentStays
  <2>2. x.conn = k /\ x.step = "received" /\ DOMAIN x = {"conn", "msg", "step", "userId"}
    BY <1>3
  <2> QED
    BY <2>1, <2>2 DEF ServedTask
<1>15. UpServed(k)'
  <2>1. Carries(k, T)'
    BY <1>7, <1>8, CarriesStays
  <2> QED
    BY <1>2, <1>5, <1>6, <1>9, <1>12, <2>1 DEF UpServed
<1>16. UsersStay /\ DOMAIN users' = Names
  BY <1>2, SameUsers DEF Server
<1>17. AnswersServed(k)'
  BY <1>2, <1>7, <1>16, AnswersStay DEF Server, Served
<1>18. \A y \in pool' : y \in pool \/ (y.conn = k /\ ServedTask(k, y)')
  BY <1>4, <1>14
<1> QED
  BY <1>1, <1>2, <1>5, <1>6, <1>15, <1>16, <1>17, <1>18, StepAtSession

\* A read that fails ends the session.
LEMMA ReadFailsServes == ASSUME Streams, Server, NEW k \in Conn, ReadFails(k) PROVE Server'
<1>1. ~ Unused(k) /\ DOMAIN up = Conn
  BY DEF Server, ReadFails, Unused
<1>2. UNCHANGED <<sock, conn, username, users, toClient, pool, link>> /\ Disconnected(k)
  BY DEF ReadFails, netVars, dialogVars
<1>3. DOMAIN up' = Conn /\ \A j \in Conn : j # k => up'[j] = up[j]
  BY <1>1 DEF ReadFails
<1> QED
  BY <1>1, <1>2, <1>3, EndedServes, StepAtStream

\* do_write: bytes to the client, nothing of who is there.
LEMMA WriteServes == ASSUME Streams, Server, NEW k \in Conn, do_write(k) PROVE Server'
<1>1. Shapes /\ ~ Unused(k) /\ DOMAIN up = Conn
  BY DEF Streams, do_write, Unused, Server
<1>2. UNCHANGED <<sock, conn, username, users, toClient, pool, link, up>>
  BY DEF do_write, netVars, dialogVars
<1>3. CASE link[k] = "open"
  <2>1. session' = [session EXCEPT ![k].write_queue = Tail(@),
                                   ![k].writing = Len(session[k].write_queue) > 1]
    BY <1>3 DEF do_write
  <2>2. /\ session'[k].authenticated = session[k].authenticated
        /\ session'[k].userId = session[k].userId /\ session'[k].username = session[k].username
        /\ session'[k].length = session[k].length /\ session'[k].reading = session[k].reading
        /\ \A j \in Conn : j # k => session'[j] = session[j]
    BY <1>1, <2>1 DEF Shapes, Fields
  <2>3. UpServed(k)'
    BY <1>2, <2>2, UpStays DEF Server, Served, Steady, Live
  <2> QED
    BY <1>1, <1>2, <2>2, <2>3, StepAtStream
<1>4. CASE link[k] # "open"
  <2>1. Disconnected(k)
    BY <1>4 DEF do_write
  <2> QED
    BY <1>1, <1>2, <2>1, EndedServes, StepAtStream
<1> QED
  BY <1>3, <1>4

\* A lost connection cuts what is under way in both directions.
LEMMA LoseLinkServes == ASSUME Streams, Server, NEW k \in Conn, LoseLink(k) PROVE Server'
<1>1. Shapes /\ ~ Unused(k) /\ DOMAIN up = Conn
  BY DEF Streams, LoseLink, Unused, Server
<1>2. UNCHANGED <<sock, conn, username, users, toClient, pool, session>>
  BY DEF LoseLink, netVars, dialogVars, serverVars
<1>3. link'[k] = "lost" /\ \A j \in Conn : j # k => link'[j] = link[j]
  BY <1>1 DEF LoseLink, Shapes
<1>4. PICK n \in 0 .. Len(up[k]) : up' = [up EXCEPT ![k] = SubSeq(@, 1, n)]
  BY DEF LoseLink
<1>5. PICK u : u = up[k]
  OBVIOUS
<1>6. DOMAIN up' = Conn /\ up'[k] = SubSeq(u, 1, n) /\ \A j \in Conn : j # k => up'[j] = up[j]
  BY <1>1, <1>4, <1>5
<1>7. UpServed(k)'
  <2> SUFFICES ASSUME session[k].reading # "ended"
               PROVE  \E T : /\ Carries(k, T)'
                             /\ Comes(T, up'[k], session[k].reading = "body", session[k].length, link'[k] = "open")
    BY <1>2 DEF UpServed
  <2>1. PICK T : /\ Carries(k, T)
                 /\ Comes(T, u, session[k].reading = "body", session[k].length, link[k] = "open")
    BY <1>5 DEF Server, Served, UpServed
  <2>2. Comes(T, SubSeq(u, 1, n), session[k].reading = "body", session[k].length, FALSE)
    BY ONLY <1>4, <1>5, <2>1, ComesCut
  <2>3. (link'[k] = "open") = FALSE
    BY <1>3
  <2>4. Carries(k, T)'
    BY <1>2, <2>1, CarriesStays DEF Steady, Live
  <2> QED
    BY <1>6, <2>2, <2>3, <2>4
<1> QED
  BY <1>1, <1>2, <1>3, <1>6, <1>7, StepAtStream

\* The first byte of a message tells which one it is.
LEMMA ParsedPayload ==
    ASSUME NEW m, m.size \in 1 .. Oversize - 1
    PROVE  Parsed(Payload(m)) = m
<1>1. PICK n, p : n = m.size /\ p = Payload(m)
  OBVIOUS
<1>2. n \in Nat /\ 1 \in 1 .. n
  <2>1. n \in 1 .. Oversize - 1 /\ Oversize \in Nat
    BY <1>1, Sizes
  <2> QED
    BY ONLY <2>1
<1>3. p = [i \in 1 .. n |-> <<m, i>>]
  BY <1>1 DEF Payload
<1>4. p[1] = <<m, 1>>
  BY ONLY <1>2, <1>3
<1>5. p[1][1] = m
  BY ONLY <1>4
<1> QED
  BY ONLY <1>1, <1>5 DEF Parsed

\* ClientSession::send of an answer that is true.
LEMMA SendingServes ==
    ASSUME Streams, Server, NEW k \in Conn, ~ Unused(k), NEW m, m.size \in 1 .. Oversize - 1,
           Sending(k, m), Answered(k, m), UsersStay, DOMAIN users' = Names,
           UNCHANGED <<sock, conn, username, up, link>>, pool' \subseteq pool
    PROVE  Server'
<1>1. Shapes /\ Kept(k) /\ Served(k) /\ DOMAIN up = Conn
  BY DEF Streams, Server
<1>2. /\ session'[k].authenticated = session[k].authenticated
      /\ session'[k].userId = session[k].userId /\ session'[k].username = session[k].username
      /\ session'[k].length = session[k].length /\ session'[k].reading = session[k].reading
      /\ \A j \in Conn : j # k => session'[j] = session[j] /\ toClient'[j] = toClient[j]
  BY <1>1 DEF Sending, Shapes, Fields
<1>3. Steady(k)
  BY <1>2 DEF Steady, Live
<1>4. UpServed(k)'
  BY <1>1, <1>2, <1>3, UpStays DEF Served
<1>5. CASE toClient' = toClient
  BY <1>1, <1>2, <1>3, <1>4, <1>5, AnswersStay, StepAtSession DEF Served
<1>6. CASE toClient' = [toClient EXCEPT ![k] = Append(@, Payload(m))]
  <2>1. PICK T, p, n, U : T = toClient[k] /\ p = Payload(m) /\ n = Len(T) /\ U = toClient'[k]
    OBVIOUS
  <2>2. IsSeq(T) /\ n \in Nat
    BY <1>1, <2>1, EmptyShape DEF Kept, GoodPayloads
  <2>3. U = Append(T, p)
    BY <1>1, <1>6, <2>1 DEF Shapes
  <2>4. Len(U) = n + 1 /\ (\A i \in 1 .. n : U[i] = T[i]) /\ U[n + 1] = p
    BY ONLY <2>1, <2>2, <2>3, AppendShape
  <2>5. ASSUME NEW i \in 1 .. n + 1 PROVE Answered(k, Parsed(U[i]))
    <3>1. CASE i = n + 1
      <4>1. Parsed(p) = m
        BY <2>1, ParsedPayload
      <4> QED
        BY <2>4, <3>1, <4>1
    <3>2. CASE i # n + 1
      <4>1. i \in 1 .. n
        BY ONLY <2>2, <2>5, <3>2
      <4> QED
        BY <1>1, <2>1, <2>4, <4>1 DEF Served, AnswersServed
    <3> QED
      BY <3>1, <3>2
  <2>6. AnswersServed(k)'
    <3> SUFFICES ASSUME NEW i \in 1 .. n + 1 PROVE Answered(k, Parsed(U[i]))'
      BY <2>1, <2>4 DEF AnswersServed
    <3>1. PICK a : a = Parsed(U[i]) /\ Answered(k, a)
      BY <2>5
    <3>2. Answered(k, a)'
      BY <1>3, <3>1, AnswerStays
    <3>3. a = Parsed(toClient'[k][i])
      BY <2>1, <3>1
    <3> QED
      BY <2>1, <3>2, <3>1
  <2> QED
    BY <1>1, <1>2, <1>4, <2>6, StepAtSession
<1> QED
  BY <1>5, <1>6 DEF Sending

\* A message of the server is no answer to a request.
LEMMA PushServes == ASSUME Streams, Server, NEW k \in Conn, PushMessage(k) PROVE Server'
<1>1. ~ Unused(k) /\ UNCHANGED <<sock, conn, username, up, link, pool, users>>
  BY DEF PushMessage, Unused, netVars, dialogVars
<1>2. PICK size \in PushSizes : Sending(k, Push(pushes + 1, size))
  BY DEF PushMessage
<1>3. PICK m : m = Push(pushes + 1, size)
  OBVIOUS
<1>4. m.size \in 1 .. Oversize - 1 /\ m.type = "push"
  BY <1>3, Sizes DEF Push
<1>5. Answered(k, m)
  BY <1>4 DEF Answered
<1>6. UsersStay /\ DOMAIN users' = Names
  BY <1>1, SameUsers DEF Server
<1> QED
  BY <1>1, <1>2, <1>3, <1>4, <1>5, <1>6, SendingServes

\* register_user adds an account and changes none; the identifier that it or
\* login returns is the account's.
LEMMA Accounts ==
    ASSUME Server, NEW m, m.username \in Names, NEW result,
           result = (IF m.action = "register" THEN register_user(m) ELSE login(m)), result.success,
           users' = IF result.success /\ m.action = "register"
                    THEN [users EXCEPT ![m.username] = [id |-> result.userId, password |-> m.password]]
                    ELSE users
    PROVE  UsersStay /\ DOMAIN users' = Names /\ Known(m.username, result.userId)'
<1>0. DOMAIN users = Names
  BY DEF Server
<1>1. CASE m.action = "register"
  <2>1. m.password # "" /\ users[m.username] = NoUser
    BY <1>1 DEF register_user, Registered
  <2>2. PICK r : r = [id |-> result.userId, password |-> m.password]
    OBVIOUS
  <2>3. users' = [users EXCEPT ![m.username] = r]
    BY <1>1, <2>2
  <2>4. r # NoUser /\ r.id = result.userId
    BY <2>1, <2>2 DEF NoUser
  <2>5. /\ DOMAIN users' = Names /\ users'[m.username] = r
        /\ \A n \in Names : n # m.username => users'[n] = users[n]
    BY <1>0, <2>3
  <2>6. UsersStay
    BY <2>1, <2>5 DEF UsersStay, Known
  <2> QED
    BY <2>4, <2>5, <2>6 DEF Known
<1>2. CASE m.action # "register"
  <2>1. users' = users /\ users[m.username] # NoUser /\ result.userId = users[m.username].id
    BY <1>2 DEF login, Registered
  <2> QED
    BY <1>0, <2>1, SameUsers DEF Known
<1> QED
  BY <1>1, <1>2

\* The steps of handle_auth_request in a pool thread: the account is known before
\* set_auth, and the session is authenticated before the answer is sent.
LEMMA PoolTaskServes == ASSUME Streams, Server, NEW a \in pool, PoolTask(a) PROVE Server'
<1>1. PICK k \in Conn : k = a.conn
  BY DEF Streams
<1>2. Shapes /\ ~ Unused(k) /\ Served(k) /\ DOMAIN up = Conn /\ DOMAIN users = Names
  BY <1>1 DEF Streams, Unused, Server
<1>3. UNCHANGED <<sock, conn, username, up, link>>
  BY DEF PoolTask, netVars, dialogVars
<1>4. ServedTask(k, a)
  BY <1>1, <1>2 DEF Served, PoolServed
<1>5. 1 \in 1 .. Oversize - 1
  BY Sizes
<1>6. CASE Verify(a)
  <2>1. PICK m, result : /\ m = a.msg
                         /\ result = (IF m.action = "register" THEN register_user(m) ELSE login(m))
    OBVIOUS
  <2>2. /\ users' = IF result.success /\ m.action = "register"
                    THEN [users EXCEPT ![m.username] = [id |-> result.userId, password |-> m.password]]
                    ELSE users
        /\ m.type = "auth_request" /\ a.step = "received"
    BY <1>6, <2>1 DEF Verify
  <2>3. m.username \in Names
    BY <1>4, <2>1, <2>2 DEF ServedTask, Sent
  <2>4. CASE result.success
    <3>1. UsersStay /\ DOMAIN users' = Names /\ Known(m.username, result.userId)'
      BY <2>1, <2>2, <2>3, <2>4, Accounts
    <3>2. PICK b : b = [a EXCEPT !.step = "verified", !.userId = result.userId]
      OBVIOUS
    <3>3. pool' = (pool \ {a}) \cup {b} /\ UNCHANGED <<session, toClient>>
      BY <1>6, <2>1, <2>4, <3>2 DEF Verify
    <3>4. /\ DOMAIN b = {"conn", "msg", "step", "userId"} /\ b.conn = k /\ b.msg = m
          /\ b.step = "verified" /\ b.userId = result.userId
      BY <1>1, <1>4, <2>1, <3>2 DEF ServedTask
    <3>5. Steady(k)
      BY <1>3, <3>3 DEF Steady, Live
    <3>6. Sent(k, m)'
      BY <1>4, <2>1, <3>5, SentStays DEF ServedTask
    <3>7. ServedTask(k, b)'
      BY <2>2, <3>1, <3>4, <3>6 DEF ServedTask
    <3>8. \A x \in pool' : x \in pool \/ (x.conn = k /\ ServedTask(k, x)')
      BY <3>3, <3>4, <3>7
    <3>9. AnswersServed(k)' /\ UpServed(k)'
      BY <1>2, <1>3, <3>1, <3>3, <3>5, AnswersStay, UpStays DEF Served
    <3> QED
      BY <1>2, <1>3, <3>1, <3>3, <3>8, <3>9, StepAtSession
  <2>5. CASE ~ result.success
    <3>1. pool' = pool \ {a} /\ Sending(k, AuthResponse(FALSE, 0)) /\ users' = users
      BY <1>1, <1>6, <2>1, <2>2, <2>5 DEF Verify
    <3>2. PICK r : r = AuthResponse(FALSE, 0)
      OBVIOUS
    <3>3. r.size = 1 /\ Answered(k, r)
      BY <3>2 DEF AuthResponse, Answered
    <3> QED
      BY <1>2, <1>3, <1>5, <3>1, <3>2, <3>3, SameUsers, SendingServes
  <2> QED
    BY <2>4, <2>5
<1>7. CASE set_auth(a)
  <2>1. PICK b : b = [a EXCEPT !.step = "authenticated"]
    OBVIOUS
  <2>2. /\ session' = [session EXCEPT ![k].userId = a.userId, ![k].username = a.msg.username,
                                      ![k].authenticated = TRUE]
        /\ pool' = (pool \ {a}) \cup {b} /\ UNCHANGED <<users, toClient>> /\ a.step = "verified"
    BY <1>1, <1>7, <2>1 DEF set_auth
  <2>3. /\ session'[k].authenticated = TRUE /\ session'[k].userId = a.userId
        /\ session'[k].username = a.msg.username
        /\ session'[k].length = session[k].length /\ session'[k].reading = session[k].reading
        /\ \A j \in Conn : j # k => session'[j] = session[j]
    BY <1>2, <2>2 DEF Shapes, Fields
  <2>4. UsersStay /\ DOMAIN users' = Names
    BY <1>2, <2>2, SameUsers
  <2>5. Steady(k)
    BY <1>3, <2>3 DEF Steady, Live
  <2>6. a.msg.type = "auth_request" /\ Known(a.msg.username, a.userId) /\ Sent(k, a.msg)
    BY <1>4, <2>2 DEF ServedTask
  <2>7. Known(a.msg.username, a.userId)' /\ Sent(k, a.msg)'
    BY <2>4, <2>5, <2>6, SentStays DEF UsersStay
  <2>8. /\ DOMAIN b = {"conn", "msg", "step", "userId"} /\ b.conn = k /\ b.msg = a.msg
        /\ b.step = "authenticated" /\ b.userId = a.userId
    BY <1>1, <1>4, <2>1 DEF ServedTask
  <2>9. ServedTask(k, b)'
    BY <2>3, <2>6, <2>7, <2>8 DEF ServedTask
  <2>10. PoolServed(k)'
    <3>1. \A x \in pool' : x.conn = k => x \in pool \/ ServedTask(k, x)'
      BY <2>2, <2>9
    <3> QED
      BY <1>2, <2>4, <2>5, <3>1, PoolStays DEF Served
  <2>11. SessionServed(k)'
    <3> SUFFICES ASSUME Live(k)'
                 PROVE  session'[k].username = username' /\ Known(username, session[k].userId)'
      BY DEF SessionServed
    <3>1. a.msg.username = username'
      BY <2>6, <2>7 DEF Sent
    <3> QED
      BY <2>3, <2>7, <3>1 DEF Known
  <2>12. AnswersServed(k)' /\ UpServed(k)'
    BY <1>2, <1>3, <2>2, <2>3, <2>4, <2>5, AnswersStay, UpStays DEF Served
  <2>13. Served(k)'
    BY <2>10, <2>11, <2>12 DEF Served
  <2>14. \A x \in pool' : x \in pool \/ x.conn = k
    BY <2>2, <2>8
  <2>15. ~ Ahead(k)
    BY <1>2 DEF Streams
  <2> QED
    BY <1>2, <1>3, <2>2, <2>3, <2>4, <2>13, <2>14, <2>15, StepAtServer
<1>8. CASE Answer(a)
  <2>1. PICK r : r = AuthResponse(TRUE, a.userId)
    OBVIOUS
  <2>2. pool' = pool \ {a} /\ Sending(k, r) /\ users' = users /\ a.step = "authenticated"
    BY <1>1, <1>8, <2>1 DEF Answer
  <2>3. r.size = 1 /\ r.type = "auth_response" /\ r.userId = a.userId
    BY <2>1 DEF AuthResponse
  <2>4. Live(k) => session[k].authenticated /\ Known(username, a.userId)
    BY <1>4, <2>2 DEF ServedTask, Sent
  <2>5. Answered(k, r)
    BY <2>3, <2>4 DEF Answered
  <2> QED
    BY <1>2, <1>3, <1>5, <2>2, <2>3, <2>5, SameUsers, SendingServes
<1>9. CASE HandleRequest(a)
  <2>1. session[k].authenticated
    BY <1>4, <1>9 DEF HandleRequest, ServedTask, Sent
  <2>2. PICK r : r = Push(0, 1)
    OBVIOUS
  <2>3. pool' = pool \ {a} /\ Sending(k, r) /\ users' = users
    BY <1>1, <1>9, <2>1, <2>2 DEF HandleRequest
  <2>4. r.size = 1 /\ Answered(k, r)
    BY <2>2 DEF Push, Answered
  <2> QED
    BY <1>2, <1>3, <1>5, <2>3, <2>4, SameUsers, SendingServes
<1> QED
  BY <1>6, <1>7, <1>8, <1>9 DEF PoolTask

-----------------------------------------------------------------------------
(* The client's side *)

\* Every message in r was in q already.
Newer(q, r) == \A i \in 1 .. Len(r) : r[i].signal # "message" \/ \E j \in 1 .. Len(q) : r[i] = q[j]

\* A signal is taken from the queue;
LEMMA NewerTail == ASSUME NEW q, IsSeq(q), q # << >> PROVE Newer(q, Tail(q))
<1>1. PICK n, r : n = Len(q) /\ r = Tail(q)
  OBVIOUS
<1>2. n \in Nat /\ n > 0 /\ Len(r) = n - 1 /\ \A i \in 1 .. n - 1 : r[i] = q[i + 1]
  BY <1>1, TailShape
<1>3. \A i \in 1 .. n - 1 : i + 1 \in 1 .. n
  BY ONLY <1>2
<1> QED
  BY ONLY <1>1, <1>2, <1>3 DEF Newer

\* signals that are no messages are put behind it;
LEMMA NewerJoin ==
    ASSUME NEW q, IsSeq(q), NEW r, IsSeq(r), Silent(r)
    PROVE  Newer(q, q \o r)
<1>1. PICK a, m, n : IsConcat(a, q, r) /\ Joins(a, q, r) /\ m = Len(q) /\ n = Len(r) /\ m \in Nat /\ n \in Nat
  BY ConcatNamed, EmptyShape
<1>2. /\ Len(a) = m + n /\ (\A i \in 1 .. m : a[i] = q[i])
      /\ \A i \in 1 .. n : a[m + i] = r[i]
  BY ONLY <1>1 DEF Joins
<1>3. ASSUME NEW i \in 1 .. m + n PROVE a[i].signal # "message" \/ \E j \in 1 .. m : a[i] = q[j]
  <2>1. CASE i <= m
    <3>1. i \in 1 .. m
      BY ONLY <1>1, <1>3, <2>1
    <3> QED
      BY ONLY <1>2, <3>1
  <2>2. CASE ~ (i <= m)
    <3>1. PICK l \in 1 .. n : i = m + l
      <4>1. i - m \in 1 .. n /\ i = m + (i - m)
        BY ONLY <1>1, <1>3, <2>2
      <4> QED
        BY ONLY <4>1
    <3> QED
      BY <1>1, <1>2, <3>1 DEF Silent
  <2> QED
    BY <2>1, <2>2
<1> QED
  BY ONLY <1>1, <1>2, <1>3 DEF Newer, IsConcat

\* The signals of the socket are no messages.
LEMMA NewerSignal ==
    ASSUME IsSeq(guiq), NEW names, IsSeq(names), \A i \in 1 .. Len(names) : names[i] # "message",
           Signal(names)
    PROVE  Newer(guiq, guiq')
<1>1. PICK n, g : /\ n = Len(names) /\ n \in Nat
                  /\ g = [i \in DOMAIN names |-> [signal |-> names[i]]] /\ DOMAIN names = 1 .. n
  BY DomainShape
<1>2. g = [i \in 1 .. n |-> g[i]]
  BY ONLY <1>1
<1>3. IsSeq(g) /\ Len(g) = n
  BY ONLY <1>1, <1>2, FunctionShape
<1>4. \A i \in 1 .. n : g[i].signal = names[i]
  BY ONLY <1>1
<1>5. Silent(g)
  BY <1>1, <1>3, <1>4 DEF Silent
<1>6. guiq' = guiq \o g
  BY <1>1 DEF Signal
<1> QED
  BY <1>3, <1>5, <1>6, NewerJoin

\* one signal of the socket,
LEMMA NewerOne ==
    ASSUME IsSeq(guiq), NEW n, n # "message", Signal(<<n>>)
    PROVE  Newer(guiq, guiq')
<1>1. IsSeq(<<n>>) /\ \A i \in 1 .. Len(<<n>>) : <<n>>[i] # "message"
  <2>1. IsSeq(<<n>>) /\ Len(<<n>>) = 1
    BY SingleShape
  <2> QED
    BY <2>1
<1> QED
  BY <1>1, NewerSignal

\* an error and the disconnection,
LEMMA NewerTwo ==
    ASSUME IsSeq(guiq), Signal(<<"error", "disconnected">>)
    PROVE  Newer(guiq, guiq')
<1>1. PICK w : w = <<"error", "disconnected">>
  OBVIOUS
<1>2. IsSeq(w) /\ \A i \in 1 .. Len(w) : w[i] # "message"
  <2>1. w \in Seq({"error", "disconnected"})
    BY ONLY <1>1
  <2> QED
    BY ONLY <2>1 DEF IsSeq
<1> QED
  BY <1>1, <1>2, NewerSignal

\* or none.
LEMMA NewerSame == ASSUME UNCHANGED guiq PROVE Newer(guiq, guiq')
  BY DEF Newer

\* A queue with no message gets none from such a step,
LEMMA SilentStays == ASSUME NEW q, NEW r, Newer(q, r), Silent(q) PROVE Silent(r)
  BY DEF Newer, Silent

\* and what is in it still came on the connection in use.
LEMMA ReceivedStays ==
    ASSUME NEW q, NEW r, Newer(q, r), NEW T, Received(q, T) PROVE Received(r, T)
<1> SUFFICES ASSUME NEW i \in 1 .. Len(r), r[i].signal = "message"
             PROVE  \E j \in 1 .. Len(T) : r[i].payload = T[j]
  BY DEF Received
<1>1. PICK l \in 1 .. Len(q) : r[i] = q[l]
  BY DEF Newer
<1> QED
  BY <1>1 DEF Received

\* What the server has sent is still what it has sent.
LEMMA ReceivedGrows ==
    ASSUME NEW q, NEW T, IsSeq(T), NEW x, Received(q, T) PROVE Received(q, Append(T, x))
<1>1. PICK n, U : n = Len(T) /\ U = Append(T, x) /\ n \in Nat
  BY EmptyShape
<1>2. Len(U) = n + 1 /\ \A i \in 1 .. n : U[i] = T[i]
  BY ONLY <1>1, IsSeq(T), AppendShape
<1>3. \A i \in 1 .. n : i \in 1 .. n + 1
  BY ONLY <1>1
<1> SUFFICES ASSUME NEW i \in 1 .. Len(q), q[i].signal = "message"
             PROVE  \E j \in 1 .. n + 1 : q[i].payload = U[j]
  BY <1>1, <1>2 DEF Received
<1>4. PICK j \in 1 .. n : q[i].payload = T[j]
  BY <1>1 DEF Received
<1> QED
  BY <1>2, <1>3, <1>4

\* A step of the server keeps the client's side: a session that is authenticated
\* again is authenticated as the same user.
ServerOnly ==
    /\ UNCHANGED <<pending_action, username, netq, guiq, sock, pendingClose, conn, accepted, identity>>
    /\ UsersStay
    /\ \A k \in Conn : /\ toClient'[k] = toClient[k] \/ \E x : toClient'[k] = Append(toClient[k], x)
                       /\ session[k].authenticated => session'[k].authenticated

\* An account keeps its identifier, so the identity the client was given stays that
\* of the session.
LEMMA ServerKeepsClient ==
    ASSUME Client, Dialog, Streams, Server, Server', ServerOnly
    PROVE  Client'
<1>1. UNCHANGED <<pending_action, username, netq, guiq, sock, pendingClose, conn, accepted, identity>>
  BY DEF ServerOnly
<1>2. Named'
  BY <1>1 DEF Client, Named
<1>3. Asks'
  BY <1>1 DEF Client, Asks, Allowed
<1>4. OpensFirst'
  BY <1>1 DEF Client, OpensFirst, Opening
<1>5. ASSUME sock' = "connected" PROVE Received(guiq', toClient'[conn'])
  <2>1. conn \in Conn /\ Received(guiq, toClient[conn])
    BY <1>1, <1>5, CurrentConn DEF Client, Hears
  <2>2. IsSeq(toClient[conn])
    BY <2>1 DEF Streams, Kept, GoodPayloads
  <2>3. toClient'[conn] = toClient[conn] \/ \E x : toClient'[conn] = Append(toClient[conn], x)
    BY <2>1 DEF ServerOnly
  <2> QED
    BY <1>1, <2>1, <2>2, <2>3, ReceivedGrows
<1>6. ASSUME accepted', sock' = "connected"
      PROVE  session'[conn'].authenticated /\ identity' = <<session'[conn'].userId, session'[conn'].username>>
  <2>1. PICK k \in Conn : k = conn /\ Live(k) /\ Live(k)'
    BY <1>1, <1>6, CurrentConn DEF Live
  <2>2. session[k].authenticated /\ identity = <<session[k].userId, session[k].username>>
    BY <1>1, <1>6, <2>1 DEF Client, Agrees
  <2>3. session'[k].authenticated
    BY <2>2 DEF ServerOnly
  <2>4. session[k].username = username /\ Known(username, session[k].userId)
    BY <2>1, <2>2 DEF Server, Served, SessionServed
  <2>5. session'[k].username = username' /\ Known(username, session[k].userId)'
    BY <2>1, <2>3 DEF Server, Served, SessionServed
  <2>6. PICK n, id : n = username /\ id = session[k].userId /\ Known(n, id)
    BY <2>4
  <2>7. Known(n, id)'
    BY <2>6 DEF ServerOnly, UsersStay
  <2>8. users'[n].id = id /\ users'[n].id = session'[k].userId
    BY <1>1, <2>5, <2>6, <2>7 DEF Known
  <2> QED
    BY <1>1, <2>1, <2>2, <2>3, <2>4, <2>5, <2>6, <2>8
<1> QED
  BY <1>2, <1>3, <1>4, <1>5, <1>6 DEF Client, Hears, Agrees

\* What a step of the server does for the client's side.
LEMMA SendingOnly ==
    ASSUME Streams, NEW k \in Conn, NEW m, Sending(k, m)
    PROVE  \A j \in Conn : /\ toClient'[j] = toClient[j] \/ \E x : toClient'[j] = Append(toClient[j], x)
                           /\ session[j].authenticated => session'[j].authenticated
<1>1. Shapes
  BY DEF Streams
<1>2. \A j \in Conn : session'[j].authenticated = session[j].authenticated
  BY <1>1 DEF Sending, Shapes, Fields
<1>3. \A j \in Conn : toClient'[j] = toClient[j] \/ \E x : toClient'[j] = Append(toClient[j], x)
  BY <1>1 DEF Sending, Shapes
<1> QED
  BY <1>2, <1>3

\* The strand of a session,
LEMMA IoOnly == ASSUME Streams, NEW k \in Conn, Io(k) PROVE ServerOnly
<1>1. UNCHANGED <<pending_action, username, netq, guiq, sock, pendingClose, conn, accepted, identity, users, toClient>>
  BY DEF Io, do_accept, do_read_header, do_read_body, ReadFails, do_write, dialogVars, netVars
<1>2. Shapes
  BY DEF Streams
<1>3. ASSUME Disconnected(k) PROVE \A j \in Conn : session'[j].authenticated = session[j].authenticated
  BY <1>2, <1>3 DEF Disconnected, Shapes, Fields
<1>4. \A j \in Conn : session'[j].authenticated = session[j].authenticated
  <2>1. CASE do_accept(k)
    BY <1>2, <2>1 DEF do_accept, Shapes, Fields
  <2>2. CASE do_read_header(k)
    <3>1. PICK n : Disconnected(k) \/ session' = [session EXCEPT ![k].length = n, ![k].reading = "body"]
      BY <2>2 DEF do_read_header
    <3>2. CASE session' = [session EXCEPT ![k].length = n, ![k].reading = "body"]
      BY <1>2, <3>2 DEF Shapes, Fields
    <3> QED
      BY <1>3, <3>1, <3>2
  <2>3. CASE do_read_body(k)
    BY <1>2, <2>3 DEF do_read_body, Shapes, Fields
  <2>4. CASE ReadFails(k)
    BY <1>3, <2>4 DEF ReadFails
  <2>5. CASE do_write(k)
    <3>1. CASE session' = [session EXCEPT ![k].write_queue = Tail(@),
                                          ![k].writing = Len(session[k].write_queue) > 1]
      BY <1>2, <3>1 DEF Shapes, Fields
    <3> QED
      BY <1>3, <2>5, <3>1 DEF do_write
  <2> QED
    BY <2>1, <2>2, <2>3, <2>4, <2>5 DEF Io
<1> QED
  BY <1>1, <1>4, SameUsers DEF ServerOnly

\* a message of the server,
LEMMA PushOnly == ASSUME Streams, NEW k \in Conn, PushMessage(k) PROVE ServerOnly
<1>1. UNCHANGED <<pending_action, username, netq, guiq, sock, pendingClose, conn, accepted, identity, users>>
  BY DEF PushMessage, dialogVars, netVars
<1>2. PICK m : Sending(k, m)
  BY DEF PushMessage
<1> QED
  BY <1>1, <1>2, SameUsers, SendingOnly DEF ServerOnly

\* a lost connection
LEMMA LoseLinkOnly == ASSUME Streams, NEW k \in Conn, LoseLink(k) PROVE ServerOnly
<1>1. UNCHANGED <<pending_action, username, netq, guiq, sock, pendingClose, conn, accepted, identity, users,
                  session, toClient>>
  BY DEF LoseLink, dialogVars, netVars, serverVars
<1> QED
  BY <1>1, SameUsers DEF ServerOnly

\* and a task of the pool leave the client alone and authenticate only.
LEMMA PoolTaskOnly == ASSUME Streams, Server, NEW a \in pool, PoolTask(a) PROVE ServerOnly
<1>1. PICK k \in Conn : k = a.conn
  BY DEF Streams
<1>2. UNCHANGED <<pending_action, username, netq, guiq, sock, pendingClose, conn, accepted, identity>>
  BY DEF PoolTask, dialogVars, netVars
<1>3. Shapes /\ ServedTask(k, a)
  BY <1>1 DEF Streams, Server, Served, PoolServed
<1>4. ASSUME NEW m, Sending(a.conn, m), UsersStay PROVE ServerOnly
  BY <1>1, <1>2, <1>4, SendingOnly DEF ServerOnly
<1>5. CASE Verify(a)
  <2>1. PICK m, result : /\ m = a.msg
                         /\ result = (IF m.action = "register" THEN register_user(m) ELSE login(m))
    OBVIOUS
  <2>2. /\ users' = IF result.success /\ m.action = "register"
                    THEN [users EXCEPT ![m.username] = [id |-> result.userId, password |-> m.password]]
                    ELSE users
        /\ m.type = "auth_request"
    BY <1>5, <2>1 DEF Verify
  <2>3. m.username \in Names
    BY <1>3, <2>1, <2>2 DEF ServedTask, Sent
  <2>4. UsersStay
    <3>1. CASE result.success
      BY <2>1, <2>2, <2>3, <3>1, Accounts
    <3>2. CASE ~ result.success
      BY <2>2, <3>2, SameUsers
    <3> QED
      BY <3>1, <3>2
  <2>5. CASE UNCHANGED <<session, toClient>>
    BY <1>2, <2>4, <2>5 DEF ServerOnly
  <2>6. CASE Sending(a.conn, AuthResponse(FALSE, 0))
    BY <1>4, <2>4, <2>6
  <2> QED
    BY <1>5, <2>1, <2>5, <2>6 DEF Verify
<1>6. CASE set_auth(a)
  <2>1. UNCHANGED <<users, toClient>>
    BY <1>6 DEF set_auth
  <2>2. \A j \in Conn : session[j].authenticated => session'[j].authenticated
    <3>1. session' = [session EXCEPT ![k].userId = a.userId, ![k].username = a.msg.username,
                                     ![k].authenticated = TRUE]
      BY <1>1, <1>6 DEF set_auth
    <3> QED
      BY <1>3, <3>1 DEF Shapes, Fields
  <2> QED
    BY <1>2, <2>1, <2>2, SameUsers DEF ServerOnly
<1>7. CASE Answer(a)
  BY <1>4, <1>7, SameUsers DEF Answer
<1>8. CASE HandleRequest(a)
  <2>1. PICK m : Sending(a.conn, m) /\ users' = users
    BY <1>8 DEF HandleRequest
  <2> QED
    BY <1>4, <2>1, SameUsers
<1> QED
  BY <1>5, <1>6, <1>7, <1>8 DEF PoolTask

\* A call that is not connectToHost is posted.
LEMMA PostedAsks ==
    ASSUME IsSeq(netq), Asks, NEW c, c.call # "connect", c.call = "send" => Allowed(c.msg)', Post(<<c>>),
           username' = username, accepted => accepted', UNCHANGED <<sock, pendingClose>>
    PROVE  Asks' /\ (Opening' => Opening)
<1>1. PICK q, n : q = netq' /\ n = Len(netq) /\ n \in Nat
  BY EmptyShape
<1>2. IsSeq(<<c>>) /\ Len(<<c>>) = 1 /\ <<c>>[1] = c
  BY SingleShape
<1>3. PICK d : IsConcat(d, netq, <<c>>) /\ Joins(d, netq, <<c>>)
  BY ONLY <1>2, IsSeq(netq), ConcatNamed
<1>4. d = q
  BY <1>1, <1>3 DEF IsConcat, Post
<1>5. Len(q) = n + 1 /\ (\A i \in 1 .. n : q[i] = netq[i]) /\ q[n + 1] = c
  BY ONLY <1>1, <1>2, <1>3, <1>4 DEF Joins
<1>6. ASSUME NEW i \in 1 .. n + 1, q[i].call = "send" PROVE Allowed(q[i].msg)'
  <2>1. CASE i = n + 1
    <3>1. q[i] = c
      BY <1>5, <2>1
    <3> QED
      BY <1>6, <3>1
  <2>2. CASE i # n + 1
    <3>1. i \in 1 .. n
      BY ONLY <1>1, <1>6, <2>2
    <3>2. Allowed(q[i].msg)
      BY <1>1, <1>5, <1>6, <3>1 DEF Asks
    <3> QED
      BY <3>2 DEF Allowed
  <2> QED
    BY <2>1, <2>2
<1>7. Asks'
  BY <1>1, <1>5, <1>6 DEF Asks
<1>8. ASSUME Opening' PROVE Opening
  <2>1. CASE netq = << >>
    <3>1. n = 0 /\ q[1] = c
      BY <1>1, <1>5, <2>1, EmptyShape
    <3> QED
      BY <1>1, <1>8, <3>1 DEF Opening
  <2>2. CASE netq # << >>
    <3>1. n # 0
      BY <1>1, <2>2, EmptyShape
    <3>2. 1 \in 1 .. n
      BY ONLY <1>1, <3>1
    <3>3. q[1] = netq[1]
      BY ONLY <1>5, <3>2
    <3> QED
      BY <1>1, <1>8, <2>2, <3>3 DEF Opening
  <2> QED
    BY <2>1, <2>2
<1> QED
  BY <1>7, <1>8

\* A step of the dialog that leaves the name and the sign-in as they are.
LEMMA DialogKeepsClient ==
    ASSUME Client, Newer(guiq, guiq'), Named', Asks', Opening' => Opening,
           UNCHANGED <<accepted, identity, sock, conn, toClient, session>>
    PROVE  Client'
<1>1. OpensFirst'
  BY SilentStays DEF Client, OpensFirst
<1>2. Hears'
  BY ReceivedStays DEF Client, Hears
<1>3. Agrees'
  BY DEF Client, Agrees
<1> QED
  BY <1>1, <1>2, <1>3 DEF Client

\* Nothing of the network and of the server changes.
LEMMA DialogKeepsServer ==
    ASSUME Server, UNCHANGED <<sock, conn, link, up, session, toClient, pool, users>>,
           sock = "connected" => username' = username
    PROVE  Server'
<1>1. \A k \in Conn : /\ up'[k] = up[k]
                      /\ Live(k)' => Live(k) /\ username' = username
                      /\ link'[k] = "open" => link[k] = "open"
                      /\ Ahead(k)' => Ahead(k)
  BY DEF Live, Ahead
<1>2. DOMAIN up' = Conn
  BY DEF Server
<1> QED
  BY <1>1, <1>2, ClientKeepsServer

\* startAuth changes the name only while no connection is in use.
LEMMA StartAuthAgrees == ASSUME Dialog, Client, Server, startAuth PROVE Client' /\ Server'
<1>1. /\ UNCHANGED <<accepted, identity, sock, pendingClose, conn, link, up, session, pool, users, toClient, guiq>>
      /\ netq = << >> /\ guiq = << >> /\ ~ accepted /\ ~ box /\ pending_action = ""
  BY DEF startAuth, netVars, serverVars
<1>2. sock # "connected"
  BY <1>1 DEF Dialog, Idle, Quiet
<1>3. Server'
  BY <1>1, <1>2, DialogKeepsServer
<1>4. Silent(guiq')
  <2>1. Len(guiq') = 0
    BY <1>1, EmptyShape
  <2> QED
    BY ONLY <2>1 DEF Silent
<1>5. Named' /\ Asks'
  <2>1. CASE UNCHANGED <<pending_action, netq>>
    <3>1. PICK q : q = netq' /\ Len(q) = 0 /\ pending_action' = ""
      BY <1>1, <2>1, EmptyShape
    <3>2. ASSUME NEW i \in 1 .. Len(q) PROVE FALSE
      <4>1. i \in 1 .. 0
        BY ONLY <3>1, <3>2
      <4> QED
        BY ONLY <4>1
    <3> QED
      BY ONLY <3>1, <3>2 DEF Named, Asks
  <2>2. CASE username' \in Names /\ Post(<<[call |-> "connect"]>>)
    <3>1. PICK c : c = [call |-> "connect"]
      OBVIOUS
    <3>2. c.call = "connect" /\ IsSeq(<<c>>) /\ Len(<<c>>) = 1 /\ <<c>>[1] = c
      BY <3>1, SingleShape
    <3>3. netq' = <<c>>
      <4>1. netq' = << >> \o <<c>>
        BY <1>1, <2>2, <3>1 DEF Post
      <4>2. << >> \o <<c>> = <<c>>
        OBVIOUS
      <4> QED
        BY <4>1, <4>2
    <3>4. PICK q : q = netq' /\ Len(q) = 1 /\ q[1] = c
      BY ONLY <3>2, <3>3
    <3>5. \A i \in 1 .. Len(q) : q[i].call # "send"
      BY ONLY <3>2, <3>4
    <3> QED
      BY ONLY <2>2, <3>4, <3>5 DEF Named, Asks
  <2> QED
    BY <2>1, <2>2 DEF startAuth
<1> QED
  BY <1>1, <1>2, <1>3, <1>4, <1>5 DEF Client, OpensFirst, Hears, Agrees

\* Closing the message box lets the next attempt begin.
LEMMA CloseBoxAgrees == ASSUME Dialog, Client, Server, CloseBox PROVE Client' /\ Server'
<1>1. UNCHANGED <<pending_action, username, accepted, identity, sock, pendingClose, conn, link, up, session, pool,
                  users, toClient, guiq>>
  BY DEF CloseBox, netVars, serverVars
<1>2. PICK c : c = [call |-> "disconnect"]
  OBVIOUS
<1>3. c.call = "disconnect" /\ Post(<<c>>) /\ IsSeq(netq) /\ Asks
  BY <1>2 DEF CloseBox, Dialog, Calls, Client
<1>4. Asks' /\ (Opening' => Opening)
  BY <1>1, <1>3, PostedAsks
<1>5. Named'
  BY <1>1 DEF Client, Named
<1> QED
  BY <1>1, <1>4, <1>5, NewerSame, DialogKeepsClient, DialogKeepsServer

\* A request is sent only after the dialog has been accepted.
LEMMA UserRequestAgrees == ASSUME Dialog, Client, Server, UserRequest PROVE Client' /\ Server'
<1>1. /\ UNCHANGED <<pending_action, username, accepted, identity, sock, pendingClose, conn, link, up, session, pool,
                     users, toClient, guiq>>
      /\ accepted
  BY DEF UserRequest, netVars, serverVars, dialogVars
<1>2. PICK size \in PushSizes : Post(<<[call |-> "send", msg |-> Request(pushes + 1, size)]>>)
  BY DEF UserRequest
<1>3. PICK m, c : m = Request(pushes + 1, size) /\ c = [call |-> "send", msg |-> m]
  OBVIOUS
<1>4. c.call = "send" /\ c.msg = m /\ Post(<<c>>) /\ IsSeq(netq) /\ Asks
  BY <1>2, <1>3 DEF Dialog, Calls, Client
<1>5. Allowed(m)'
  <2>1. m.type = "request" /\ m.size \in 1 .. Oversize - 1
    BY <1>3, Sizes DEF Request
  <2> QED
    BY <1>1, <2>1 DEF Allowed
<1>6. Asks' /\ (Opening' => Opening)
  <2>1. c.call # "connect" /\ (c.call = "send" => Allowed(c.msg)')
    BY <1>4, <1>5
  <2> QED
    BY <1>1, <1>4, <2>1, PostedAsks
<1>7. Named'
  BY <1>1 DEF Client, Named
<1> QED
  BY <1>1, <1>6, <1>7, NewerSame, DialogKeepsClient, DialogKeepsServer

\* The slots of the dialog: it is accepted on an answer that came on the connection
\* in use, and then the session there is that of the user.
LEMMA GuiEventAgrees == ASSUME Dialog, Streams, Client, Server, GuiEvent PROVE Client' /\ Server'
<1>1. /\ UNCHANGED <<username, sock, pendingClose, conn, link, up, session, pool, users, toClient>>
      /\ guiq # << >> /\ guiq' = Tail(guiq) /\ IsSeq(guiq)
  BY DEF GuiEvent, netVars, serverVars, Dialog, Signals
<1>2. Server'
  BY <1>1, DialogKeepsServer
<1>3. Newer(guiq, guiq')
  BY <1>1, NewerTail
<1>4. PICK e : e = Head(guiq)
  OBVIOUS
<1>5. 1 \in 1 .. Len(guiq) /\ e = guiq[1] /\ e.signal \in SignalNames
  <2>1. PICK n : n = Len(guiq) /\ n \in Nat /\ n > 0 /\ Head(guiq) = guiq[1]
    BY <1>1, TailShape
  <2>2. 1 \in 1 .. n
    BY ONLY <2>1
  <2> QED
    BY <1>4, <2>1, <2>2 DEF Dialog, Signals
<1>6. IsSeq(netq) /\ Named /\ Asks
  BY DEF Dialog, Calls, Client
<1>7. CASE UNCHANGED <<accepted, identity, netq>> /\ (pending_action' = "" \/ pending_action' = pending_action)
  <2>1. Named' /\ Asks' /\ (Opening' => Opening)
    BY <1>1, <1>6, <1>7 DEF Named, Asks, Allowed, Opening
  <2> QED
    BY <1>1, <1>2, <1>3, <1>7, <2>1, DialogKeepsClient
<1>8. CASE pending_action = ""
  BY <1>7, <1>8 DEF GuiEvent
<1>9. CASE pending_action # ""
  <2>1. CASE e.signal = "connected"
    <3>1. onConnected
      BY <1>4, <1>9, <2>1 DEF GuiEvent
    <3>2. PICK m, c : m = AuthRequest /\ c = [call |-> "send", msg |-> m]
      OBVIOUS
    <3>3. c.call = "send" /\ c.msg = m /\ Post(<<c>>)
      BY <3>1, <3>2 DEF onConnected
    <3>4. UNCHANGED <<pending_action, accepted, identity>>
      BY <3>1 DEF onConnected
    <3>5. m.type = "auth_request" /\ m.username = username /\ m.size = 1 /\ 1 \in 1 .. Oversize - 1
      BY <3>2, Sizes DEF AuthRequest
    <3>6. Allowed(m)'
      BY <1>1, <1>6, <1>9, <3>5 DEF Allowed, Named
    <3>7. Asks' /\ (Opening' => Opening)
      <4>1. c.call # "connect" /\ (c.call = "send" => Allowed(c.msg)')
        BY <3>3, <3>6
      <4> QED
        BY <1>1, <1>6, <3>3, <3>4, <4>1, PostedAsks
    <3>8. Named'
      BY <1>1, <1>6, <3>4 DEF Named
    <3> QED
      BY <1>1, <1>2, <1>3, <3>4, <3>7, <3>8, DialogKeepsClient
  <2>2. ASSUME reportFailure PROVE Client' /\ Server'
    BY <1>7, <2>2 DEF reportFailure
  <2>3. CASE e.signal \in {"disconnected", "error"}
    <3>1. reportFailure
      BY <1>4, <1>9, <2>3 DEF GuiEvent
    <3> QED
      BY <2>2, <3>1
  <2>4. CASE e.signal = "message"
    <3>1. CASE Parsed(e.payload).type # "auth_response"
      <4>1. UNCHANGED <<pending_action, accepted, identity, netq>>
        BY <1>4, <1>9, <2>4, <3>1 DEF GuiEvent
      <4> QED
        BY <1>7, <4>1
    <3>2. CASE Parsed(e.payload).type = "auth_response"
      <4>1. PICK auth : auth = Parsed(e.payload) /\ auth.type = "auth_response" /\ onAuthResponse(auth)
        BY <1>4, <1>9, <2>4, <3>2 DEF GuiEvent
      <4>2. CASE ~ auth.success
        BY <2>2, <4>1, <4>2 DEF onAuthResponse
      <4>3. CASE auth.success
        <5>1. /\ identity' = <<auth.userId, username>> /\ pending_action' = "" /\ accepted' = TRUE
              /\ Post(<<[call |-> "send", msg |-> Request(0, 1)]>>)
          BY <4>1, <4>3 DEF onAuthResponse
        <5>2. PICK m, c : m = Request(0, 1) /\ c = [call |-> "send", msg |-> m]
          OBVIOUS
        <5>3. c.call = "send" /\ c.msg = m /\ Post(<<c>>)
          BY <5>1, <5>2
        <5>4. Allowed(m)'
          <6>1. m.type = "request" /\ m.size = 1 /\ 1 \in 1 .. Oversize - 1
            BY <5>2, Sizes DEF Request
          <6> QED
            BY <5>1, <6>1 DEF Allowed
        <5>5. Asks' /\ (Opening' => Opening)
          <6>1. c.call # "connect" /\ (c.call = "send" => Allowed(c.msg)') /\ (accepted => accepted')
            BY <5>1, <5>3, <5>4
          <6> QED
            BY <1>1, <1>6, <5>3, <6>1, PostedAsks
        <5>6. ~ Opening'
          BY <1>5, <2>4, <5>5 DEF Client, OpensFirst, Silent
        <5>7. Named'
          BY <5>1 DEF Named
        <5>8. Hears'
          BY <1>1, <1>3, ReceivedStays DEF Client, Hears
        <5>9. ASSUME sock = "connected"
              PROVE  session[conn].authenticated /\ identity' = <<session[conn].userId, session[conn].username>>
          <6>1. PICK k \in Conn : k = conn /\ Live(k)
            BY <5>9, CurrentConn DEF Live
          <6>2. PICK j \in 1 .. Len(toClient[k]) : e.payload = toClient[k][j]
            BY <1>5, <2>4, <5>9, <6>1 DEF Client, Hears, Received
          <6>3. Answered(k, auth)
            BY <4>1, <6>2 DEF Server, Served, AnswersServed
          <6>4. session[k].authenticated /\ Known(username, auth.userId)
            BY <4>1, <4>3, <6>1, <6>3 DEF Answered
          <6>5. session[k].username = username /\ Known(username, session[k].userId)
            BY <6>1, <6>4 DEF Server, Served, SessionServed
          <6>6. auth.userId = session[k].userId
            BY <6>4, <6>5 DEF Known
          <6> QED
            BY <5>1, <6>1, <6>4, <6>5, <6>6
        <5>10. Agrees'
          BY <1>1, <5>9 DEF Agrees
        <5> QED
          BY <1>2, <5>5, <5>6, <5>7, <5>8, <5>10 DEF Client, OpensFirst
      <4> QED
        BY <4>2, <4>3
    <3> QED
      BY <3>1, <3>2
  <2> QED
    BY <1>5, <2>1, <2>3, <2>4 DEF SignalNames
<1> QED
  BY <1>8, <1>9

\* The connection comes up, with a session that nobody has signed in to.
LEMMA SocketConnectedAgrees ==
    ASSUME Dialog, Streams, Client, Server, SocketConnected PROVE Client' /\ Server'
<1>1. /\ UNCHANGED <<pending_action, username, accepted, identity, netq, conn, up, session, pool, users, toClient>>
      /\ sock = "connecting" /\ sock' = (IF pendingClose THEN "closing" ELSE "connected")
      /\ Signal(<<"connected">>) /\ link' = [link EXCEPT ![conn] = "open"] /\ IsSeq(guiq)
  BY DEF SocketConnected, dialogVars, serverVars, Dialog, Signals
<1>2. Newer(guiq, guiq')
  BY <1>1, NewerOne
<1>3. conn \in Conn
  BY <1>1, CurrentConn
<1>4. Client'
  <2>1. Named' /\ Asks'
    BY <1>1 DEF Client, Named, Asks, Allowed
  <2>2. OpensFirst'
    BY <1>1, <1>2, SilentStays DEF Client, OpensFirst, Opening
  <2>3. ASSUME sock' = "connected" PROVE ~ accepted /\ Silent(guiq')
    <3>1. ~ accepted /\ Silent(guiq)
      BY <1>1, <2>3 DEF Client, OpensFirst, Opening
    <3> QED
      BY <1>2, <3>1, SilentStays
  <2>4. Hears'
    BY <2>3 DEF Hears, Silent, Received
  <2>5. Agrees'
    BY <1>1, <2>3 DEF Agrees
  <2> QED
    BY <2>1, <2>2, <2>4, <2>5 DEF Client
<1>5. Unused(conn) /\ up[conn] = << >> /\ Shapes
  BY <1>1, <1>3 DEF Streams, Server, Ahead
<1>6. UsersStay /\ DOMAIN users' = Names /\ DOMAIN up' = Conn
  BY <1>1, SameUsers DEF Server
<1>7. ASSUME NEW k \in Conn PROVE Served(k)'
  <2>1. CASE k # conn
    <3>1. Steady(k)
      BY <1>1, <2>1 DEF Steady, Live
    <3>2. link'[k] = link[k]
      BY <1>1, <1>5, <2>1 DEF Shapes
    <3> QED
      BY <1>1, <1>6, <3>1, <3>2, ServedStays DEF Server
  <2>2. CASE k = conn
    <3>1. PoolServed(k)'
      BY <1>1, <1>5, <2>2 DEF PoolServed, Unused
    <3>2. SessionServed(k)'
      BY <1>1, <1>5, <2>2 DEF SessionServed, Unused
    <3>3. AnswersServed(k)'
      <4>1. PICK T : T = toClient'[k] /\ T = << >>
        BY <1>1, <1>5, <2>2 DEF Unused
      <4>2. Len(T) = 0
        BY ONLY <4>1, EmptyShape
      <4>3. ASSUME NEW i \in 1 .. Len(T) PROVE FALSE
        <5>1. i \in 1 .. 0
          BY ONLY <4>2, <4>3
        <5> QED
          BY ONLY <5>1
      <4> QED
        BY <4>1, <4>3 DEF AnswersServed
    <3>4. UpServed(k)'
      <4>1. ~ (session'[k].reading = "body") /\ up'[k] = << >>
        BY <1>1, <1>5, <2>2 DEF Unused
      <4>2. Comes(<< >>, up'[k], session'[k].reading = "body", session'[k].length, link'[k] = "open")
        BY <4>1, ComesEmpty
      <4>3. Carries(k, << >>)'
        <5>1. PICK T : T = << >> /\ IsSeq(T) /\ Len(T) = 0
          BY EmptyShape
        <5>2. ASSUME NEW i \in 1 .. Len(T) PROVE FALSE
          <6>1. i \in 1 .. 0
            BY ONLY <5>1, <5>2
          <6> QED
            BY ONLY <6>1
        <5>3. Carries(k, T)'
          BY <5>1, <5>2 DEF Carries, GoodPayloads
        <5> QED
          BY <5>1, <5>3
      <4> QED
        BY <4>2, <4>3 DEF UpServed
    <3> QED
      BY <3>1, <3>2, <3>3, <3>4 DEF Served
  <2> QED
    BY <2>1, <2>2
<1>8. ASSUME NEW k \in Conn, Ahead(k)' PROVE up'[k] = << >>
  <2>1. Ahead(k)
    BY <1>1, <1>8 DEF Ahead
  <2> QED
    BY <1>1, <2>1 DEF Server
<1>9. Server'
  BY <1>6, <1>7, <1>8 DEF Server
<1> QED
  BY <1>4, <1>9

\* The connection is given up.
LEMMA GivenUpAgrees ==
    ASSUME Client, Server, UNCHANGED <<pending_action, username, accepted, identity, netq, conn>>,
           UNCHANGED <<up, session, pool, users, toClient>>, Newer(guiq, guiq'),
           sock' \in {"unconnected", "closing"}, \A k \in Conn : link'[k] = "open" => link[k] = "open"
    PROVE  Client' /\ Server'
<1>1. Named' /\ Asks'
  BY DEF Client, Named, Asks, Allowed
<1>2. OpensFirst'
  BY SilentStays DEF Client, OpensFirst, Opening
<1>3. Hears' /\ Agrees'
  BY DEF Hears, Agrees
<1>4. \A k \in Conn : /\ up'[k] = up[k]
                      /\ Live(k)' => Live(k) /\ username' = username
                      /\ Ahead(k)' => Ahead(k)
  BY DEF Live, Ahead
<1>5. DOMAIN up' = Conn
  BY DEF Server
<1>6. Server'
  BY <1>4, <1>5, ClientKeepsServer
<1> QED
  BY <1>1, <1>2, <1>3, <1>6 DEF Client

\* The connection is refused or given up.
LEMMA SocketRefusedAgrees == ASSUME Dialog, Client, Server, SocketRefused PROVE Client' /\ Server'
<1>1. /\ UNCHANGED <<pending_action, username, accepted, identity, netq, conn>>
      /\ UNCHANGED <<up, session, pool, users, toClient, link>> /\ sock' = "unconnected"
      /\ Signal(<<"error">>) /\ IsSeq(guiq)
  BY DEF SocketRefused, dialogVars, serverVars, Dialog, Signals
<1>2. Newer(guiq, guiq')
  BY <1>1, NewerOne
<1> QED
  BY <1>1, <1>2, GivenUpAgrees

\* The socket learns that the connection is gone.
LEMMA SocketDisconnectedAgrees ==
    ASSUME Dialog, Streams, Client, Server, SocketDisconnected PROVE Client' /\ Server'
<1>1. /\ UNCHANGED <<pending_action, username, accepted, identity, netq, conn>>
      /\ UNCHANGED <<up, session, pool, users, toClient>> /\ sock' = "unconnected"
      /\ Signal(<<"disconnected">>) \/ Signal(<<"error", "disconnected">>)
      /\ link' = [link EXCEPT ![conn] = IF @ = "open" THEN "closed" ELSE @] /\ IsSeq(guiq)
  BY DEF SocketDisconnected, dialogVars, serverVars, Dialog, Signals
<1>2. Newer(guiq, guiq')
  BY <1>1, NewerOne, NewerTwo
<1>3. \A k \in Conn : link'[k] = "open" => link[k] = "open"
  BY <1>1 DEF Streams, Shapes
<1> QED
  BY <1>1, <1>2, <1>3, GivenUpAgrees

\* What is received is received also after more signals.
LEMMA ReceivedJoin ==
    ASSUME NEW q, IsSeq(q), NEW r, IsSeq(r), NEW T, Received(q, T), Received(r, T)
    PROVE  Received(q \o r, T)
<1>1. PICK a, m, n : IsConcat(a, q, r) /\ Joins(a, q, r) /\ m = Len(q) /\ n = Len(r) /\ m \in Nat /\ n \in Nat
  BY ConcatNamed, EmptyShape
<1>2. /\ Len(a) = m + n /\ (\A i \in 1 .. m : a[i] = q[i])
      /\ \A i \in 1 .. n : a[m + i] = r[i]
  BY ONLY <1>1 DEF Joins
<1>3. ASSUME NEW i \in 1 .. m + n, a[i].signal = "message" PROVE \E j \in 1 .. Len(T) : a[i].payload = T[j]
  <2>1. CASE i <= m
    <3>1. i \in 1 .. m
      BY ONLY <1>1, <1>3, <2>1
    <3> QED
      BY <1>1, <1>2, <1>3, <3>1 DEF Received
  <2>2. CASE ~ (i <= m)
    <3>1. PICK l \in 1 .. n : i = m + l
      <4>1. i - m \in 1 .. n /\ i = m + (i - m)
        BY ONLY <1>1, <1>3, <2>2
      <4> QED
        BY ONLY <4>1
    <3> QED
      BY <1>1, <1>2, <1>3, <3>1 DEF Received
  <2> QED
    BY <2>1, <2>2
<1>4. Received(a, T)
  BY ONLY <1>2, <1>3 DEF Received
<1> QED
  BY ONLY <1>1, <1>4 DEF IsConcat

\* The payloads p are among those sent, T.
AreSent(p, T) == IsSeq(p) /\ \A i \in 1 .. Len(p) : \E j \in 1 .. Len(T) : p[i] = T[j]

\* The frames that a read completes were sent on this connection.
LEMMA FramesAreSent ==
    ASSUME Streams, conn \in Conn, sock = "connected", NEW n \in 1 .. Len(down[conn]), NEW b,
           b = rx_buffer \o SubSeq(down[conn], 1, n), NEW p, p = Frames(b).payloads
    PROVE  AreSent(p, toClient[conn])
<1>1. Kept(conn) /\ Follows(conn)
  BY DEF Streams
<1>2. PICK T, E, e, dn, wq, open :
        /\ T = toClient[conn] /\ E = emitted[conn] /\ e = Len(E) /\ dn = down[conn]
        /\ wq = session[conn].write_queue /\ open = (link[conn] = "open")
  OBVIOUS
<1>3. /\ IsSeq(E) /\ GoodPayloads(T) /\ IsSeq(T) /\ e <= Len(T) /\ \A i \in 1 .. e : E[i] = T[i]
  BY ONLY <1>1, <1>2 DEF Kept, GoodPayloads
<1>4. Aligned(T, e, rx_buffer, dn, wq, open)
  BY ONLY <1>1, <1>2 DEF Follows
<1>5. PICK k \in e .. Len(T) :
        /\ Frames(b).payloads = SubSeq(T, e + 1, k)
        /\ Aligned(T, k, SubSeq(b, Frames(b).end + 1, Len(b)), SubSeq(dn, n + 1, Len(dn)), wq, open)
  <2>1. n \in 1 .. Len(dn) /\ b = rx_buffer \o SubSeq(dn, 1, n)
    BY <1>2
  <2> QED
    BY ONLY <1>3, <1>4, <2>1, AlignedRead
<1>6. PICK lT : lT = Len(T) /\ lT \in Nat /\ e \in Nat
  BY <1>2, <1>3, EmptyShape
<1>7. k \in Nat /\ e <= k /\ k <= lT
  BY ONLY <1>5, <1>6
<1>8. IsSeq(p) /\ Len(p) = k - e /\ \A i \in 1 .. k - e : p[i] = T[e + i]
  <2>1. /\ IsSeq(SubSeq(T, e + 1, k)) /\ Len(SubSeq(T, e + 1, k)) = k - e
        /\ \A i \in 1 .. k - e : SubSeq(T, e + 1, k)[i] = T[e + i]
    BY ONLY <1>3, <1>6, <1>7, SliceShape
  <2> QED
    BY <1>5, <2>1
<1>9. \A i \in 1 .. k - e : e + i \in 1 .. lT
  BY ONLY <1>6, <1>7
<1>10. AreSent(p, T)
  <2> SUFFICES ASSUME NEW i \in 1 .. k - e PROVE \E j \in 1 .. lT : p[i] = T[j]
    BY ONLY <1>6, <1>8 DEF AreSent
  <2> QED
    BY ONLY <1>8, <1>9
<1> QED
  BY ONLY <1>2, <1>10

\* onReadyRead: the messages it emits were sent on this connection.
LEMMA ReadyReadAgrees == ASSUME Dialog, Streams, Client, Server, onReadyRead PROVE Client' /\ Server'
<1>1. PICK n, b, f, messages :
        /\ n \in 1 .. Len(down[conn])
        /\ b = rx_buffer \o SubSeq(down[conn], 1, n) /\ f = Frames(b)
        /\ messages = [i \in DOMAIN f.payloads |-> [signal |-> "message", payload |-> f.payloads[i]]]
        /\ guiq' = guiq \o messages \o (IF f.bad THEN <<[signal |-> "error"]>> ELSE << >>)
        /\ sock' = IF f.bad THEN "closing" ELSE sock
  BY DEF onReadyRead
<1>2. /\ UNCHANGED <<pending_action, username, accepted, identity, netq, pendingClose, conn>>
      /\ UNCHANGED <<link, up, session, pool, users, toClient>> /\ sock = "connected"
      /\ sock' \in {"connected", "closing"}
  BY <1>1 DEF onReadyRead, dialogVars, serverVars
<1>3. conn \in Conn
  BY <1>2, CurrentConn
<1>4. Server'
  <2>1. \A k \in Conn : /\ up'[k] = up[k]
                        /\ Live(k)' => Live(k) /\ username' = username
                        /\ link'[k] = "open" => link[k] = "open"
                        /\ Ahead(k)' => Ahead(k)
    BY <1>2 DEF Live, Ahead
  <2>2. DOMAIN up' = Conn
    BY <1>2 DEF Server
  <2> QED
    BY <1>2, <2>1, <2>2, ClientKeepsServer
<1>5. Named' /\ Asks'
  BY <1>2 DEF Client, Named, Asks, Allowed
<1>6. ~ Opening'
  <2> SUFFICES ASSUME netq # << >>, netq[1].call = "connect" PROVE FALSE
    BY <1>2 DEF Opening
  <2>1. PICK q, l : q = netq /\ IsSeq(q) /\ q # << >> /\ l = Len(q)
    BY DEF Dialog, Calls
  <2>2. l \in Nat /\ l # 0
    BY ONLY <2>1, EmptyShape
  <2>3. 1 \in 1 .. l
    BY ONLY <2>2
  <2>4. Quiet
    BY <2>1, <2>3 DEF Dialog, Calls
  <2> QED
    BY <1>2, <2>4 DEF Quiet
<1>7. Received(guiq', toClient[conn])
  <2>1. PICK T, p : T = toClient[conn] /\ p = f.payloads
    OBVIOUS
  <2>2. IsSeq(p) /\ \A i \in 1 .. Len(p) : \E j \in 1 .. Len(T) : p[i] = T[j]
    <3>1. p = Frames(b).payloads
      BY <1>1, <2>1
    <3>2. n \in 1 .. Len(down[conn]) /\ b = rx_buffer \o SubSeq(down[conn], 1, n) /\ sock = "connected"
      BY ONLY <1>1, <1>2
    <3>3. Streams
      OBVIOUS
    <3>4. AreSent(p, toClient[conn])
      BY ONLY <1>3, <3>1, <3>2, <3>3, FramesAreSent
    <3> QED
      BY ONLY <2>1, <3>4 DEF AreSent
  <2>3. PICK l : l = Len(p) /\ l \in Nat /\ DOMAIN p = 1 .. l
    BY ONLY <2>2, DomainShape
  <2>4. messages = [i \in 1 .. l |-> [signal |-> "message", payload |-> p[i]]]
    BY ONLY <1>1, <2>1, <2>3
  <2>5. messages = [i \in 1 .. l |-> messages[i]]
    BY ONLY <2>4
  <2>6. IsSeq(messages) /\ Len(messages) = l
    BY ONLY <2>3, <2>5, FunctionShape
  <2>7. \A i \in 1 .. l : messages[i].payload = p[i]
    BY ONLY <2>4
  <2>8. Received(messages, T)
    BY ONLY <2>2, <2>3, <2>6, <2>7 DEF Received
  <2>9. PICK r : r = (IF f.bad THEN <<[signal |-> "error"]>> ELSE << >>)
    OBVIOUS
  <2>10. IsSeq(r) /\ Received(r, T)
    <3>1. CASE r = << >>
      <4>1. IsSeq(r) /\ Len(r) = 0
        BY ONLY <3>1, EmptyShape
      <4>2. ASSUME NEW i \in 1 .. Len(r) PROVE FALSE
        <5>1. i \in 1 .. 0
          BY ONLY <4>1, <4>2
        <5> QED
          BY ONLY <5>1
      <4> QED
        BY ONLY <4>1, <4>2 DEF Received
    <3>2. CASE r = <<[signal |-> "error"]>>
      <4>1. PICK x : x = [signal |-> "error"]
        OBVIOUS
      <4>2. r = <<x>> /\ x.signal = "error"
        BY ONLY <3>2, <4>1
      <4>3. IsSeq(<<x>>) /\ Len(<<x>>) = 1 /\ <<x>>[1] = x
        BY SingleShape
      <4> QED
        BY ONLY <4>2, <4>3 DEF Received
    <3> QED
      BY <2>9, <3>1, <3>2
  <2>11. IsSeq(guiq) /\ Received(guiq, T)
    BY <1>2, <2>1 DEF Dialog, Signals, Client, Hears
  <2>12. Received(guiq \o messages, T) /\ IsSeq(guiq \o messages)
    BY ONLY <2>6, <2>8, <2>11, ReceivedJoin, ConcatShape
  <2>13. Received((guiq \o messages) \o r, T)
    BY ONLY <2>10, <2>12, ReceivedJoin
  <2> QED
    BY ONLY <1>1, <2>1, <2>9, <2>13
<1>8. Hears'
  BY <1>2, <1>7 DEF Hears
<1>9. Agrees'
  BY <1>2 DEF Client, Agrees
<1> QED
  BY <1>4, <1>5, <1>6, <1>8, <1>9 DEF Client, OpensFirst

\* A call that was posted to the network thread: connectToHost, disconnectFromHost
\* and sendFrame.
LEMMA NetCallAgrees == ASSUME Dialog, Streams, Client, Server, NetCall PROVE Client' /\ Server'
<1>1. /\ UNCHANGED <<pending_action, username, accepted, identity>>
      /\ UNCHANGED <<link, session, pool, users, toClient>>
      /\ netq # << >> /\ netq' = Tail(netq) /\ IsSeq(netq) /\ IsSeq(guiq)
  BY DEF NetCall, dialogVars, serverVars, Dialog, Calls, Signals
<1>2. PICK c, n, r : c = Head(netq) /\ n = Len(netq) /\ r = netq'
  OBVIOUS
<1>3. /\ n \in Nat /\ n > 0 /\ Len(r) = n - 1 /\ (\A i \in 1 .. n - 1 : r[i] = netq[i + 1])
      /\ c = netq[1]
  BY <1>1, <1>2, TailShape
<1>4. 1 \in 1 .. n /\ \A i \in 1 .. n - 1 : i + 1 \in 1 .. n
  BY ONLY <1>3
<1>5. /\ c.call \in {"connect", "disconnect", "send"} /\ (c.call = "connect" => Quiet)
      /\ IsSeq(r) /\ \A i \in 1 .. Len(r) : r[i].call \in {"disconnect", "send"}
  BY <1>1, <1>2, NextCall DEF Dialog
<1>6. Named'
  BY <1>1 DEF Client, Named
<1>7. Asks'
  <2> SUFFICES ASSUME NEW i \in 1 .. n - 1, r[i].call = "send" PROVE Allowed(r[i].msg)'
    BY <1>2, <1>3 DEF Asks
  <2>1. Allowed(r[i].msg)
    BY <1>2, <1>3, <1>4 DEF Client, Asks
  <2> QED
    BY <1>1, <2>1 DEF Allowed
<1>8. Opening' => sock' = "connecting" /\ ~ pendingClose'
  <2>1. ASSUME r # << >> PROVE r[1].call # "connect"
    <3>1. PICK l : l = Len(r) /\ l \in Nat /\ l # 0
      BY <1>5, <2>1, EmptyShape
    <3>2. 1 \in 1 .. l
      BY ONLY <3>1
    <3> QED
      BY <1>5, <3>1, <3>2
  <2> QED
    BY <1>2, <2>1 DEF Opening
<1>9. CASE c.call = "connect"
  <2>1. connectToHost /\ Quiet
    BY <1>2, <1>5, <1>9 DEF NetCall
  <2>2. ~ accepted /\ Silent(guiq)
    BY <1>1, <1>3, <1>9 DEF Client, OpensFirst, Opening
  <2>3. Newer(guiq, guiq')
    <3>1. guiq' = guiq \/ Signal(<<"error">>)
      BY <2>1 DEF connectToHost
    <3> QED
      BY <1>1, <3>1, NewerSame, NewerOne
  <2>4. OpensFirst'
    BY <1>1, <2>2, <2>3, SilentStays DEF OpensFirst
  <2>5. sock' # "connected" /\ up' = up
    BY <2>1 DEF connectToHost, Quiet
  <2>6. Hears' /\ Agrees'
    BY <2>5 DEF Hears, Agrees
  <2>7. \A k \in Conn : Ahead(k)' => Ahead(k)
    <3> SUFFICES ASSUME NEW k \in Conn, Ahead(k)' PROVE Ahead(k)
      OBVIOUS
    <3>1. CASE sock = "unconnected"
      <4>1. conn \in Nat /\ k \in Nat /\ conn' = conn + 1
        BY <2>1, <3>1, ConnNumbers DEF Streams, connectToHost
      <4>2. k > conn + 1 \/ k = conn + 1
        BY <4>1 DEF Ahead
      <4>3. k > conn
        BY ONLY <4>1, <4>2
      <4> QED
        BY <4>3 DEF Ahead
    <3>2. CASE sock # "unconnected"
      BY <2>1, <3>2 DEF connectToHost, Ahead
    <3> QED
      BY <3>1, <3>2
  <2>8. DOMAIN up' = Conn /\ \A k \in Conn : up'[k] = up[k] /\ ~ Live(k)'
    BY <2>5 DEF Server, Live
  <2>9. Server'
    BY <1>1, <2>7, <2>8, ClientKeepsServer
  <2> QED
    BY <1>6, <1>7, <2>4, <2>6, <2>9 DEF Client
<1>10. CASE c.call = "disconnect"
  <2>1. disconnectFromHost
    BY <1>2, <1>10 DEF NetCall
  <2>2. /\ UNCHANGED <<guiq, conn, up>> /\ sock' = (IF sock = "connected" THEN "closing" ELSE sock)
        /\ pendingClose' = (sock = "connecting")
    BY <2>1 DEF disconnectFromHost
  <2>3. sock' # "connected" /\ (sock' = "connecting" => sock = "connecting")
    BY <2>2
  <2>4. ~ Opening'
    BY <1>8, <2>2, <2>3
  <2>5. Hears' /\ Agrees' /\ OpensFirst'
    BY <2>3, <2>4 DEF Hears, Agrees, OpensFirst
  <2>6. DOMAIN up' = Conn /\ \A k \in Conn : up'[k] = up[k] /\ ~ Live(k)' /\ (Ahead(k)' => Ahead(k))
    BY <2>2, <2>3 DEF Server, Live, Ahead
  <2>7. Server'
    BY <1>1, <2>6, ClientKeepsServer
  <2> QED
    BY <1>6, <1>7, <2>5, <2>7 DEF Client
<1>11. CASE c.call = "send"
  <2>1. PICK m : m = c.msg /\ sendFrame(m) /\ Allowed(m)
    BY <1>2, <1>3, <1>4, <1>11 DEF NetCall, Client, Asks
  <2>2. UNCHANGED <<sock, pendingClose, conn, rx_buffer>>
    BY <2>1 DEF sendFrame, netVars
  <2>3. Newer(guiq, guiq')
    <3>1. guiq' = guiq \/ Signal(<<"error">>)
      BY <2>1 DEF sendFrame
    <3> QED
      BY <1>1, <3>1, NewerSame, NewerOne
  <2>4. Opening' => Opening
    BY <1>8, <2>2 DEF Opening
  <2>5. Client'
    BY <1>1, <1>6, <1>7, <2>2, <2>3, <2>4, DialogKeepsClient
  <2>6. ASSUME DOMAIN up' = Conn, \A k \in Conn : up'[k] = up[k] PROVE Server'
    <3>1. \A k \in Conn : /\ Live(k)' => Live(k) /\ username' = username
                          /\ link'[k] = "open" => link[k] = "open"
                          /\ Ahead(k)' => Ahead(k)
      BY <1>1, <2>2 DEF Live, Ahead
    <3> QED
      BY <1>1, <2>6, <3>1, ClientKeepsServer
  <2>7. CASE sock # "connected"
    <3>1. up' = up
      BY <2>1, <2>7 DEF sendFrame
    <3> QED
      BY <2>5, <2>6, <3>1 DEF Server
  <2>8. CASE sock = "connected"
    <3>1. PICK k \in Conn : k = conn /\ Live(k)
      BY <2>8, CurrentConn DEF Live
    <3>2. DOMAIN up = Conn /\ Served(k)
      BY DEF Server
    <3>3. up' = [up EXCEPT ![k] = IF link[k] = "open" THEN @ \o encode_frame(Payload(m)) ELSE @]
      BY <2>1, <2>8, <3>1 DEF sendFrame
    <3>4. CASE link[k] # "open"
      BY <2>5, <2>6, <3>2, <3>3, <3>4
    <3>5. CASE link[k] = "open"
      <4>1. PICK u, p : u = up[k] /\ p = Payload(m)
        OBVIOUS
      <4>2. DOMAIN up' = Conn /\ up'[k] = u \o encode_frame(p) /\ \A j \in Conn : j # k => up'[j] = up[j]
        BY <3>2, <3>3, <3>5, <4>1
      <4>3. GoodPayload(p) /\ Parsed(p) = m
        BY <2>1, <4>1, PayloadIsGood, ParsedPayload DEF Allowed
      <4>4. Sent(k, m)
        <5>1. CASE m.type = "auth_request" /\ m.username \in Names /\ m.username = username
          BY <5>1 DEF Sent
        <5>2. CASE m.type = "request" /\ accepted
          BY <2>8, <3>1, <5>2 DEF Sent, Client, Agrees
        <5> QED
          BY <2>1, <5>1, <5>2 DEF Allowed
      <4>5. Steady(k) /\ UsersStay
        BY <1>1, <2>2, SameUsers DEF Steady, Live
      <4>6. UpServed(k)'
        <5> SUFFICES ASSUME session[k].reading # "ended"
                     PROVE  \E T : /\ Carries(k, T)'
                                   /\ Comes(T, up'[k], session[k].reading = "body", session[k].length, link'[k] = "open")
          BY <1>1 DEF UpServed
        <5>1. PICK T, body, length : /\ body = (session[k].reading = "body") /\ length = session[k].length
                                     /\ Carries(k, T) /\ Comes(T, u, body, length, link[k] = "open")
          BY <3>2, <4>1 DEF Served, UpServed
        <5>2. (link[k] = "open") = TRUE
          BY <3>5
        <5>3. Comes(T, u, body, length, TRUE) /\ GoodPayloads(T)
          BY <5>1, <5>2 DEF Carries
        <5>4. Comes(Append(T, p), u \o encode_frame(p), body, length, TRUE)
          BY ONLY <4>3, <5>3, ComesSend
        <5>5. Carries(k, Append(T, p))
          <6>1. PICK U, l : U = Append(T, p) /\ l = Len(T) /\ l \in Nat /\ IsSeq(T)
            BY <5>3, EmptyShape DEF GoodPayloads
          <6>2. IsSeq(U) /\ Len(U) = l + 1 /\ (\A i \in 1 .. l : U[i] = T[i]) /\ U[l + 1] = p
            BY ONLY <6>1, AppendShape
          <6>3. ASSUME NEW i \in 1 .. l + 1 PROVE GoodPayload(U[i]) /\ Sent(k, Parsed(U[i]))
            <7>1. CASE i = l + 1
              BY <4>3, <4>4, <6>2, <7>1
            <7>2. CASE i # l + 1
              <8>1. i \in 1 .. l
                BY ONLY <6>1, <6>3, <7>2
              <8> QED
                BY <5>1, <6>1, <6>2, <8>1 DEF Carries, GoodPayloads
            <7> QED
              BY <7>1, <7>2
          <6> QED
            BY <6>1, <6>2, <6>3 DEF Carries, GoodPayloads
        <5>6. Carries(k, Append(T, p))'
          <6>1. PICK U : U = Append(T, p)
            OBVIOUS
          <6>2. Carries(k, U)'
            BY <4>5, <5>5, <6>1, CarriesStays
          <6> QED
            BY <6>1, <6>2
        <5>7. (link'[k] = "open") = TRUE
          BY <1>1, <3>5
        <5> QED
          BY <4>2, <5>1, <5>4, <5>6, <5>7
      <4>7. PoolServed(k)' /\ SessionServed(k)' /\ AnswersServed(k)'
        BY <1>1, <3>2, <4>5, PoolStays, SessionStays, AnswersStay DEF Served
      <4>8. Served(k)'
        BY <4>6, <4>7 DEF Served
      <4>9. ~ Ahead(k)
        <5>1. ~ (k > conn)
          BY <3>1, ConnNumbers
        <5> QED
          BY <2>8, <5>1 DEF Ahead
      <4>10. Server'
        BY <1>1, <2>2, <4>2, <4>5, <4>8, <4>9, StepAtServer DEF Server
      <4> QED
        BY <2>5, <4>10
    <3> QED
      BY <3>4, <3>5
  <2> QED
    BY <2>7, <2>8
<1> QED
  BY <1>5, <1>9, <1>10, <1>11

\* At the start there are no connections.
LEMMA InitAgrees == ConnInit => Client /\ Server
<1> SUFFICES ASSUME ConnInit PROVE Client /\ Server
  OBVIOUS
<1>1. /\ pending_action = "" /\ accepted = FALSE /\ guiq = << >> /\ netq = << >> /\ sock = "unconnected"
      /\ pool = {} /\ DOMAIN up = Conn /\ DOMAIN users = Names
      /\ \A k \in Conn : /\ up[k] = << >> /\ toClient[k] = << >> /\ session[k].authenticated = FALSE
                         /\ session[k].reading = "none"
  BY DEF ConnInit
<1>2. PICK z : z = << >> /\ IsSeq(z) /\ Len(z) = 0
  BY EmptyShape
<1>3. ASSUME NEW i \in 1 .. Len(z) PROVE FALSE
  <2>1. i \in 1 .. 0
    BY ONLY <1>2, <1>3
  <2> QED
    BY ONLY <2>1
<1>4. Client
  <2>1. Asks
    BY <1>1, <1>2, <1>3 DEF Asks
  <2> QED
    BY <1>1, <2>1 DEF Client, Named, OpensFirst, Opening, Hears, Agrees
<1>5. ASSUME NEW k \in Conn PROVE Served(k)
  <2>1. PoolServed(k) /\ SessionServed(k)
    BY <1>1 DEF PoolServed, SessionServed
  <2>2. AnswersServed(k)
    BY <1>1, <1>2, <1>3 DEF AnswersServed
  <2>3. UpServed(k)
    <3>1. Comes(z, up[k], session[k].reading = "body", session[k].length, link[k] = "open")
      BY <1>1, <1>2, ComesEmpty
    <3>2. Carries(k, z)
      BY <1>2, <1>3 DEF Carries, GoodPayloads
    <3> QED
      BY <3>1, <3>2 DEF UpServed
  <2> QED
    BY <2>1, <2>2, <2>3 DEF Served
<1> QED
  BY <1>1, <1>4, <1>5 DEF Server

\* Every step keeps both sides.
LEMMA AgreesStep ==
    ASSUME Dialog, Streams, Client, Server, [ConnNext]_connVars
    PROVE  Client' /\ Server'
<1>1. CASE UNCHANGED connVars
  <2>1. UNCHANGED <<pending_action, username, accepted, identity, netq, guiq, sock, pendingClose, conn, link, up,
                    session, pool, users, toClient>>
    BY <1>1 DEF connVars, dialogVars, netVars, serverVars
  <2>2. Server'
    BY <2>1, DialogKeepsServer
  <2>3. ServerOnly
    BY <2>1, SameUsers DEF ServerOnly
  <2> QED
    BY <2>2, <2>3, ServerKeepsClient
<1>2. CASE startAuth \/ CloseBox \/ UserRequest \/ Gui
  BY <1>2, StartAuthAgrees, CloseBoxAgrees, UserRequestAgrees, GuiEventAgrees DEF Gui
<1>3. CASE Net
  BY <1>3, NetCallAgrees, SocketConnectedAgrees, SocketRefusedAgrees, SocketDisconnectedAgrees,
     ReadyReadAgrees DEF Net
<1>4. CASE Handle
  <2>1. PICK a \in pool : PoolTask(a)
    BY <1>4 DEF Handle
  <2> QED
    BY <2>1, PoolTaskServes, PoolTaskOnly, ServerKeepsClient
<1>5. ASSUME NEW k \in Conn, Io(k) \/ PushMessage(k) \/ LoseLink(k) PROVE Client' /\ Server'
  <2>1. Server'
    BY <1>5, AcceptServes, ReadHeaderServes, ReadBodyServes, ReadFailsServes, WriteServes, PushServes,
       LoseLinkServes DEF Io
  <2>2. ServerOnly
    BY <1>5, IoOnly, PushOnly, LoseLinkOnly
  <2> QED
    BY <2>1, <2>2, ServerKeepsClient
<1> QED
  BY <1>1, <1>2, <1>3, <1>4, <1>5 DEF ConnNext

\* The property follows: no answer is an error, and the client agrees.
LEMMA AgreesInvariant == Streams /\ Client /\ Server => IdentityAgrees
<1> SUFFICES ASSUME Streams, Client, Server PROVE IdentityAgrees
  OBVIOUS
<1>1. ASSUME NEW k \in Conn, NEW i \in DOMAIN toClient[k] PROVE Parsed(toClient[k][i]).type # "error"
  <2>1. PICK T : T = toClient[k] /\ IsSeq(T)
    BY DEF Streams, Kept, GoodPayloads
  <2>2. i \in 1 .. Len(T)
    BY <2>1, <1>1, DomainShape
  <2> QED
    BY <2>1, <2>2 DEF Server, Served, AnswersServed, Answered
<1> QED
  BY <1>1 DEF IdentityAgrees, Client, Agrees

\* Once the dialog is accepted, the session at the other end of the connection
\* in use is authenticated as the user NetworkManager keeps, whatever attempts,
\* stale signals, repeated requests and lost connections came before, and
\* check_auth refuses no request of this client (IdentityAgrees).
THEOREM IdentityEstablished == ConnSpec => []IdentityAgrees
<1>1. ConnInit => Dialog /\ Streams /\ Client /\ Server
  BY InitDialog, InitStreams, InitAgrees
<1>2. Dialog /\ Streams /\ Client /\ Server /\ [ConnNext]_connVars => Dialog' /\ Streams' /\ Client' /\ Server'
  BY ConnStep, AgreesStep
<1>3. Dialog /\ Streams /\ Client /\ Server => IdentityAgrees
  BY AgreesInvariant
<1> QED
  BY <1>1, <1>2, <1>3, PTL DEF ConnSpec
=============================================================================
