------------------------- MODULE IOThreadPoolProofs -------------------------
(***************************************************************************)
(* Proofs about IOThreadPool, for any number of operations, workers and    *)
(* submitting threads: an operation is in one place at a time, the counts  *)
(* are exact, no wakeup is lost, shutdown() drains, and the pool           *)
(* implements AsyncIO.                                                     *)
(*                                                                         *)
(* Then about TcpServer, for any number of connections: the server with    *)
(* its accept thread and the destructor of the runtime uses the pool as    *)
(* IOThreadPool says, so that all the pool's theorems hold of it, and the  *)
(* accept thread never has two accepts in the pool that have not ended.    *)
(***************************************************************************)
EXTENDS TcpServer, TLAPS, SequenceTheorems, FiniteSetTheorems

(* What is counted by pending_count. *)
Counted == Pushing \cup ToSet(work_queue) \cup Held

Distinct(s) == \A i, j \in 1..Len(s) : s[i] = s[j] => i = j

(* An operation is in one place: in the hands of one submitting thread, at *)
(* one place of the queue, or with one worker; and none of these is        *)
(* completed but the one its worker has published and not uncounted yet.   *)
OnePlace ==
    /\ \A t, u \in Thread :
           submitter[t] = "push" /\ submitter[u] = "push"
             /\ submitting[t] = submitting[u] => t = u
    /\ Distinct(work_queue)
    /\ \A v, w \in Busy : op[v] = op[w] => v = w
    /\ Pushing \cap ToSet(work_queue) = {}
    /\ (Pushing \cup ToSet(work_queue)) \cap Held = {}
    /\ (Pushing \cup ToSet(work_queue)) \cap Published = {}
    /\ \A w \in Busy : worker[w] = "decrement" <=> op[w] \in Published

Accounted == made = Counted \cup Published

PInv == TypeOK /\ OnePlace /\ Accounted /\ PendingCounted

-----------------------------------------------------------------------------
(* Sequences.                                                              *)

LEMMA ToSetAppend ==
    ASSUME NEW S, NEW s \in Seq(S), NEW x \in S
    PROVE  ToSet(Append(s, x)) = ToSet(s) \cup {x}
<1>1. /\ Append(s, x) \in Seq(S) /\ Len(Append(s, x)) = Len(s) + 1
      /\ \A i \in 1..Len(s) : Append(s, x)[i] = s[i]
      /\ Append(s, x)[Len(s) + 1] = x
  BY AppendProperties
<1>2. /\ DOMAIN s = 1..Len(s) /\ Len(s) \in Nat
      /\ DOMAIN Append(s, x) = 1..(Len(s) + 1)
  BY <1>1, LenProperties
<1>3. 1..(Len(s) + 1) = (1..Len(s)) \cup {Len(s) + 1}
  BY <1>2
<1> QED BY <1>1, <1>2, <1>3, Zenon DEF ToSet

LEMMA ToSetTail ==
    ASSUME NEW S, NEW s \in Seq(S), s # <<>>
    PROVE  /\ Head(s) \in S /\ Tail(s) \in Seq(S) /\ Len(s) > 0
           /\ Len(Tail(s)) = Len(s) - 1
           /\ ToSet(s) = {Head(s)} \cup ToSet(Tail(s))
           /\ Distinct(s) => Distinct(Tail(s)) /\ Head(s) \notin ToSet(Tail(s))
<1>1. /\ Head(s) \in S /\ Tail(s) \in Seq(S) /\ Len(Tail(s)) = Len(s) - 1
      /\ \A i \in 1..Len(Tail(s)) : Tail(s)[i] = s[i + 1]
      /\ Head(s) = s[1]
  BY HeadTailProperties
<1>2. Len(s) \in Nat /\ Len(s) > 0
  BY EmptySeq, LenProperties
<1>3. DOMAIN s = 1..Len(s) /\ DOMAIN Tail(s) = 1..(Len(s) - 1)
  BY <1>1, LenProperties
<1>4. ToSet(Tail(s)) = {s[i + 1] : i \in 1..(Len(s) - 1)}
  BY <1>1, <1>3 DEF ToSet
<1>5. ToSet(s) = {Head(s)} \cup ToSet(Tail(s))
  <2>1. ASSUME NEW i \in 1..Len(s) PROVE s[i] \in {Head(s)} \cup ToSet(Tail(s))
    <3>1. CASE i = 1
      BY <1>1, <3>1
    <3>2. CASE i # 1
      <4>1. i - 1 \in 1..(Len(s) - 1) /\ (i - 1) + 1 = i
        BY <1>2, <3>2
      <4> QED BY <1>4, <4>1
    <3> QED BY <3>1, <3>2
  <2>2. ASSUME NEW i \in 1..(Len(s) - 1) PROVE s[i + 1] \in ToSet(s)
    <3>1. i + 1 \in 1..Len(s)
      BY <1>2
    <3> QED BY <1>3, <3>1 DEF ToSet
  <2>3. Head(s) \in ToSet(s)
    <3>1. 1 \in 1..Len(s)
      BY <1>2
    <3> QED BY <1>1, <1>3, <3>1 DEF ToSet
  <2> QED BY <1>3, <1>4, <2>1, <2>2, <2>3 DEF ToSet
<1>6. ASSUME Distinct(s) PROVE Distinct(Tail(s)) /\ Head(s) \notin ToSet(Tail(s))
  <2>1. ASSUME NEW i \in 1..Len(Tail(s)), NEW j \in 1..Len(Tail(s)), Tail(s)[i] = Tail(s)[j]
        PROVE  i = j
    <3>1. i + 1 \in 1..Len(s) /\ j + 1 \in 1..Len(s) /\ s[i + 1] = s[j + 1]
      BY <1>1, <1>2, <2>1
    <3>2. i + 1 = j + 1
      BY <1>6, <3>1 DEF Distinct
    <3> QED BY <3>2
  <2>2. ASSUME NEW i \in 1..(Len(s) - 1) PROVE s[i + 1] # s[1]
    <3>1. i + 1 \in 1..Len(s) /\ 1 \in 1..Len(s) /\ i + 1 # 1
      BY <1>2
    <3> QED BY <1>6, <3>1 DEF Distinct
  <2> QED BY <1>1, <1>4, <2>1, <2>2 DEF Distinct
<1> QED BY <1>1, <1>2, <1>5, <1>6

LEMMA DistinctAppend ==
    ASSUME NEW S, NEW s \in Seq(S), NEW x \in S, Distinct(s), x \notin ToSet(s)
    PROVE  Distinct(Append(s, x))
<1>1. /\ Len(s) \in Nat /\ DOMAIN s = 1..Len(s) /\ Len(Append(s, x)) = Len(s) + 1
      /\ \A i \in 1..Len(s) : Append(s, x)[i] = s[i]
      /\ Append(s, x)[Len(s) + 1] = x
  BY AppendProperties, LenProperties
<1>2. \A i \in 1..Len(s) : s[i] # x
  BY <1>1 DEF ToSet
<1> QED BY <1>1, <1>2 DEF Distinct

LEMMA ToSetEmpty == ToSet(<<>>) = {}
BY DEF ToSet

-----------------------------------------------------------------------------
(* The set pending_count counts is finite.                                 *)
LEMMA CountedFinite ==
    ASSUME TypeOK, Accounted
    PROVE  IsFiniteSet(Counted) /\ Counted \subseteq Op /\ Cardinality(Counted) \in Nat
<1>1. Counted \subseteq Op
  BY DEF Accounted, TypeOK
<1> QED BY <1>1, PoolAssumption, FS_Subset, FS_CardinalityType

(* submit() *)
LEMMA BeginSubmitStep ==
    ASSUME PInv, NEW t \in Thread, NEW o \in Op, BeginSubmit(t, o)
    PROVE  PInv'
<1> USE DEF PInv
<1>1. Pushing' = Pushing \cup {o}
  BY DEF BeginSubmit, Pushing, TypeOK
<1>2. Held' = Held /\ Busy' = Busy
  BY DEF BeginSubmit, Held, Busy
<1>3. Published' = Published /\ work_queue' = work_queue
  BY DEF BeginSubmit, Published
<1>4. o \notin Counted \cup Published
  BY DEF BeginSubmit, Accounted
<1>5. Counted' = Counted \cup {o}
  BY <1>1, <1>2, <1>3 DEF Counted
<1>6. pending_count' = Cardinality(Counted')
  BY <1>4, <1>5, CountedFinite, FS_AddElement DEF BeginSubmit, PendingCounted, Counted
<1>7. TypeOK'
  BY DEF TypeOK, BeginSubmit, askVars
<1>8. OnePlace'
  <2>1. \A u, v \in Thread : submitter'[u] = "push" /\ submitter'[v] = "push"
             /\ submitting'[u] = submitting'[v] => u = v
    <3>1. \A u \in Thread : submitter[u] = "push" => submitting[u] # o
      BY <1>4 DEF Counted, Pushing
    <3> QED BY <3>1 DEF OnePlace, BeginSubmit, TypeOK
  <2>2. \A v, w \in Busy' : op'[v] = op'[w] => v = w
    BY <1>2 DEF OnePlace, BeginSubmit
  <2>3. \A w \in Busy' : worker'[w] = "decrement" <=> op'[w] \in Published'
    BY <1>2, <1>3 DEF OnePlace, BeginSubmit
  <2> QED BY <1>1, <1>2, <1>3, <1>4, <2>1, <2>2, <2>3 DEF OnePlace, Counted
<1>9. Accounted'
  BY <1>3, <1>5 DEF Accounted, BeginSubmit
<1> QED BY <1>6, <1>7, <1>8, <1>9 DEF PendingCounted, Counted

LEMMA PushStep ==
    ASSUME PInv, NEW t \in Thread, Push(t)
    PROVE  PInv'
<1> USE DEF PInv
<1> DEFINE o == submitting[t]
<1>1. o \in Pushing /\ o \in Op
  BY DEF Push, Pushing, Accounted, Counted, TypeOK
<1>2. Pushing' = Pushing \ {o}
  BY DEF Push, AfterPush, Pushing, OnePlace, TypeOK
<1>3. Held' = Held /\ Busy' = Busy
  BY DEF Push, Held, Busy
<1>4. Published' = Published
  BY DEF Push, Published
<1>5. work_queue' = Append(work_queue, o) /\ ToSet(work_queue') = ToSet(work_queue) \cup {o}
  BY <1>1, ToSetAppend DEF Push, TypeOK
<1>6. Counted' = Counted
  BY <1>1, <1>2, <1>3, <1>5 DEF Counted
<1>7. TypeOK'
  BY <1>1, <1>5 DEF TypeOK, Push, AfterPush, askVars, Accounted, Counted
<1>8. OnePlace'
  <2>1. Distinct(work_queue')
    BY <1>1, <1>5, DistinctAppend DEF OnePlace, TypeOK
  <2>2. \A u, v \in Thread : submitter'[u] = "push" /\ submitter'[v] = "push"
             /\ submitting'[u] = submitting'[v] => u = v
    BY DEF OnePlace, Push, AfterPush, TypeOK
  <2>3. \A w \in Busy' : worker'[w] = "decrement" <=> op'[w] \in Published'
    BY <1>3, <1>4 DEF OnePlace, Push
  <2>4. \A v, w \in Busy' : op'[v] = op'[w] => v = w
    BY <1>3 DEF OnePlace, Push
  <2> QED BY <1>1, <1>2, <1>3, <1>4, <1>5, <2>1, <2>2, <2>3, <2>4 DEF OnePlace
<1>9. Accounted' /\ PendingCounted'
  BY <1>4, <1>6 DEF Accounted, Push, PendingCounted, Counted
<1> QED BY <1>7, <1>8, <1>9

(* The steps that move no operation.                                       *)
LEMMA NothingMoves ==
    ASSUME PInv, TypeOK',
           Pushing' = Pushing, UNCHANGED <<work_queue, op, Busy, Published, made, pending_count>>,
           \A t \in Thread : submitter'[t] = "push" =>
               submitter[t] = "push" /\ submitting'[t] = submitting[t],
           \A w \in Busy : worker'[w] = "decrement" <=> worker[w] = "decrement"
    PROVE  PInv'
<1> USE DEF PInv
<1>1. Held' = Held /\ Counted' = Counted
  BY DEF Held, Counted
<1>2. OnePlace'
  BY <1>1 DEF OnePlace
<1> QED BY <1>1, <1>2 DEF Accounted, PendingCounted, Counted

LEMMA NotifyOneStep ==
    ASSUME PInv, NEW t \in Thread, NotifyOne(t)
    PROVE  PInv'
<1> USE DEF PInv
<1>1. /\ worker' \in [Worker -> {"lock", "waiting", "run", "publish", "decrement", "exited"}]
      /\ Busy' = Busy /\ \A w \in Busy : worker'[w] = worker[w]
  BY DEF NotifyOne, WakeOne, Waiting, TypeOK, Busy
<1>2. Pushing' = Pushing
  BY DEF NotifyOne, Pushing, TypeOK
<1>3. TypeOK'
  BY <1>1 DEF NotifyOne, TypeOK, askVars, historyVars
<1>4. Published' = Published
  BY DEF NotifyOne, Published, historyVars
<1> QED BY <1>1, <1>2, <1>3, <1>4, NothingMoves DEF NotifyOne, historyVars, TypeOK

(* A worker. *)
LEMMA IdleStep ==
    ASSUME PInv, NEW w \in Worker, Exit(w) \/ Wait(w) \/ SpuriousWake(w) \/ RunDone(w)
    PROVE  PInv'
<1> USE DEF PInv
<1>1. UNCHANGED <<work_queue, completed_queue, pending_count, stop, op, threadVars,
                  shutdown, askVars, historyVars>>
  BY DEF Exit, Wait, SpuriousWake, RunDone
<1>2. \E next \in {"lock", "waiting", "exited", "publish"} :
          /\ worker' = [worker EXCEPT ![w] = next]
          /\ next = "publish" <=> worker[w] = "run"
          /\ worker[w] \notin {"publish", "decrement"}
  BY DEF Exit, Wait, SpuriousWake, RunDone
<1>3. Busy' = Busy /\ \A v \in Busy : worker'[v] = "decrement" <=> worker[v] = "decrement"
  BY <1>2 DEF Busy, TypeOK
<1>4. completed' \subseteq Op
  <2>1. RunDone(w) => op[w] \in Held
    BY DEF RunDone, Held, Busy
  <2>2. Held \subseteq Op
    BY DEF Accounted, Counted, TypeOK
  <2> QED BY <2>1, <2>2 DEF Exit, Wait, SpuriousWake, RunDone, TypeOK
<1>5. TypeOK'
  BY <1>1, <1>2, <1>4 DEF TypeOK, threadVars, askVars, historyVars
<1>6. Pushing' = Pushing /\ Published' = Published
  BY <1>1 DEF Pushing, Published, threadVars, historyVars
<1> QED BY <1>1, <1>3, <1>5, <1>6, NothingMoves DEF threadVars, historyVars

LEMMA TakeStep ==
    ASSUME PInv, NEW w \in Worker, Take(w)
    PROVE  PInv'
<1> USE DEF PInv
<1> DEFINE o == Head(work_queue)
<1>1. /\ o \in Op /\ work_queue' \in Seq(Op)
      /\ ToSet(work_queue) = {o} \cup ToSet(work_queue')
      /\ Distinct(work_queue') /\ o \notin ToSet(work_queue')
  BY ToSetTail DEF Take, FrontPopped, TypeOK, OnePlace
<1>2. Busy' = Busy \cup {w} /\ w \notin Busy
  BY DEF Take, Busy, TypeOK
<1>3. op'[w] = o /\ \A v \in Busy : op'[v] = op[v]
  BY <1>2 DEF Take, TypeOK, Busy
<1>4. Held' = Held \cup {o}
  BY <1>2, <1>3 DEF Held
<1>5. Pushing' = Pushing /\ Published' = Published
  BY DEF Take, Pushing, Published, threadVars, askVars, historyVars
<1>6. Counted' = Counted
  BY <1>1, <1>4, <1>5 DEF Counted
<1>7. TypeOK'
  BY <1>1 DEF TypeOK, Take, threadVars, askVars, historyVars
<1>8. OnePlace'
  <2>1. o \notin Held /\ o \notin Published /\ o \notin Pushing
    BY <1>1 DEF OnePlace
  <2>2. \A u, v \in Busy' : op'[u] = op'[v] => u = v
    BY <1>2, <1>3, <2>1 DEF OnePlace, Held
  <2>3. \A v \in Busy' : worker'[v] = "decrement" <=> op'[v] \in Published'
    BY <1>2, <1>3, <1>5, <2>1 DEF OnePlace, Take, TypeOK, Busy
  <2>4. \A t, u \in Thread : submitter'[t] = "push" /\ submitter'[u] = "push"
             /\ submitting'[t] = submitting'[u] => t = u
    BY DEF OnePlace, Take, threadVars
  <2> QED BY <1>1, <1>4, <1>5, <2>1, <2>2, <2>3, <2>4 DEF OnePlace
<1>9. Accounted' /\ PendingCounted'
  BY <1>5, <1>6 DEF Accounted, PendingCounted, Counted, Take, historyVars
<1> QED BY <1>7, <1>8, <1>9

LEMMA PublishStep ==
    ASSUME PInv, NEW w \in Worker, Publish(w)
    PROVE  PInv' /\ op[w] \in made \ Published
<1> USE DEF PInv
<1>1. w \in Busy /\ op[w] \in Held /\ op[w] \in Op
  BY DEF Publish, Busy, Held, Accounted, Counted, TypeOK
<1>2. op[w] \notin Published
  BY <1>1 DEF Publish, OnePlace
<1>3. /\ completed_queue' \in Seq(Op)
      /\ ToSet(completed_queue') = ToSet(completed_queue) \cup {op[w]}
  BY <1>1, ToSetAppend, AppendProperties DEF Publish, TypeOK
<1>4. Published' = Published \cup {op[w]}
  BY <1>3 DEF Published, Publish, historyVars
<1>5. Busy' = Busy /\ Held' = Held /\ Pushing' = Pushing
  BY DEF Publish, Busy, Held, Pushing, TypeOK, threadVars
<1>6. TypeOK'
  BY <1>3 DEF TypeOK, Publish, threadVars, askVars, historyVars
<1>7. OnePlace'
  <2>1. ASSUME NEW v \in Busy' PROVE worker'[v] = "decrement" <=> op'[v] \in Published'
    <3>1. CASE v = w
      BY <1>4, <3>1 DEF Publish, TypeOK
    <3>2. CASE v # w
      <4>1. v \in Busy /\ worker'[v] = worker[v] /\ op'[v] = op[v] /\ op[v] # op[w]
        BY <1>1, <1>5, <3>2 DEF Publish, TypeOK, OnePlace, Busy
      <4> QED BY <1>4, <4>1 DEF OnePlace
    <3> QED BY <3>1, <3>2
  <2>2. (Pushing \cup ToSet(work_queue))' \cap Published' = {}
    BY <1>1, <1>4, <1>5 DEF OnePlace, Publish
  <2> QED BY <1>5, <2>1, <2>2 DEF OnePlace, Publish, threadVars
<1>8. Accounted' /\ PendingCounted'
  BY <1>1, <1>4, <1>5 DEF Accounted, PendingCounted, Counted, Publish, historyVars
<1> QED BY <1>1, <1>2, <1>6, <1>7, <1>8 DEF Accounted, Counted

LEMMA DecrementStep ==
    ASSUME PInv, NEW w \in Worker, Decrement(w)
    PROVE  PInv'
<1> USE DEF PInv
<1>1. w \in Busy /\ op[w] \in Held
  BY DEF Decrement, Busy, Held
<1>2. Busy' = Busy \ {w} /\ \A v \in Busy' : op'[v] = op[v] /\ worker'[v] = worker[v]
  BY DEF Decrement, Busy, TypeOK
<1>3. Held' = Held \ {op[w]}
  BY <1>1, <1>2 DEF Held, OnePlace
<1>4. Pushing' = Pushing /\ Published' = Published /\ work_queue' = work_queue
  BY DEF Decrement, Pushing, Published, threadVars, askVars, historyVars
<1>5. Counted' = Counted \ {op[w]} /\ op[w] \in Counted
  BY <1>1, <1>3, <1>4 DEF Counted, OnePlace
<1>6. pending_count' = Cardinality(Counted')
  BY <1>5, CountedFinite, FS_RemoveElement DEF Decrement, PendingCounted, Counted
<1>7. IsFiniteSet(Counted') /\ Cardinality(Counted') \in Nat
  BY <1>5, CountedFinite, FS_Subset, FS_CardinalityType
<1>8. TypeOK'
  BY <1>6, <1>7 DEF TypeOK, Decrement, threadVars, askVars, historyVars
<1>9. op[w] \in Published
  BY <1>1 DEF OnePlace, Decrement
<1>10. OnePlace'
  BY <1>2, <1>3, <1>4 DEF OnePlace, Decrement, threadVars
<1>11. Accounted'
  BY <1>4, <1>5, <1>9 DEF Accounted, Decrement, historyVars
<1> QED BY <1>6, <1>8, <1>10, <1>11 DEF PendingCounted, Counted

(* Main. *)
LEMMA PopStep ==
    ASSUME PInv, PopCompleted
    PROVE  PInv'
<1> USE DEF PInv
<1> DEFINE o == Head(completed_queue)
<1>1. /\ o \in Op /\ completed_queue' \in Seq(Op)
      /\ ToSet(completed_queue) = {o} \cup ToSet(completed_queue')
  BY ToSetTail DEF PopCompleted, RestCompleted, TypeOK
<1>2. callbacks' \in Seq(Op) /\ ToSet(callbacks') = ToSet(callbacks) \cup {o}
  BY <1>1, ToSetAppend, AppendProperties DEF PopCompleted, TypeOK
<1>3. Published' = Published
  BY <1>1, <1>2 DEF Published
<1>4. TypeOK'
  BY <1>1, <1>2 DEF TypeOK, PopCompleted, threadVars, askVars
<1>5. Pushing' = Pushing /\ Busy' = Busy
  BY DEF PopCompleted, Pushing, Busy, threadVars
<1> QED BY <1>3, <1>4, <1>5, NothingMoves DEF PopCompleted, threadVars

LEMMA HasPendingStep ==
    ASSUME PInv, BeginHasPending \/ EndHasPending
    PROVE  PInv'
<1> USE DEF PInv
<1>1. UNCHANGED <<work_queue, completed_queue, pending_count, stop, worker, op, completed,
                  threadVars, shutdown, historyVars>>
  BY DEF BeginHasPending, EndHasPending
<1>2. asking' \in BOOLEAN /\ asked_of' \subseteq made
  BY DEF BeginHasPending, EndHasPending
<1>3. TypeOK'
  BY <1>1, <1>2 DEF TypeOK, threadVars, historyVars
<1>4. Pushing' = Pushing /\ Published' = Published /\ Busy' = Busy
  BY <1>1 DEF Pushing, Published, Busy, threadVars, historyVars
<1> QED BY <1>1, <1>3, <1>4, NothingMoves DEF threadVars, historyVars

LEMMA ShutdownStep ==
    ASSUME PInv, BeginShutdown \/ NotifyAll \/ Join
    PROVE  PInv'
<1> USE DEF PInv
<1>1. UNCHANGED <<work_queue, completed_queue, pending_count, op, completed, threadVars, askVars,
                  historyVars>>
  BY DEF BeginShutdown, NotifyAll, Join
<1>2. /\ worker' \in [Worker -> {"lock", "waiting", "run", "publish", "decrement", "exited"}]
      /\ Busy' = Busy /\ \A w \in Busy : worker'[w] = worker[w]
  BY DEF BeginShutdown, NotifyAll, Join, WakeAll, Waiting, TypeOK, Busy
<1>3. stop' \in BOOLEAN /\ shutdown' \in {"out", "notify", "join"}
  BY DEF BeginShutdown, NotifyAll, Join, TypeOK
<1>4. TypeOK'
  BY <1>1, <1>2, <1>3 DEF TypeOK, threadVars, askVars, historyVars
<1>5. Pushing' = Pushing /\ Published' = Published
  BY <1>1 DEF Pushing, Published, threadVars, askVars, historyVars
<1> QED BY <1>1, <1>2, <1>4, <1>5, NothingMoves DEF threadVars, askVars, historyVars

LEMMA Stutter == ASSUME PInv, UNCHANGED vars PROVE PInv'
<1> USE DEF PInv
<1>1. TypeOK'
  BY DEF vars, threadVars, askVars, historyVars, TypeOK
<1>2. Pushing' = Pushing /\ Published' = Published /\ Busy' = Busy
  BY DEF vars, threadVars, askVars, historyVars, Pushing, Published, Busy
<1> QED BY <1>1, <1>2, NothingMoves DEF vars, threadVars, askVars, historyVars

LEMMA PInvStep == ASSUME PInv, [Next]_vars PROVE PInv'
<1>1. ASSUME NEW t \in Thread, Submission(t) PROVE PInv'
  BY <1>1, PushStep, NotifyOneStep DEF Submission
<1>2. ASSUME NEW w \in Worker, WorkerStep(w) \/ SpuriousWake(w) \/ EndsByPeer(w) PROVE PInv'
  BY <1>2, IdleStep, TakeStep, PublishStep, DecrementStep
     DEF WorkerStep, EndsByItself, EndsByPeer
<1> QED BY <1>1, <1>2, BeginSubmitStep, PopStep, HasPendingStep, ShutdownStep, Stutter DEF Next

(* Every operation is in one place, and the counts are exact, whatever the *)
(* number of workers and submitting threads.                               *)
THEOREM PoolInvariant == Spec => []PInv
<1>1. Init => PInv
  <2> SUFFICES ASSUME Init PROVE PInv
    OBVIOUS
  <2>1. Pushing = {} /\ Busy = {} /\ Held = {} /\ ToSet(work_queue) = {} /\ Published = {}
    BY ToSetEmpty DEF Init, Pushing, Busy, Held, Published
  <2>2. Cardinality(Counted) = 0
    BY <2>1, FS_EmptySet DEF Counted
  <2>3. TypeOK
    <3>1. <<>> \in Seq(Op) /\ late \subseteq made /\ made \subseteq Op
      BY EmptySeq DEF Init
    <3> QED BY <3>1 DEF Init, TypeOK
  <2>4. OnePlace
    BY <2>1 DEF Init, OnePlace, Distinct
  <2> QED BY <2>1, <2>2, <2>3, <2>4 DEF PInv, Init, Accounted, PendingCounted, Counted
<1> QED BY <1>1, PInvStep, PTL DEF Spec

(* The state of the pool is well-typed; pending_count never goes below 0.  *)
THEOREM PoolTypeCorrect == Spec => []TypeOK
<1>1. PInv => TypeOK
  BY DEF PInv
<1> QED BY <1>1, PoolInvariant, PTL

(* pending_count is the number of operations submitted and not uncounted.  *)
THEOREM CountExact == Spec => []PendingCounted
<1>1. PInv => PendingCounted
  BY DEF PInv
<1> QED BY <1>1, PoolInvariant, PTL

-----------------------------------------------------------------------------
(* Wakeups.                                                                *)

LEMMA WaitersFinite ==
    /\ IsFiniteSet(AtLock) /\ Cardinality(AtLock) \in Nat
    /\ IsFiniteSet(AtNotify) /\ Cardinality(AtNotify) \in Nat
<1>1. AtLock \subseteq Worker /\ AtNotify \subseteq Thread
  BY DEF AtLock, AtNotify
<1> QED BY <1>1, PoolAssumption, FS_Subset, FS_CardinalityType

(* The step of a worker that leaves the lock or comes to it.               *)
LEMMA LockCount ==
    ASSUME TypeOK, NEW w \in Worker, NEW next, worker' = [worker EXCEPT ![w] = next]
    PROVE  /\ worker[w] # "lock" /\ next = "lock" =>
                  Cardinality(AtLock') = Cardinality(AtLock) + 1
           /\ worker[w] = "lock" /\ next # "lock" =>
                  Cardinality(AtLock') = Cardinality(AtLock) - 1
           /\ worker[w] # "lock" /\ next # "lock" =>
                  Cardinality(AtLock') = Cardinality(AtLock)
<1>1. CASE worker[w] # "lock" /\ next = "lock"
  <2>1. AtLock' = AtLock \cup {w} /\ w \notin AtLock
    BY <1>1 DEF AtLock, TypeOK
  <2> QED BY <1>1, <2>1, WaitersFinite, FS_AddElement
<1>2. CASE worker[w] = "lock" /\ next # "lock"
  <2>1. AtLock' = AtLock \ {w} /\ w \in AtLock
    BY <1>2 DEF AtLock, TypeOK
  <2> QED BY <1>2, <2>1, WaitersFinite, FS_RemoveElement
<1>3. CASE worker[w] # "lock" /\ next # "lock"
  <2>1. AtLock' = AtLock
    BY <1>3 DEF AtLock, TypeOK
  <2> QED BY <1>3, <2>1
<1> QED BY <1>1, <1>2, <1>3

LEMMA WakeupStep == ASSUME PInv, NoLostWakeup, [Next]_vars PROVE NoLostWakeup'
<1> USE DEF PInv
<1>0. /\ Len(work_queue) \in Nat
      /\ Cardinality(AtLock) \in Nat /\ Cardinality(AtNotify) \in Nat
  BY WaitersFinite DEF TypeOK
<1>1. ASSUME NEW t \in Thread, NEW o \in Op, BeginSubmit(t, o) PROVE NoLostWakeup'
  <2>1. AtNotify' = AtNotify /\ AtLock' = AtLock /\ Waiting' = Waiting
    BY <1>1 DEF BeginSubmit, AtNotify, AtLock, Waiting, TypeOK
  <2> QED BY <1>1, <2>1 DEF NoLostWakeup, BeginSubmit
<1>2. ASSUME NEW t \in Thread, Push(t) PROVE NoLostWakeup'
  <2>1. AtNotify' = AtNotify \cup {t} /\ t \notin AtNotify
    BY <1>2 DEF Push, AfterPush, AtNotify, TypeOK
  <2>2. Cardinality(AtNotify') = Cardinality(AtNotify) + 1
    BY <2>1, WaitersFinite, FS_AddElement
  <2>3. AtLock' = AtLock /\ Waiting' = Waiting
    BY <1>2 DEF Push, AtLock, Waiting
  <2>4. submitting[t] \in Op
    BY <1>2 DEF Push, Pushing, Accounted, Counted, TypeOK
  <2>5. Len(work_queue') = Len(work_queue) + 1
    BY <1>2, <2>4, AppendProperties DEF Push, TypeOK
  <2> QED BY <1>0, <1>2, <2>2, <2>3, <2>5 DEF NoLostWakeup, Push
<1>3. ASSUME NEW t \in Thread, NotifyOne(t) PROVE NoLostWakeup'
  <2>1. AtNotify' = AtNotify \ {t} /\ t \in AtNotify
    BY <1>3 DEF NotifyOne, AtNotify, TypeOK
  <2>2. Cardinality(AtNotify') = Cardinality(AtNotify) - 1
    BY <2>1, WaitersFinite, FS_RemoveElement
  <2>3. CASE Waiting = {}
    BY <1>3, <2>3 DEF NotifyOne, WakeOne, NoLostWakeup, Waiting
  <2>4. CASE Waiting # {}
    <3>1. PICK w \in Waiting : worker' = [worker EXCEPT ![w] = "lock"]
      BY <1>3, <2>4 DEF NotifyOne, WakeOne
    <3>2. Cardinality(AtLock') = Cardinality(AtLock) + 1
      BY <3>1, LockCount DEF Waiting
    <3> QED BY <1>0, <1>3, <2>2, <2>4, <3>2 DEF NoLostWakeup, NotifyOne
  <2> QED BY <2>3, <2>4
<1>4. ASSUME NEW w \in Worker, Exit(w) \/ Wait(w) PROVE NoLostWakeup'
  <2>1. /\ work_queue' = <<>> /\ Len(work_queue') = 0
        /\ UNCHANGED <<stop, shutdown>>
    BY <1>4, EmptySeq DEF Exit, Wait, Drained
  <2>2. AtNotify' = AtNotify /\ Cardinality(AtLock') \in Nat
    <3>1. \E next \in {"exited", "waiting"} : worker' = [worker EXCEPT ![w] = next]
      BY <1>4 DEF Exit, Wait
    <3>2. AtLock' \subseteq Worker
      BY DEF AtLock
    <3>3. AtNotify' = AtNotify
      BY <1>4 DEF Exit, Wait, threadVars, AtNotify
    <3> QED BY <3>2, <3>3, PoolAssumption, FS_Subset, FS_CardinalityType
  <2>3. Wait(w) => ~stop'
    BY DEF Wait
  <2>4. Exit(w) => Waiting' = Waiting
    BY DEF Exit, Waiting, TypeOK
  <2> QED BY <1>0, <1>4, <2>1, <2>2, <2>3, <2>4 DEF NoLostWakeup
<1>5. ASSUME NEW w \in Worker, Take(w) PROVE NoLostWakeup'
  <2>1. Len(work_queue') = Len(work_queue) - 1
    BY <1>5, ToSetTail DEF Take, FrontPopped, TypeOK
  <2>2. Cardinality(AtLock') = Cardinality(AtLock) - 1
    <3>1. worker[w] = "lock" /\ worker' = [worker EXCEPT ![w] = "run"]
      BY <1>5 DEF Take
    <3>2. TypeOK /\ "run" # "lock"
      OBVIOUS
    <3> QED BY ONLY <1>5, <3>1, <3>2, LockCount
  <2>3. Waiting' = Waiting /\ AtNotify' = AtNotify
    BY <1>5 DEF Take, Waiting, AtNotify, threadVars, TypeOK
  <2> QED BY <1>0, <1>5, <2>1, <2>2, <2>3 DEF NoLostWakeup, Take
<1>6. ASSUME NEW w \in Worker, RunDone(w) \/ Publish(w) \/ Decrement(w) \/ SpuriousWake(w)
      PROVE  NoLostWakeup'
  <2>1. /\ work_queue' = work_queue /\ UNCHANGED <<stop, shutdown>> /\ AtNotify' = AtNotify
        /\ Waiting' \subseteq Waiting
    BY <1>6 DEF RunDone, Publish, Decrement, SpuriousWake, Waiting, AtNotify, threadVars, TypeOK
  <2>2. \E next \in {"publish", "decrement", "lock"} : worker' = [worker EXCEPT ![w] = next]
    BY <1>6 DEF RunDone, Publish, Decrement, SpuriousWake
  <2>3. worker[w] # "lock"
    BY <1>6 DEF RunDone, Publish, Decrement, SpuriousWake
  <2>4. Cardinality(AtLock') \in {Cardinality(AtLock), Cardinality(AtLock) + 1}
    BY <2>2, <2>3, LockCount
  <2> QED BY <1>0, <2>1, <2>4 DEF NoLostWakeup
<1>7. CASE PopCompleted
  BY <1>7 DEF PopCompleted, NoLostWakeup, Waiting, AtLock, AtNotify, threadVars
<1>11. CASE BeginHasPending \/ EndHasPending
  BY <1>11 DEF BeginHasPending, EndHasPending, NoLostWakeup, Waiting, AtLock, AtNotify, threadVars
<1>8. CASE BeginShutdown
  <2>1. UNCHANGED <<Waiting, AtLock, AtNotify, work_queue>> /\ shutdown' = "notify"
    BY <1>8 DEF BeginShutdown, Waiting, AtLock, AtNotify, threadVars
  <2> QED BY <2>1 DEF NoLostWakeup
<1>9. CASE NotifyAll \/ Join
  <2>1. Waiting' = {}
    BY <1>9 DEF NotifyAll, WakeAll, Join, Waiting, TypeOK
  <2> QED BY <2>1 DEF NoLostWakeup
<1>10. CASE UNCHANGED vars
  BY <1>10 DEF vars, NoLostWakeup, Waiting, AtLock, AtNotify, threadVars
<1> QED BY <1>1, <1>2, <1>3, <1>4, <1>5, <1>6, <1>7, <1>8, <1>9, <1>10, <1>11
        DEF Next, Submission, WorkerStep, EndsByItself, EndsByPeer

(* No wakeup is lost, with any number of workers and submitting threads.   *)
THEOREM WakeupsKept == Spec => []NoLostWakeup
<1>1. Init => NoLostWakeup
  BY DEF Init, NoLostWakeup, Waiting
<1> QED BY <1>1, WakeupStep, PoolInvariant, PTL DEF Spec

-----------------------------------------------------------------------------
(* Shutdown.                                                               *)

(* A worker leaves only once the pool has stopped and its queue is empty,  *)
(* and what comes later is late.                                           *)
LeftBehind ==
    \A w \in Worker : worker[w] = "exited" => stop /\ ToSet(work_queue) \subseteq late

LEMMA LeftBehindStep == ASSUME PInv, LeftBehind, [Next]_vars PROVE LeftBehind'
<1> USE DEF PInv
<1>1. ASSUME NEW t \in Thread, Push(t) PROVE LeftBehind'
  <2>1. submitting[t] \in Op
    BY <1>1 DEF Push, Pushing, Accounted, Counted, TypeOK
  <2>2. ToSet(work_queue') = ToSet(work_queue) \cup {submitting[t]}
    BY <1>1, <2>1, ToSetAppend DEF Push, TypeOK
  <2> QED BY <1>1, <2>2 DEF LeftBehind, Push
<1>2. ASSUME NEW w \in Worker, Exit(w) PROVE LeftBehind'
  BY <1>2, ToSetEmpty DEF LeftBehind, Exit, Drained, historyVars, TypeOK
<1>3. ASSUME NEW w \in Worker, Take(w) PROVE LeftBehind'
  <2>1. ToSet(work_queue') \subseteq ToSet(work_queue)
    BY <1>3, ToSetTail DEF Take, FrontPopped, TypeOK
  <2> QED BY <1>3, <2>1 DEF LeftBehind, Take, historyVars, TypeOK
<1>4. ASSUME NEW w \in Worker, Wait(w) \/ RunDone(w) \/ Publish(w) \/ Decrement(w) \/ SpuriousWake(w)
      PROVE  LeftBehind'
  <2>1. /\ UNCHANGED <<work_queue, stop, late>>
        /\ \E next \in {"waiting", "publish", "decrement", "lock"} :
               worker' = [worker EXCEPT ![w] = next]
    BY <1>4 DEF Wait, RunDone, Publish, Decrement, SpuriousWake, historyVars
  <2> QED BY <2>1 DEF LeftBehind, TypeOK
<1>5. ASSUME NEW t \in Thread, NotifyOne(t) PROVE LeftBehind'
  BY <1>5 DEF NotifyOne, WakeOne, LeftBehind, historyVars, TypeOK
<1>6. ASSUME NEW t \in Thread, NEW o \in Op, BeginSubmit(t, o) PROVE LeftBehind'
  BY <1>6 DEF BeginSubmit, LeftBehind
<1>7. CASE PopCompleted \/ BeginShutdown \/ NotifyAll \/ Join \/ UNCHANGED vars
  BY <1>7 DEF PopCompleted, BeginShutdown, NotifyAll, WakeAll, Join, vars, historyVars,
              LeftBehind, TypeOK
<1>8. CASE BeginHasPending \/ EndHasPending
  BY <1>8 DEF BeginHasPending, EndHasPending, historyVars, LeftBehind
<1> QED BY <1>1, <1>2, <1>3, <1>4, <1>5, <1>6, <1>7, <1>8
        DEF Next, Submission, WorkerStep, EndsByItself, EndsByPeer

(* When the workers are gone, what was queued before stop has completed    *)
(* and nothing else ever runs.                                             *)
THEOREM ShutdownDrains == Spec => []DrainedAtShutdown
<1>1. Init => LeftBehind
  BY DEF Init, LeftBehind
<1>2. PInv /\ LeftBehind => DrainedAtShutdown
  <2> SUFFICES ASSUME PInv, LeftBehind, \A w \in Worker : worker[w] = "exited"
               PROVE  /\ made \ (late \cup Pushing) \subseteq Published
                      /\ ToSet(work_queue) \subseteq late
    BY DEF DrainedAtShutdown
  <2>1. Held = {}
    BY DEF Held, Busy
  <2>2. ToSet(work_queue) \subseteq late
    BY PoolAssumption DEF LeftBehind
  <2> QED BY <2>1, <2>2 DEF PInv, Accounted, Counted
<1> QED BY <1>1, <1>2, LeftBehindStep, PoolInvariant, PTL DEF Spec

-----------------------------------------------------------------------------
(* The refinement of AsyncIO.                                              *)

LEMMA ToSetConcat ==
    ASSUME NEW S, NEW s \in Seq(S), NEW t \in Seq(S)
    PROVE  ToSet(s \o t) = ToSet(s) \cup ToSet(t)
<1>1. /\ s \o t \in Seq(S) /\ Len(s \o t) = Len(s) + Len(t)
      /\ \A i \in 1..Len(s) + Len(t) :
             (s \o t)[i] = IF i <= Len(s) THEN s[i] ELSE t[i - Len(s)]
  BY ConcatProperties
<1>2. /\ Len(s) \in Nat /\ Len(t) \in Nat
      /\ DOMAIN s = 1..Len(s) /\ DOMAIN t = 1..Len(t)
      /\ DOMAIN (s \o t) = 1..(Len(s) + Len(t))
  BY <1>1, LenProperties
<1>3. ASSUME NEW i \in 1..(Len(s) + Len(t)) PROVE (s \o t)[i] \in ToSet(s) \cup ToSet(t)
  <2>1. i <= Len(s) => i \in DOMAIN s
    BY <1>2
  <2>2. ~(i <= Len(s)) => i - Len(s) \in DOMAIN t
    BY <1>2
  <2> QED BY <1>1, <2>1, <2>2 DEF ToSet
<1>4. ASSUME NEW i \in 1..Len(s) PROVE s[i] \in ToSet(s \o t)
  <2>1. i \in 1..(Len(s) + Len(t)) /\ (s \o t)[i] = s[i]
    BY <1>1, <1>2
  <2> QED BY <1>2, <2>1 DEF ToSet
<1>5. ASSUME NEW i \in 1..Len(t) PROVE t[i] \in ToSet(s \o t)
  <2>1. i + Len(s) \in 1..(Len(s) + Len(t)) /\ ~(i + Len(s) <= Len(s)) /\ (i + Len(s)) - Len(s) = i
    BY <1>2
  <2>2. (s \o t)[i + Len(s)] = t[i]
    BY <1>1, <2>1
  <2> QED BY <1>2, <2>1, <2>2 DEF ToSet
<1> QED BY <1>2, <1>3, <1>4, <1>5 DEF ToSet

LEMMA HeadMoved ==
    ASSUME NEW S, NEW s \in Seq(S), NEW t \in Seq(S), t # <<>>
    PROVE  Append(s, Head(t)) \o Tail(t) = s \o t
<1>1. Head(t) \in S /\ Tail(t) \in Seq(S) /\ t = <<Head(t)>> \o Tail(t)
  BY ToSetTail, HeadTailProperties, SeqEqual, ConcatProperties
<1>2. <<Head(t)>> \in Seq(S) /\ Append(s, Head(t)) = s \o <<Head(t)>>
  BY <1>1, AppendIsConcat
<1>3. (s \o <<Head(t)>>) \o Tail(t) = s \o (<<Head(t)>> \o Tail(t))
  BY <1>1, <1>2, ConcatAssociative
<1> QED BY <1>1, <1>2, <1>3

LEMMA AppendMoved ==
    ASSUME NEW S, NEW s \in Seq(S), NEW t \in Seq(S), NEW x \in S
    PROVE  s \o Append(t, x) = Append(s \o t, x)
<1>1. s \o t \in Seq(S) /\ <<x>> \in Seq(S)
  BY ConcatProperties
<1>2. Append(t, x) = t \o <<x>> /\ Append(s \o t, x) = (s \o t) \o <<x>>
  BY <1>1, AppendIsConcat
<1>3. (s \o t) \o <<x>> = s \o (t \o <<x>>)
  BY <1>1, ConcatAssociative
<1> QED BY <1>2, <1>3

completions == callbacks \o completed_queue
delivered == Len(callbacks)

LEMMA RefinedStep ==
    ASSUME PInv, [Next]_vars
    PROVE  [AsyncSpec!Next]_<<made, completions, delivered>>
<1> USE DEF PInv
<1>0. callbacks \in Seq(Op) /\ completed_queue \in Seq(Op) /\ ToSet(completions) = Published
  BY ToSetConcat DEF TypeOK, Published, completions
<1>1. ASSUME NEW t \in Thread, NEW o \in Op, BeginSubmit(t, o) PROVE AsyncSpec!Submit(o)
  BY <1>1 DEF BeginSubmit, AsyncSpec!Submit
<1>2. ASSUME NEW w \in Worker, Publish(w) PROVE op[w] \in Op /\ AsyncSpec!Complete(op[w])
  <2>1. op[w] \in made \ Published /\ op[w] \in Op
    BY <1>2, PublishStep DEF TypeOK
  <2>2. completions' = Append(completions, op[w])
    BY <1>0, <1>2, <2>1, AppendMoved DEF Publish, historyVars, completions
  <2>3. AsyncSpec!ToSet(completions) = Published
    BY <1>0 DEF ToSet, AsyncSpec!ToSet
  <2> QED BY <1>0, <1>2, <2>1, <2>2, <2>3 DEF Publish, historyVars, AsyncSpec!Complete, completions
<1>3. CASE PopCompleted
  <2>1. completions' = completions
    BY <1>0, <1>3, HeadMoved DEF PopCompleted, RestCompleted, completions
  <2>2. Head(completed_queue) \in Op /\ Len(completed_queue) > 0 /\ Len(completed_queue) \in Nat
    BY <1>0, <1>3, ToSetTail, LenProperties DEF PopCompleted
  <2>3. delivered' = delivered + 1
    BY <1>0, <1>3, <2>2, AppendProperties DEF PopCompleted, delivered
  <2>4. delivered < Len(completions)
    BY <1>0, <2>2, ConcatProperties, LenProperties DEF delivered, completions
  <2>5. AsyncSpec!Deliver
    BY <1>3, <2>1, <2>3, <2>4 DEF PopCompleted, AsyncSpec!Deliver, completions, delivered
  <2> QED BY <2>5 DEF AsyncSpec!Next
<1>4. ASSUME NEW t \in Thread, Submission(t) PROVE UNCHANGED <<made, completions, delivered>>
  BY <1>4 DEF Submission, Push, NotifyOne, historyVars, completions, delivered
<1>5. ASSUME NEW w \in Worker,
             Exit(w) \/ Wait(w) \/ Take(w) \/ RunDone(w) \/ Decrement(w) \/ SpuriousWake(w)
      PROVE  UNCHANGED <<made, completions, delivered>>
  BY <1>5 DEF Exit, Wait, Take, RunDone, Decrement, SpuriousWake, historyVars,
              completions, delivered
<1>6. CASE BeginShutdown \/ NotifyAll \/ Join \/ UNCHANGED vars
  BY <1>6 DEF BeginShutdown, NotifyAll, Join, vars, historyVars, completions, delivered
<1>7. CASE BeginHasPending \/ EndHasPending
  BY <1>7 DEF BeginHasPending, EndHasPending, historyVars, completions, delivered
<1> QED BY <1>1, <1>2, <1>3, <1>4, <1>5, <1>6, <1>7
        DEF Next, WorkerStep, EndsByItself, EndsByPeer, AsyncSpec!Next

(* The pool implements the asynchronous I/O the script's thread is written *)
(* against: every operation completes once and is delivered once, in the   *)
(* order of completion.                                                    *)
THEOREM Implements == Spec => ImplementsAsyncIO
<1>1. Init => AsyncSpec!Init
  BY ConcatEmptySeq, EmptySeq DEF Init, AsyncSpec!Init
<1>2. PInv /\ [Next]_vars => [AsyncSpec!Next]_<<made, completions, delivered>>
  BY RefinedStep
<1> QED BY <1>1, <1>2, PoolInvariant, PTL
        DEF Spec, ImplementsAsyncIO, AsyncSpec!Spec, completions, delivered

-----------------------------------------------------------------------------
(* Every step of the server is a step of the pool, or leaves it alone. *)
LEMMA PoolStep == ASSUME [ServerNext]_allVars PROVE [Next]_vars
<1> USE PoolAssumption, ServerAssumption
<1>1. ASSUME NEW o \in Op, ScriptSubmits(o) PROVE Next
  BY <1>1 DEF ScriptSubmits, Next
<1>2. CASE ScriptTakes \/ YieldShutsDown \/ DestroyPool
  BY <1>2 DEF ScriptTakes, YieldShutsDown, DestroyPool, Next
<1>3. CASE PoolGoesOn \/ Outside
  BY <1>3 DEF PoolGoesOn, Outside, Next
<1>4. CASE Signal \/ ScriptEnds \/ PoolDestroyed \/ JoinAccept \/ AcceptWait
  BY <1>4 DEF Signal, ScriptEnds, PoolDestroyed, JoinAccept, AcceptWait
<1>5. CASE AcceptTop \/ AcceptSubmit
  BY <1>5 DEF AcceptTop, AcceptSubmit, Next
<1>6. CASE UNCHANGED allVars
  BY <1>6 DEF allVars
<1> QED BY <1>1, <1>2, <1>3, <1>4, <1>5, <1>6 DEF ServerNext, Destructor, AcceptLoop

(* The server implements the pool's specification. *)
THEOREM ServerIsPool == ServerSpec => Spec
<1>1. ServerInit => Init
  BY DEF ServerInit
<1> QED BY <1>1, PoolStep, PTL DEF ServerSpec, Spec

-----------------------------------------------------------------------------
(* No operation waits for its callback twice, nor after it was called. *)
CalledOnce ==
    /\ Distinct(completed_queue)
    /\ ToSet(completed_queue) \cap ToSet(callbacks) = {}

(* What a step of the pool does to the operations made and completed. *)
LEMMA CalledOnceStep ==
    ASSUME PInv, CalledOnce, [Next]_vars
    PROVE  CalledOnce' /\ Published \subseteq Published'
<1> USE DEF PInv
<1>1. ASSUME NEW w \in Worker, Publish(w) PROVE CalledOnce' /\ Published \subseteq Published'
  <2>1. op[w] \in Op /\ op[w] \notin Published
    BY <1>1, PublishStep DEF TypeOK
  <2>2. ToSet(completed_queue') = ToSet(completed_queue) \cup {op[w]}
    BY <1>1, <2>1, ToSetAppend DEF Publish, TypeOK
  <2>3. Distinct(completed_queue')
    BY <1>1, <2>1, DistinctAppend DEF Publish, TypeOK, CalledOnce, Published
  <2>4. callbacks' = callbacks
    BY <1>1 DEF Publish, historyVars
  <2> QED BY <2>1, <2>2, <2>3, <2>4 DEF CalledOnce, Published
<1>2. CASE PopCompleted
  <2>1. /\ Head(completed_queue) \in Op
        /\ ToSet(completed_queue) = {Head(completed_queue)} \cup ToSet(completed_queue')
        /\ Distinct(completed_queue') /\ Head(completed_queue) \notin ToSet(completed_queue')
    BY <1>2, ToSetTail DEF PopCompleted, RestCompleted, TypeOK, CalledOnce
  <2>2. ToSet(callbacks') = ToSet(callbacks) \cup {Head(completed_queue)}
    BY <1>2, <2>1, ToSetAppend DEF PopCompleted, TypeOK
  <2> QED BY <2>1, <2>2 DEF CalledOnce, Published
<1>3. CASE UNCHANGED <<completed_queue, callbacks>>
  BY <1>3 DEF CalledOnce, Published
<1>4. ASSUME NEW t \in Thread, Submission(t) \/ \E o \in Op : BeginSubmit(t, o)
      PROVE  UNCHANGED <<completed_queue, callbacks>>
  BY <1>4 DEF Submission, Push, NotifyOne, BeginSubmit, historyVars
<1>5. ASSUME NEW w \in Worker,
             Exit(w) \/ Wait(w) \/ Take(w) \/ RunDone(w) \/ Decrement(w) \/ SpuriousWake(w)
      PROVE  UNCHANGED <<completed_queue, callbacks>>
  BY <1>5 DEF Exit, Wait, Take, RunDone, Decrement, SpuriousWake, historyVars
<1>6. ASSUME BeginHasPending \/ EndHasPending \/ BeginShutdown \/ NotifyAll \/ Join \/ UNCHANGED vars
      PROVE  UNCHANGED <<completed_queue, callbacks>>
  BY <1>6 DEF BeginHasPending, EndHasPending, BeginShutdown, NotifyAll, Join, vars, historyVars
<1>7. ASSUME NEW w \in Worker, WorkerStep(w) \/ SpuriousWake(w) \/ EndsByPeer(w)
      PROVE  CalledOnce' /\ Published \subseteq Published'
  BY <1>1, <1>3, <1>5, <1>7 DEF WorkerStep, EndsByItself, EndsByPeer
<1> QED BY <1>2, <1>3, <1>4, <1>6, <1>7 DEF Next

(* No callback runs twice: what is queued for the script has not been      *)
(* taken yet, whatever the number of workers.                              *)
THEOREM NeverCalledTwice == Spec => []CalledOnce
<1>1. Init => CalledOnce
  BY ToSetEmpty DEF Init, CalledOnce, Distinct
<1> QED BY <1>1, CalledOnceStep, PoolInvariant, PTL DEF Spec

-----------------------------------------------------------------------------
(* Between its two tests has_pending() knows that every operation there    *)
(* was at the first has been queued: none was counted then, and an         *)
(* operation that is queued stays so until Main takes it.                  *)
Asked == asking => asked_of \subseteq Published

LEMMA AskedStep ==
    ASSUME PInv, Asked, Published \subseteq Published', [Next]_vars
    PROVE  Asked'
<1> USE DEF PInv
<1>1. CASE BeginHasPending
  <2>0. ~(pending_count > 0)
    BY <1>1, Zenon DEF BeginHasPending, Tests
  <2>1. pending_count = 0 /\ asked_of' = made
    BY <1>1, <2>0 DEF BeginHasPending, TypeOK
  <2>2. Counted = {}
    BY <2>1, CountedFinite, FS_EmptySet DEF PendingCounted, Counted
  <2> QED BY <2>1, <2>2 DEF Accounted, Asked
<1>2. CASE EndHasPending
  BY <1>2 DEF EndHasPending, Asked
<1>3. CASE UNCHANGED askVars
  BY <1>3 DEF askVars, Asked
<1>4. ASSUME NEW t \in Thread, Submission(t) \/ \E o \in Op : BeginSubmit(t, o)
      PROVE  UNCHANGED askVars
  BY <1>4 DEF Submission, Push, NotifyOne, BeginSubmit
<1>5. ASSUME NEW w \in Worker, WorkerStep(w) \/ SpuriousWake(w) \/ EndsByPeer(w)
      PROVE  UNCHANGED askVars
  BY <1>5 DEF WorkerStep, EndsByItself, EndsByPeer, Exit, Wait, Take, RunDone, Publish, Decrement,
              SpuriousWake
<1>6. ASSUME PopCompleted \/ BeginShutdown \/ NotifyAll \/ Join \/ UNCHANGED vars
      PROVE  UNCHANGED askVars
  BY <1>6 DEF PopCompleted, BeginShutdown, NotifyAll, Join, vars
<1> QED BY <1>1, <1>2, <1>3, <1>4, <1>5, <1>6 DEF Next

(* When has_pending() says no, the script has the answer of every          *)
(* operation that was submitted when it was called, whatever the other     *)
(* threads do between its two tests.                                       *)
THEOREM NeverHidden == Spec => []NothingHidden
<1>1. Init => Asked
  BY DEF Init, Asked
<1>2. Asked => NothingHidden
  BY ToSetEmpty DEF Asked, NothingHidden, Tests, Published
<1>3. PInv /\ CalledOnce /\ Asked /\ [Next]_vars => Asked'
  BY CalledOnceStep, AskedStep
<1> QED BY <1>1, <1>2, <1>3, PoolInvariant, NeverCalledTwice, PTL DEF Spec

-----------------------------------------------------------------------------
(* A flag once set stays set. *)
LEMMA FlagsStay == ASSUME [Next]_vars PROVE completed \subseteq completed'
<1>1. ASSUME NEW t \in Thread, Submission(t) \/ \E o \in Op : BeginSubmit(t, o)
      PROVE  completed' = completed
  BY <1>1 DEF Submission, Push, NotifyOne, BeginSubmit
<1>2. ASSUME NEW w \in Worker, WorkerStep(w) \/ SpuriousWake(w) \/ EndsByPeer(w)
      PROVE  completed \subseteq completed'
  BY <1>2 DEF WorkerStep, EndsByItself, EndsByPeer, Exit, Wait, Take, RunDone, Publish, Decrement,
              SpuriousWake
<1>3. ASSUME \/ PopCompleted \/ BeginHasPending \/ EndHasPending
             \/ BeginShutdown \/ NotifyAll \/ Join \/ UNCHANGED vars
      PROVE  completed' = completed
  BY <1>3 DEF PopCompleted, BeginHasPending, EndHasPending, BeginShutdown, NotifyAll, Join, vars
<1> QED BY <1>1, <1>2, <1>3 DEF Next

Accepting == (made \cap PollOp) \ completed

(* The accept thread starts once, with no accept under way; it submits the *)
(* next when the flag of the last one says that it has ended, and gives up *)
(* on it only on shutdown, after which it submits no other.                *)
AcceptInv ==
    /\ accept_loop \in {"none", "top", "submit", "wait", "ended"}
    /\ accept_loop # "none" => Listen \in ToSet(callbacks)
    /\ accept_loop = "none" => made \cap PollOp = {}
    /\ accept_loop = "top" => Accepting = {}
    /\ accept_loop \in {"submit", "wait"} => Accepting \subseteq {accept_op}
    /\ accept_loop = "ended" => \E o \in Op \cup {NoOp} : Accepting \subseteq {o}

ServerTypes ==
    /\ g_shutdown_requested \in BOOLEAN
    /\ accept_op \in PollOp \cup {NoOp}
    /\ program \in {"script", "pool", "join", "gone"}

(* The steps that submit nothing for the accept thread and leave its loop  *)
(* where it is.                                                            *)
LEMMA AcceptUntouched ==
    ASSUME PInv, AcceptInv, completed \subseteq completed', UNCHANGED <<accept_loop, accept_op>>,
           made' \cap PollOp = made \cap PollOp, ToSet(callbacks) \subseteq ToSet(callbacks')
    PROVE  AcceptInv'
<1>1. Accepting' \subseteq Accepting
  BY DEF Accepting
<1> QED BY <1>1 DEF AcceptInv

LEMMA AcceptStep ==
    ASSUME PInv, CalledOnce, completed \subseteq completed', AcceptInv, ServerTypes, [ServerNext]_allVars
    PROVE  AcceptInv'
<1> USE PoolAssumption, ServerAssumption
<1>1. CASE ScriptTakes
  <2>1. /\ Head(completed_queue) \in ToSet(completed_queue)
        /\ ToSet(callbacks') = ToSet(callbacks) \cup {Head(completed_queue)}
        /\ made' = made
    <3>1. Head(completed_queue) \in Op /\ Head(completed_queue) \in ToSet(completed_queue)
      BY <1>1, ToSetTail DEF ScriptTakes, PopCompleted, PInv, TypeOK
    <3> QED BY <1>1, <3>1, ToSetAppend DEF ScriptTakes, PopCompleted, PInv, TypeOK
  <2>2. CASE Head(completed_queue) = Listen
    <3>1. accept_loop = "none"
      BY <2>1, <2>2 DEF AcceptInv, CalledOnce
    <3>2. accept_loop' = "top" /\ Accepting' = {}
      BY <1>1, <2>1, <2>2, <3>1 DEF ScriptTakes, AcceptInv, Accepting
    <3> QED BY <2>1, <2>2, <3>2 DEF AcceptInv
  <2>3. CASE Head(completed_queue) # Listen
    BY <1>1, <2>1, <2>3, AcceptUntouched DEF ScriptTakes
  <2> QED BY <2>2, <2>3
<1>2. ASSUME NEW o \in Op, ScriptSubmits(o) PROVE AcceptInv'
  BY <1>2, AcceptUntouched DEF ScriptSubmits, BeginSubmit, serverVars
<1>3. CASE AcceptTop
  <2>1. CASE g_shutdown_requested
    <3>1. UNCHANGED vars /\ accept_loop' = "ended" /\ accept_loop = "top" /\ Accepting = {}
      BY <1>3, <2>1 DEF AcceptTop, AcceptInv
    <3>2. Accepting' = {} /\ callbacks' = callbacks
      BY <3>1 DEF vars, historyVars, Accepting
    <3> QED BY <3>1, <3>2 DEF AcceptInv
  <2>2. CASE ~g_shutdown_requested
    <3>1. PICK o \in PollOp : BeginSubmit(Acceptor, o) /\ accept_op' = o
      BY <1>3, <2>2 DEF AcceptTop
    <3>2. made' = made \cup {o} /\ callbacks' = callbacks
      BY <3>1 DEF BeginSubmit
    <3>3. Accepting' \subseteq {o}
      BY <1>3, <3>2 DEF AcceptTop, AcceptInv, Accepting
    <3>4. accept_loop = "top" /\ accept_loop' = "submit"
      BY <1>3, <2>2 DEF AcceptTop
    <3> QED BY <3>1, <3>2, <3>3, <3>4 DEF AcceptInv
  <2> QED BY <2>1, <2>2
<1>4. CASE AcceptSubmit
  <2>1. made' = made /\ callbacks' = callbacks /\ accept_op' = accept_op
    BY <1>4 DEF AcceptSubmit, Submission, Push, NotifyOne, historyVars
  <2>2. Accepting' \subseteq Accepting
    BY <2>1 DEF Accepting
  <2>3. accept_loop = "submit" /\ accept_loop' \in {"submit", "wait"}
    BY <1>4 DEF AcceptSubmit
  <2> QED BY <2>1, <2>2, <2>3 DEF AcceptInv
<1>5. CASE AcceptWait
  <2>1. /\ accept_loop = "wait" /\ UNCHANGED vars /\ accept_loop' \in {"ended", "top"}
        /\ accept_loop' = "top" => accept_op \in completed
    BY <1>5 DEF AcceptWait, Wakes
  <2>2. Accepting' = Accepting /\ callbacks' = callbacks /\ Accepting \subseteq {accept_op}
    BY <2>1 DEF vars, historyVars, Accepting, AcceptInv
  <2>3. accept_op \in Op \cup {NoOp}
    BY DEF ServerTypes
  <2>4. accept_loop' = "top" => Accepting' = {}
    BY <2>1, <2>2 DEF Accepting
  <2> QED BY <2>1, <2>2, <2>3, <2>4 DEF AcceptInv
<1>6. CASE Signal \/ ScriptEnds \/ PoolDestroyed \/ JoinAccept \/ UNCHANGED allVars
  BY <1>6, AcceptUntouched
     DEF Signal, ScriptEnds, PoolDestroyed, JoinAccept, allVars, serverVars, vars, historyVars
<1>7. CASE YieldShutsDown \/ DestroyPool
  BY <1>7, AcceptUntouched DEF YieldShutsDown, DestroyPool, BeginShutdown, serverVars, historyVars
<1>8. CASE PoolGoesOn \/ Outside
  <2>1. made' = made /\ callbacks' = callbacks /\ UNCHANGED serverVars
    BY <1>8 DEF PoolGoesOn, Outside, WorkerStep, EndsByItself, EndsByPeer, RunDone, Exit, Wait, Take,
                Publish, Decrement, SpuriousWake, Submission, Push, NotifyOne, NotifyAll, Join, historyVars
  <2> QED BY <2>1, AcceptUntouched DEF serverVars
<1> QED BY <1>1, <1>2, <1>3, <1>4, <1>5, <1>6, <1>7, <1>8 DEF ServerNext, Destructor, AcceptLoop

LEMMA ServerTypesStep == ASSUME ServerTypes, [ServerNext]_allVars PROVE ServerTypes'
<1> USE DEF ServerTypes
<1>1. CASE AcceptTop
  BY <1>1 DEF AcceptTop
<1>2. CASE AcceptSubmit \/ AcceptWait
  BY <1>2 DEF AcceptSubmit, AcceptWait
<1>3. CASE Signal \/ ScriptTakes \/ ScriptEnds \/ PoolDestroyed \/ JoinAccept
  BY <1>3 DEF Signal, ScriptTakes, ScriptEnds, PoolDestroyed, JoinAccept
<1>4. CASE UNCHANGED serverVars
  BY <1>4 DEF serverVars
<1>5. ASSUME \/ \E o \in Op : ScriptSubmits(o)
             \/ YieldShutsDown \/ DestroyPool \/ PoolGoesOn \/ Outside \/ UNCHANGED allVars
      PROVE  UNCHANGED serverVars
  BY <1>5 DEF ScriptSubmits, YieldShutsDown, DestroyPool, PoolGoesOn, Outside, allVars
<1> QED BY <1>1, <1>2, <1>3, <1>4, <1>5 DEF ServerNext, Destructor, AcceptLoop

THEOREM AcceptInvariant == ServerSpec => [](AcceptInv /\ ServerTypes)
<1>1. ServerInit => AcceptInv /\ ServerTypes
  BY DEF ServerInit, Init, AcceptInv, ServerTypes
<1>2. PInv /\ CalledOnce /\ AcceptInv /\ ServerTypes /\ [ServerNext]_allVars
        => (AcceptInv /\ ServerTypes)'
  BY PoolStep, FlagsStay, AcceptStep, ServerTypesStep
<1> QED BY <1>1, <1>2, ServerIsPool, PoolInvariant, NeverCalledTwice, PTL DEF ServerSpec

(* The types of the server's variables, the pool's among them. *)
THEOREM ServerTypeCorrect == ServerSpec => []ServerTypeOK
<1>1. PInv /\ AcceptInv /\ ServerTypes => ServerTypeOK
  BY DEF PInv, AcceptInv, ServerTypes, ServerTypeOK
<1> QED BY <1>1, ServerIsPool, PoolInvariant, AcceptInvariant, PTL

(* A listening socket never has two accepts that have not ended, however   *)
(* many connections come, whenever shutdown is asked for and however late  *)
(* the workers queue what they accepted.                                   *)
THEOREM OneAccept == ServerSpec => []OneAcceptAtATime
<1>1. AcceptInv => OneAcceptAtATime
  <2> SUFFICES ASSUME AcceptInv PROVE Cardinality(Accepting) <= 1
    BY DEF OneAcceptAtATime, Accepting
  <2>1. PICK o : Accepting \subseteq {o}
    BY DEF AcceptInv, Accepting
  <2>2. Accepting = {} \/ Accepting = {o}
    BY <2>1
  <2>3. Cardinality(Accepting) = 0 \/ Cardinality(Accepting) = 1
    BY <2>2, FS_EmptySet, FS_Singleton
  <2> QED BY <2>3
<1> QED BY <1>1, AcceptInvariant, PTL

=============================================================================
