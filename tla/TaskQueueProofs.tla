--------------------------- MODULE TaskQueueProofs ---------------------------
(* Theorems about TaskQueue, for every number of readers, every capacity   *)
(* and every set of tasks and agents.                                      *)
EXTENDS TaskQueue, FiniteSetTheorems, SequenceTheorems, WellFoundedInduction, TLAPS

(* Taking one entry out of a sequence leaves a sequence one shorter, with  *)
(* the entries behind it one place nearer.                                 *)
LEMMA RemoveAtProperties ==
  ASSUME NEW S, NEW s \in Seq(S), NEW i \in 1..Len(s)
  PROVE  /\ RemoveAt(s, i) \in Seq(S)
         /\ Len(RemoveAt(s, i)) = Len(s) - 1
         /\ \A j \in 1..(Len(s) - 1) : RemoveAt(s, i)[j] = IF j < i THEN s[j] ELSE s[j + 1]
<1> DEFINE pre == SubSeq(s, 1, i - 1)
           post == SubSeq(s, i + 1, Len(s))
<1>1. Len(s) \in Nat /\ \A j \in 1..Len(s) : s[j] \in S
  BY LenProperties, ElementOfSeq
<1>2. pre \in Seq(S) /\ Len(pre) = i - 1 /\ \A j \in 1..(i - 1) : pre[j] = s[j]
  <2>1. \A j \in 1..(i - 1) : s[j] \in S
    BY <1>1
  <2>2. /\ SubSeq(s, 1, i - 1) \in Seq(S)
        /\ Len(SubSeq(s, 1, i - 1)) = IF 1 <= i - 1 THEN (i - 1) - 1 + 1 ELSE 0
        /\ \A j \in 1..(i - 1 - 1 + 1) : SubSeq(s, 1, i - 1)[j] = s[1 + j - 1]
    BY <2>1, SubSeqProperties
  <2> QED  BY <2>2
<1>3. /\ post \in Seq(S) /\ Len(post) = Len(s) - i
      /\ \A j \in 1..(Len(s) - i) : post[j] = s[i + j]
  <2>1. \A j \in (i + 1)..Len(s) : s[j] \in S
    BY <1>1
  <2>2. /\ SubSeq(s, i + 1, Len(s)) \in Seq(S)
        /\ Len(SubSeq(s, i + 1, Len(s))) = IF i + 1 <= Len(s) THEN Len(s) - (i + 1) + 1 ELSE 0
        /\ \A j \in 1..(Len(s) - (i + 1) + 1) : SubSeq(s, i + 1, Len(s))[j] = s[i + 1 + j - 1]
    BY <1>1, <2>1, SubSeqProperties
  <2> QED  BY <1>1, <2>2
<1>4. /\ pre \o post \in Seq(S) /\ Len(pre \o post) = Len(pre) + Len(post)
      /\ \A j \in 1..(Len(pre) + Len(post)) :
           (pre \o post)[j] = IF j <= Len(pre) THEN pre[j] ELSE post[j - Len(pre)]
  BY <1>2, <1>3, ConcatProperties
<1>5. RemoveAt(s, i) = pre \o post
  BY DEF RemoveAt
<1> HIDE DEF pre, post
<1>6. Len(pre) + Len(post) = Len(s) - 1
  BY <1>1, <1>2, <1>3
<1>7. ASSUME NEW j \in 1..(Len(s) - 1) PROVE (pre \o post)[j] = IF j < i THEN s[j] ELSE s[j + 1]
  <2>1. CASE j < i
    BY <1>1, <1>2, <1>4, <1>6, <1>7, <2>1
  <2>2. CASE ~(j < i)
    <3>1. ~(j <= i - 1) /\ j - (i - 1) \in 1..(Len(s) - i) /\ i + (j - (i - 1)) = j + 1
      BY <1>1, <1>7, <2>2
    <3>2. (pre \o post)[j] = post[j - (i - 1)]
      BY <1>2, <1>4, <1>6, <1>7, <3>1
    <3>3. post[j - (i - 1)] = s[j + 1]
      BY <1>3, <3>1
    <3> QED  BY <2>2, <3>2, <3>3
  <2> QED  BY <2>1, <2>2
<1> QED  BY <1>4, <1>5, <1>6, <1>7

LEMMA ClassifyPriorityType ==
  ASSUME NEW metadata \in Metadata
  PROVE  ClassifyPriority(metadata) \in TaskPriority
BY DEF ClassifyPriority, TaskPriority, ESCALATION, FROM_SUPERIOR, CONSULTATION, BROADCAST

(* The counters of NoLostWakeup are numbers.                               *)
LEMMA NotifiedFinite ==
  IsFiniteSet(Notified) /\ Cardinality(Notified) \in Nat
<1>1. Notified \in SUBSET Consumers  BY DEF Notified
<1>2. IsFiniteSet(Notified)  BY <1>1, FS_Subset, ConsumersAssumption
<1> QED  BY <1>2, FS_CardinalityType

LEMMA TypeInit == Init => TypeOK
BY MaxBacklogAssumption, EmptySeq DEF Init, TypeOK, ConsumerStates

LEMMA TypeNext == TypeOK /\ [Next]_vars => TypeOK'
<1> SUFFICES ASSUME TypeOK, [Next]_vars PROVE TypeOK'
  OBVIOUS
<1>0. Len(queue) \in Nat  BY LenProperties DEF TypeOK
<1>1. ASSUME NEW id \in TaskIds, NEW md \in Metadata, Enqueue(id, md) PROVE TypeOK'
  <2> DEFINE e == [task_id |-> id, metadata |-> md, priority |-> ClassifyPriority(md)]
  <2>1. e \in QueuedTask  BY ClassifyPriorityType DEF QueuedTask
  <2>2. queue' = Append(queue, e)  BY <1>1 DEF Enqueue
  <2> HIDE DEF e
  <2>3. queue' \in Seq(QueuedTask) /\ Len(queue') = Len(queue) + 1
    BY <2>1, <2>2, AppendProperties DEF TypeOK
  <2>4. consumer' \in [Consumers -> ConsumerStates]
    BY <1>1 DEF Enqueue, Notify, TypeOK, ConsumerStates
  <2> QED  BY <1>0, <1>1, <2>3, <2>4, MaxBacklogAssumption DEF TypeOK, Enqueue, SizeAllowed
<1>2. ASSUME NEW c \in Consumers, NEW i \in DOMAIN queue, Pop(c, i) PROVE TypeOK'
  <2>1. i \in 1..Len(queue)  BY <1>2, LenProperties DEF TypeOK
  <2>2. RemoveAt(queue, i) \in Seq(QueuedTask) /\ Len(RemoveAt(queue, i)) = Len(queue) - 1
    BY <2>1, RemoveAtProperties DEF TypeOK
  <2>3. Len(queue) - 1 <= MaxBacklog
    BY <1>0, MaxBacklogAssumption DEF TypeOK
  <2> QED  BY <1>2, <2>2, <2>3 DEF TypeOK, Pop, ConsumerStates
<1>3. ASSUME NEW c \in Consumers, Wait(c) PROVE TypeOK'
  BY <1>3 DEF TypeOK, Wait, ConsumerStates
<1>4. CASE UNCHANGED vars
  BY <1>4 DEF TypeOK, vars
<1> QED  BY <1>1, <1>2, <1>3, <1>4 DEF Next, Dequeue

(* The queue holds well-formed entries and never more than max_backlog.    *)
THEOREM TypeCorrect == Spec => []TypeOK
BY TypeInit, TypeNext, PTL DEF Spec

(* With TypeOK the absence of lost wake-ups is inductive as it is.         *)
LEMMA WakeupInit == Init => NoLostWakeup
BY DEF Init, NoLostWakeup, Waiting

LEMMA WakeupNext == TypeOK /\ NoLostWakeup /\ [Next]_vars => NoLostWakeup'
<1> SUFFICES ASSUME TypeOK, NoLostWakeup, [Next]_vars, Waiting' # {}
             PROVE  Len(queue') <= Cardinality(Notified')
  BY DEF NoLostWakeup
<1>0. Len(queue) \in Nat  BY LenProperties DEF TypeOK
<1>f. IsFiniteSet(Notified) /\ Cardinality(Notified) \in Nat  BY NotifiedFinite
<1>1. ASSUME NEW id \in TaskIds, NEW md \in Metadata, Enqueue(id, md)
      PROVE  Len(queue') <= Cardinality(Notified')
  <2> DEFINE e == [task_id |-> id, metadata |-> md, priority |-> ClassifyPriority(md)]
  <2>1. e \in QueuedTask  BY ClassifyPriorityType DEF QueuedTask
  <2>2. queue' = Append(queue, e)  BY <1>1 DEF Enqueue
  <2> HIDE DEF e
  <2>3. Len(queue') = Len(queue) + 1  BY <2>1, <2>2, AppendProperties DEF TypeOK
  <2>4. Waiting # {}
    BY <1>1 DEF Enqueue, Notify, Waiting
  <2>5. PICK c \in Waiting : consumer' = [consumer EXCEPT ![c] = "notified"]
    BY <1>1, <2>4 DEF Enqueue, Notify
  <2>6. Notified' = Notified \cup {c} /\ c \notin Notified
    BY <2>5 DEF Notified, Waiting, TypeOK
  <2>7. Cardinality(Notified') = Cardinality(Notified) + 1
    BY <2>6, <1>f, FS_AddElement
  <2> QED  BY <1>0, <1>f, <2>3, <2>4, <2>7 DEF NoLostWakeup
<1>2. ASSUME NEW c \in Consumers, NEW i \in DOMAIN queue, Pop(c, i)
      PROVE  Len(queue') <= Cardinality(Notified')
  <2>1. Len(queue') = Len(queue) - 1
    <3>1. i \in 1..Len(queue)  BY <1>2, LenProperties DEF TypeOK
    <3> QED  BY <1>2, <3>1, RemoveAtProperties DEF TypeOK, Pop
  <2>2. Waiting # {}
    BY <1>2 DEF Pop, Waiting, TypeOK
  <2>3. Notified' = Notified \ {c}
    BY <1>2 DEF Pop, Notified, TypeOK
  <2>4. Cardinality(Notified') >= Cardinality(Notified) - 1
    BY <2>3, <1>f, FS_RemoveElement
  <2>5. Cardinality(Notified') \in Nat
    BY <2>3, <1>f, FS_RemoveElement, FS_CardinalityType
  <2> QED  BY <1>0, <1>f, <2>1, <2>2, <2>4, <2>5 DEF NoLostWakeup
<1>3. ASSUME NEW c \in Consumers, Wait(c)
      PROVE  Len(queue') <= Cardinality(Notified')
  <2>1. Len(queue') = 0  BY <1>3, EmptySeq DEF Wait
  <2>2. Notified' = Notified \ {c}
    BY <1>3 DEF Wait, Notified, TypeOK
  <2>3. Cardinality(Notified') \in Nat
    BY <2>2, <1>f, FS_RemoveElement, FS_CardinalityType
  <2> QED  BY <2>1, <2>3
<1>4. CASE UNCHANGED vars
  BY <1>4 DEF NoLostWakeup, vars, Waiting, Notified
<1> QED  BY <1>1, <1>2, <1>3, <1>4 DEF Next, Dequeue

(* No entry is stranded: if a reader waits, every entry of the queue has   *)
(* a notified reader that will come for it.                                *)
THEOREM WakeupsNotLost == Spec => []NoLostWakeup
BY WakeupInit, WakeupNext, TypeCorrect, PTL DEF Spec
-----------------------------------------------------------------------------
(* Induction over the natural numbers, for a property that is a set.       *)
LEMMA SetInduction ==
  ASSUME NEW S, 0 \in S, \A n \in Nat : n \in S => n + 1 \in S
  PROVE  Nat \subseteq S
<1> DEFINE R == OpToRel(<, Nat)
           T == Nat \ S
<1> SUFFICES ASSUME T # {} PROVE FALSE
  OBVIOUS
<1>1. IsWellFoundedOn(R, Nat)
  BY NatLessThanWellFounded
<1>2. \A x, y \in Nat : <<y, x>> \in R <=> y < x
  BY DEF OpToRel
<1>3. T \subseteq Nat
  OBVIOUS
<1> HIDE DEF R, T
<1>4. PICK n \in T : \A m \in T : ~(<<m, n>> \in R)
  BY <1>1, <1>3, WFMin
<1>5. n \in Nat /\ n \notin S /\ \A m \in Nat : m \notin S => ~(m < n)
  BY <1>2, <1>3, <1>4 DEF T
<1>6. n # 0 /\ n - 1 \in Nat /\ n - 1 < n /\ (n - 1) + 1 = n
  BY <1>5
<1> QED  BY <1>5, <1>6

-----------------------------------------------------------------------------
(* The entries of priority p among the first i of a queue s, for every i:  *)
(* the function that LaneOf applies to the length of the queue.            *)
Posted(e) == [task_id |-> e.task_id, metadata |-> e.metadata]
Entry == [task_id : TaskIds, metadata : Metadata]

LaneRule(f, s, p, n) ==
  [i \in 0..n |-> IF i = 0 THEN <<>>
                  ELSE IF s[i].priority = p THEN Append(f[i - 1], Posted(s[i])) ELSE f[i - 1]]
Lane(s, p) == CHOOSE f : f = LaneRule(f, s, p, Len(s))

LEMMA LaneExists ==
  ASSUME NEW s, NEW p
  PROVE  \A n \in Nat : \E f : f = LaneRule(f, s, p, n)
<1> DEFINE S == {n \in Nat : \E f : f = LaneRule(f, s, p, n)}
<1>1. 0 \in S
  <2> DEFINE f == [i \in 0..0 |-> <<>>]
  <2>1. f = LaneRule(f, s, p, 0)  BY DEF LaneRule
  <2> QED  BY <2>1
<1>2. ASSUME NEW n \in Nat, n \in S PROVE n + 1 \in S
  <2>1. PICK f : f = LaneRule(f, s, p, n)
    BY <1>2
  <2> DEFINE g == [i \in 0..(n + 1) |->
                     IF i = n + 1
                     THEN IF s[i].priority = p THEN Append(f[i - 1], Posted(s[i])) ELSE f[i - 1]
                     ELSE f[i]]
  <2>2. \A i \in 0..n : g[i] = f[i]
    OBVIOUS
  <2>3. \A i \in 0..n : f[i] = IF i = 0 THEN <<>>
          ELSE IF s[i].priority = p THEN Append(f[i - 1], Posted(s[i])) ELSE f[i - 1]
    BY <2>1 DEF LaneRule
  <2>4. ASSUME NEW i \in 0..(n + 1)
        PROVE  g[i] = IF i = 0 THEN <<>>
          ELSE IF s[i].priority = p THEN Append(g[i - 1], Posted(s[i])) ELSE g[i - 1]
    <3>1. CASE i = n + 1
      <4>1. i # 0 /\ i - 1 \in 0..n  BY <3>1
      <4> QED  BY <2>2, <3>1, <4>1
    <3>2. CASE i \in 0..n
      <4>1. i # 0 => i - 1 \in 0..n  BY <3>2
      <4>2. g[i] = f[i] /\ (i # 0 => g[i - 1] = f[i - 1])  BY <2>2, <3>2, <4>1
      <4> HIDE DEF g
      <4> QED  BY <2>3, <3>2, <4>2
    <3> QED  BY <3>1, <3>2
  <2>5. g = [i \in 0..(n + 1) |-> g[i]]
    OBVIOUS
  <2> HIDE DEF g
  <2>6. g = LaneRule(g, s, p, n + 1)
    BY <2>4, <2>5 DEF LaneRule
  <2> QED  BY <2>6
<1> HIDE DEF S
<1>3. Nat \subseteq S
  BY <1>1, <1>2, SetInduction
<1> QED  BY <1>3 DEF S

LEMMA LaneSteps ==
  ASSUME NEW s, NEW p, Len(s) \in Nat
  PROVE  /\ Lane(s, p)[0] = <<>>
         /\ \A i \in 1..Len(s) : Lane(s, p)[i] =
              IF s[i].priority = p THEN Append(Lane(s, p)[i - 1], Posted(s[i])) ELSE Lane(s, p)[i - 1]
<1> DEFINE f == Lane(s, p)
<1>1. f = LaneRule(f, s, p, Len(s))
  BY LaneExists DEF Lane
<1> HIDE DEF f
<1>2. \A i \in 0..Len(s) : f[i] = LaneRule(f, s, p, Len(s))[i]
  BY <1>1
<1>3. f[0] = <<>> /\ \A i \in 1..Len(s) : f[i] =
        IF s[i].priority = p THEN Append(f[i - 1], Posted(s[i])) ELSE f[i - 1]
  BY <1>2 DEF LaneRule
<1> QED  BY <1>3 DEF f

LEMMA LaneOfIsLane ==
  ASSUME NEW p
  PROVE  LaneOf(p) = Lane(queue, p)[Len(queue)]
BY DEF LaneOf, Lane, LaneRule, Posted

(* Lanes hold entries; a lane is empty as long as nothing of its priority  *)
(* has come.                                                               *)
LEMMA LaneType ==
  ASSUME NEW s \in Seq(QueuedTask), NEW p
  PROVE  \A i \in 0..Len(s) :
           /\ Lane(s, p)[i] \in Seq(Entry)
           /\ Lane(s, p)[i] = <<>> <=> \A j \in 1..i : s[j].priority # p
<1> DEFINE f == Lane(s, p)
           Good(i) == /\ f[i] \in Seq(Entry)
                      /\ f[i] = <<>> <=> \A j \in 1..i : s[j].priority # p
           S == {i \in Nat : i <= Len(s) => Good(i)}
<1>1. Len(s) \in Nat /\ \A j \in 1..Len(s) : s[j] \in QueuedTask
  BY LenProperties, ElementOfSeq
<1>2. f[0] = <<>> /\ \A i \in 1..Len(s) : f[i] =
        IF s[i].priority = p THEN Append(f[i - 1], Posted(s[i])) ELSE f[i - 1]
  BY <1>1, LaneSteps
<1> HIDE DEF f
<1>3. 0 \in S
  <2>1. <<>> \in Seq(Entry)
    BY EmptySeq
  <2>2. \A j \in 1..0 : s[j].priority # p
    OBVIOUS
  <2>3. f[0] = <<>>
    BY <1>2
  <2>4. Good(0)
    BY <2>1, <2>2, <2>3
  <2> HIDE DEF Good
  <2> QED  BY <2>4
<1>4. ASSUME NEW n \in Nat, n \in S PROVE n + 1 \in S
  <2> SUFFICES ASSUME n + 1 <= Len(s) PROVE Good(n + 1)
    OBVIOUS
  <2>1. n <= Len(s) /\ n + 1 \in 1..Len(s) /\ (n + 1) - 1 = n
    BY <1>1
  <2>2. f[n] \in Seq(Entry) /\ (f[n] = <<>> <=> \A j \in 1..n : s[j].priority # p)
    BY <1>4, <2>1
  <2>3. f[n + 1] = IF s[n + 1].priority = p THEN Append(f[n], Posted(s[n + 1])) ELSE f[n]
    BY <1>2, <2>1
  <2>4. Posted(s[n + 1]) \in Entry
    BY <1>1, <2>1 DEF Posted, Entry, QueuedTask
  <2>5. 1..(n + 1) = 1..n \cup {n + 1}
    OBVIOUS
  <2>6. CASE s[n + 1].priority = p
    <3>1. f[n + 1] \in Seq(Entry) /\ f[n + 1] # <<>>
      BY <2>2, <2>3, <2>4, <2>6, AppendProperties
    <3>2. ~\A j \in 1..(n + 1) : s[j].priority # p
      BY <2>5, <2>6
    <3> QED  BY <3>1, <3>2
  <2>7. CASE s[n + 1].priority # p
    BY <2>2, <2>3, <2>5, <2>7
  <2> QED  BY <2>6, <2>7
<1> HIDE DEF S
<1>5. Nat \subseteq S
  BY <1>3, <1>4, SetInduction
<1>6. ASSUME NEW i \in 0..Len(s) PROVE Good(i)
  BY <1>1, <1>5 DEF S
<1> QED  BY <1>6 DEF f

LEMMA LaneLengths ==
  ASSUME NEW s \in Seq(QueuedTask)
  PROVE  Len(Lane(s, 1)[Len(s)]) + Len(Lane(s, 2)[Len(s)])
         + Len(Lane(s, 3)[Len(s)]) + Len(Lane(s, 4)[Len(s)]) = Len(s)
<1> DEFINE L(p, i) == Len(Lane(s, p)[i])
           S == {i \in Nat : i <= Len(s) => L(1, i) + L(2, i) + L(3, i) + L(4, i) = i}
<1>1. Len(s) \in Nat /\ \A j \in 1..Len(s) : s[j].priority \in 1..4
  <2>1. \A j \in 1..Len(s) : s[j] \in QueuedTask
    BY ElementOfSeq
  <2> QED
    BY <2>1, LenProperties DEF QueuedTask, TaskPriority, ESCALATION, FROM_SUPERIOR,
                                CONSULTATION, BROADCAST
<1>2. \A p : L(p, 0) = 0
  BY <1>1, LaneSteps, EmptySeq
<1>3. \A p : \A i \in 0..Len(s) : L(p, i) \in Nat
  BY LaneType, LenProperties
<1>4. ASSUME NEW p, NEW i \in 1..Len(s)
      PROVE  L(p, i) = IF s[i].priority = p THEN L(p, i - 1) + 1 ELSE L(p, i - 1)
  <2>1. Lane(s, p)[i] = IF s[i].priority = p THEN Append(Lane(s, p)[i - 1], Posted(s[i]))
                        ELSE Lane(s, p)[i - 1]
    BY <1>1, LaneSteps
  <2>2. i - 1 \in 0..Len(s)
    BY <1>1
  <2>3. Lane(s, p)[i - 1] \in Seq(Entry)
    BY <2>2, LaneType
  <2>4. Posted(s[i]) \in Entry
    <3>1. s[i] \in QueuedTask
      BY ElementOfSeq
    <3> QED  BY <3>1 DEF Posted, Entry, QueuedTask
  <2> QED  BY <2>1, <2>3, <2>4, AppendProperties
<1> HIDE DEF L
<1>5. 0 \in S
  BY <1>2
<1>6. ASSUME NEW n \in Nat, n \in S PROVE n + 1 \in S
  <2> SUFFICES ASSUME n + 1 <= Len(s)
               PROVE  L(1, n + 1) + L(2, n + 1) + L(3, n + 1) + L(4, n + 1) = n + 1
    OBVIOUS
  <2>1. n <= Len(s) /\ n \in 0..Len(s) /\ n + 1 \in 1..Len(s) /\ (n + 1) - 1 = n
    BY <1>1
  <2>2. L(1, n) + L(2, n) + L(3, n) + L(4, n) = n
    BY <1>6, <2>1
  <2>3. ASSUME NEW p
        PROVE  /\ L(p, n) \in Nat
               /\ L(p, n + 1) = IF s[n + 1].priority = p THEN L(p, n) + 1 ELSE L(p, n)
    BY <1>3, <1>4, <2>1
  <2>4. /\ L(1, n) \in Nat /\ L(2, n) \in Nat /\ L(3, n) \in Nat /\ L(4, n) \in Nat
        /\ L(1, n + 1) = IF s[n + 1].priority = 1 THEN L(1, n) + 1 ELSE L(1, n)
        /\ L(2, n + 1) = IF s[n + 1].priority = 2 THEN L(2, n) + 1 ELSE L(2, n)
        /\ L(3, n + 1) = IF s[n + 1].priority = 3 THEN L(3, n) + 1 ELSE L(3, n)
        /\ L(4, n + 1) = IF s[n + 1].priority = 4 THEN L(4, n) + 1 ELSE L(4, n)
    BY <2>3
  <2>5. s[n + 1].priority \in {1, 2, 3, 4}
    BY <1>1, <2>1
  <2> QED  BY <2>2, <2>4, <2>5
<1> HIDE DEF S
<1>7. Nat \subseteq S
  BY <1>5, <1>6, SetInduction
<1>8. L(1, Len(s)) + L(2, Len(s)) + L(3, Len(s)) + L(4, Len(s)) = Len(s)
  BY <1>1, <1>7 DEF S
<1> QED  BY <1>8 DEF L

(* A new entry joins the lane of its priority, at the end.                 *)
LEMMA LaneOfAppend ==
  ASSUME NEW s \in Seq(QueuedTask), NEW e \in QueuedTask, NEW p
  PROVE  Lane(Append(s, e), p)[Len(s) + 1] =
           IF e.priority = p THEN Append(Lane(s, p)[Len(s)], Posted(e)) ELSE Lane(s, p)[Len(s)]
<1> DEFINE t == Append(s, e)
           f == Lane(s, p)
           g == Lane(t, p)
           S == {i \in Nat : i <= Len(s) => g[i] = f[i]}
<1>1. /\ Len(s) \in Nat /\ Len(t) = Len(s) + 1
      /\ \A i \in 1..Len(s) : t[i] = s[i]
      /\ t[Len(s) + 1] = e
  BY AppendProperties, LenProperties
<1> HIDE DEF t
<1>2. f[0] = <<>> /\ \A i \in 1..Len(s) : f[i] =
        IF s[i].priority = p THEN Append(f[i - 1], Posted(s[i])) ELSE f[i - 1]
  BY <1>1, LaneSteps
<1>3. g[0] = <<>> /\ \A i \in 1..(Len(s) + 1) : g[i] =
        IF t[i].priority = p THEN Append(g[i - 1], Posted(t[i])) ELSE g[i - 1]
  BY <1>1, LaneSteps
<1> HIDE DEF f, g
<1>4. 0 \in S
  BY <1>2, <1>3
<1>5. ASSUME NEW n \in Nat, n \in S PROVE n + 1 \in S
  <2> SUFFICES ASSUME n + 1 <= Len(s) PROVE g[n + 1] = f[n + 1]
    OBVIOUS
  <2>1. n <= Len(s) /\ n + 1 \in 1..Len(s) /\ n + 1 \in 1..(Len(s) + 1) /\ (n + 1) - 1 = n
    BY <1>1
  <2>2. g[n] = f[n] /\ t[n + 1] = s[n + 1]
    BY <1>1, <1>5, <2>1
  <2> QED  BY <1>2, <1>3, <2>1, <2>2
<1> HIDE DEF S
<1>6. Nat \subseteq S
  BY <1>4, <1>5, SetInduction
<1>7. g[Len(s)] = f[Len(s)]
  BY <1>1, <1>6 DEF S
<1>8. Len(s) + 1 \in 1..(Len(s) + 1) /\ (Len(s) + 1) - 1 = Len(s)
  BY <1>1
<1>9. g[Len(s) + 1] = IF e.priority = p THEN Append(f[Len(s)], Posted(e)) ELSE f[Len(s)]
  BY <1>1, <1>3, <1>7, <1>8
<1> QED  BY <1>9 DEF f, g, t

(* The oldest entry of a lane leaves at its front; an entry of another     *)
(* priority leaves the lane as it is.                                      *)
LEMMA LaneOfRemoveAt ==
  ASSUME NEW s \in Seq(QueuedTask), NEW i \in 1..Len(s), NEW p,
         s[i].priority = p => \A j \in 1..(i - 1) : s[j].priority # p
  PROVE  Lane(RemoveAt(s, i), p)[Len(s) - 1] =
           IF s[i].priority = p THEN Tail(Lane(s, p)[Len(s)]) ELSE Lane(s, p)[Len(s)]
<1> DEFINE t == RemoveAt(s, i)
           f == Lane(s, p)
           g == Lane(t, p)
           Rest(l) == IF s[i].priority = p THEN Tail(l) ELSE l
           Near(j) == j <= i - 1 => g[j] = f[j]
           Far(j) == j >= i - 1 => g[j] = Rest(f[j + 1])
           S == {j \in Nat : j <= Len(s) - 1 => Near(j) /\ Far(j)}
<1>1. /\ Len(s) \in Nat /\ i \in Nat /\ 1 <= i /\ i <= Len(s)
      /\ Len(t) = Len(s) - 1 /\ Len(t) \in Nat
      /\ \A j \in 1..(Len(s) - 1) : t[j] = IF j < i THEN s[j] ELSE s[j + 1]
  BY RemoveAtProperties, LenProperties
<1> HIDE DEF t
<1>2. f[0] = <<>> /\ \A j \in 1..Len(s) : f[j] =
        IF s[j].priority = p THEN Append(f[j - 1], Posted(s[j])) ELSE f[j - 1]
  BY <1>1, LaneSteps
<1>3. g[0] = <<>> /\ \A j \in 1..(Len(s) - 1) : g[j] =
        IF t[j].priority = p THEN Append(g[j - 1], Posted(t[j])) ELSE g[j - 1]
  BY <1>1, LaneSteps
<1>4. \A j \in 0..Len(s) : f[j] \in Seq(Entry) /\ (f[j] = <<>> <=> \A k \in 1..j : s[k].priority # p)
  BY LaneType
<1>5. ASSUME NEW j \in i..Len(s), s[i].priority = p PROVE f[j] # <<>>
  <2>1. j \in 0..Len(s) /\ i \in 1..j
    BY <1>1
  <2> QED  BY <1>4, <1>5, <2>1
<1> HIDE DEF f, g
<1>6. f[i - 1] = Rest(f[i])
  <2>1. i \in 1..Len(s) /\ i - 1 \in 0..Len(s)
    BY <1>1
  <2>2. CASE s[i].priority = p
    <3>1. f[i - 1] = <<>>
      BY <1>4, <2>1, <2>2
    <3>2. f[i] = Append(<<>>, Posted(s[i]))
      BY <1>2, <2>1, <2>2, <3>1
    <3>3. Tail(Append(<<>>, Posted(s[i]))) = <<>>
      BY EmptySeq, HeadTailAppend
    <3> QED  BY <2>2, <3>1, <3>2, <3>3
  <2>3. CASE s[i].priority # p
    BY <1>2, <2>1, <2>3
  <2> QED  BY <2>2, <2>3
<1>7. 0 \in S
  <2>1. 0 >= i - 1 => 1 = i
    BY <1>1
  <2> QED  BY <1>2, <1>3, <1>6, <2>1
<1>8. ASSUME NEW n \in Nat, n \in S PROVE n + 1 \in S
  <2> SUFFICES ASSUME n + 1 <= Len(s) - 1
               PROVE  /\ n + 1 <= i - 1 => g[n + 1] = f[n + 1]
                      /\ n + 1 >= i - 1 => g[n + 1] = Rest(f[n + 2])
    <3>1. (n + 1) + 1 = n + 2
      OBVIOUS
    <3> QED  BY <3>1
  <2>1. /\ n <= Len(s) - 1 /\ (n + 1) - 1 = n /\ (n + 2) - 1 = n + 1
        /\ n + 1 \in 1..(Len(s) - 1) /\ n + 1 \in 1..Len(s) /\ n + 2 \in 1..Len(s)
    BY <1>1
  <2>0. Near(n) /\ Far(n)
    <3> HIDE DEF Near, Far
    <3> QED  BY <1>8, <2>1
  <2>2. g[n + 1] = IF t[n + 1].priority = p THEN Append(g[n], Posted(t[n + 1])) ELSE g[n]
    BY <1>3, <2>1
  <2>3. CASE n + 1 <= i - 1
    <3>1. g[n] = f[n] /\ t[n + 1] = s[n + 1]
      <4>1. n <= i - 1 /\ n + 1 < i
        BY <1>1, <2>3
      <4> QED  BY <1>1, <2>0, <2>1, <4>1
    <3>2. g[n + 1] = f[n + 1]
      BY <1>2, <2>1, <2>2, <3>1
    <3>3. n + 1 >= i - 1 => n + 1 = i - 1 /\ n + 2 = i
      BY <1>1, <2>3
    <3> QED  BY <1>6, <3>2, <3>3
  <2>4. CASE n + 1 > i - 1
    <3>1. n >= i - 1 /\ ~(n + 1 < i) /\ ~(n + 1 <= i - 1) /\ n + 1 \in i..Len(s)
      BY <1>1, <2>1, <2>4
    <3>2. g[n] = Rest(f[n + 1]) /\ t[n + 1] = s[(n + 1) + 1]
      BY <1>1, <2>0, <2>1, <3>1
    <3>3. (n + 1) + 1 = n + 2
      OBVIOUS
    <3>4. f[n + 2] = IF s[n + 2].priority = p THEN Append(f[n + 1], Posted(s[n + 2])) ELSE f[n + 1]
      BY <1>2, <2>1
    <3>5. f[n + 1] \in Seq(Entry)
      BY <1>1, <1>4, <2>1
    <3>6. Rest(Append(f[n + 1], Posted(s[n + 2]))) = Append(Rest(f[n + 1]), Posted(s[n + 2]))
      <4>1. CASE s[i].priority = p
        BY <1>5, <3>1, <3>5, <4>1, HeadTailAppend
      <4>2. CASE s[i].priority # p
        BY <4>2
      <4> QED  BY <4>1, <4>2
    <3> HIDE DEF Rest
    <3>7. g[n + 1] = Rest(f[n + 2])
      BY <2>2, <3>2, <3>3, <3>4, <3>6
    <3> QED  BY <3>1, <3>7
  <2> QED  BY <1>1, <2>3, <2>4
<1> HIDE DEF S
<1>9. Nat \subseteq S
  BY <1>7, <1>8, SetInduction
<1>10. g[Len(s) - 1] = Rest(f[Len(s)])
  <2>1. Len(s) - 1 \in Nat /\ Len(s) - 1 >= i - 1 /\ (Len(s) - 1) + 1 = Len(s)
    BY <1>1
  <2>2. Len(s) - 1 \in S
    BY <1>9, <2>1
  <2>3. Far(Len(s) - 1)
    <3> HIDE DEF Near, Far
    <3> QED  BY <2>1, <2>2 DEF S
  <2> HIDE DEF Rest
  <2> QED  BY <2>1, <2>3
<1> QED  BY <1>10 DEF f, g, t

-----------------------------------------------------------------------------
(* The refinement.  Lanes is the function the mapping puts for "lane".     *)
Lanes == [p \in TaskPriority |-> LaneOf(p)]
Asking == {c \in Consumers : consumer[c] # "busy"}

LEMMA Priorities == TaskPriority = 1..4 /\ Inbox!Urgencies = 1..4
BY DEF TaskPriority, ESCALATION, FROM_SUPERIOR, CONSULTATION, BROADCAST, Inbox!Urgencies

LEMMA LanesAre ==
  /\ \A p \in 1..4 : Lanes[p] = Lane(queue, p)[Len(queue)]
  /\ \A p \in 1..4 : Lanes'[p] = Lane(queue', p)[Len(queue')]
<1>1. \A p \in 1..4 : Lanes[p] = LaneOf(p) /\ Lanes'[p] = LaneOf(p)'
  BY Priorities DEF Lanes
<1>2. ASSUME NEW p PROVE LaneOf(p)' = Lane(queue', p)[Len(queue')]
  BY DEF LaneOf, Lane, LaneRule, Posted
<1> QED  BY <1>1, <1>2, LaneOfIsLane

(* The most urgent entry first: a lane is empty exactly when the queue     *)
(* holds nothing of its priority.                                          *)
LEMMA LaneEmpty ==
  ASSUME TypeOK, NEW p \in 1..4
  PROVE  /\ Lanes[p] \in Seq(Entry)
         /\ Lanes[p] = <<>> <=> \A j \in DOMAIN queue : queue[j].priority # p
<1>1. queue \in Seq(QueuedTask) /\ DOMAIN queue = 1..Len(queue) /\ Len(queue) \in 0..Len(queue)
  BY LenProperties DEF TypeOK
<1>2. Lanes[p] = Lane(queue, p)[Len(queue)]
  BY LanesAre
<1>3. /\ Lane(queue, p)[Len(queue)] \in Seq(Entry)
      /\ Lane(queue, p)[Len(queue)] = <<>> <=> \A j \in 1..Len(queue) : queue[j].priority # p
  BY <1>1, LaneType
<1> QED  BY <1>1, <1>2, <1>3

LEMMA UrgencyIsPriority ==
  ASSUME NEW md \in Metadata
  PROVE  Inbox!Urgency(md) = ClassifyPriority(md)
BY DEF Inbox!Urgency, Inbox!Escalated, Inbox!FromSuperior, Inbox!Broadcast, ClassifyPriority,
       ESCALATION, FROM_SUPERIOR, CONSULTATION, BROADCAST

LEMMA InboxInit == Init => Inbox!Init
<1> SUFFICES ASSUME Init PROVE Inbox!Init
  OBVIOUS
<1>1. Len(queue) = 0 /\ queue = <<>>
  BY EmptySeq DEF Init
<1>2. \A p \in 1..4 : Lanes[p] = <<>>
  BY <1>1, LanesAre, LaneSteps
<1>3. Lanes = [p \in 1..4 |-> <<>>]
  BY <1>2, Priorities DEF Lanes
<1>4. {c \in Consumers : consumer[c] # "busy"} = {}
  BY DEF Init
<1> QED  BY <1>3, <1>4, Priorities DEF Inbox!Init, Lanes

LEMMA EnqueuePosts ==
  ASSUME TypeOK, NEW id \in TaskIds, NEW md \in Metadata, Enqueue(id, md)
  PROVE  Inbox!Post(id, md)
<1> DEFINE u == ClassifyPriority(md)
           e == [task_id |-> id, metadata |-> md, priority |-> u]
<1>1. e \in QueuedTask /\ e.priority = u /\ Posted(e) = [task_id |-> id, metadata |-> md]
  BY ClassifyPriorityType DEF QueuedTask, Posted
<1>2. queue' = Append(queue, e) /\ Len(queue) < MaxBacklog
  BY DEF Enqueue, SizeAllowed
<1>u. u \in 1..4
  BY ClassifyPriorityType, Priorities
<1> HIDE DEF e, u
<1>3. queue \in Seq(QueuedTask) /\ Len(queue') = Len(queue) + 1
  BY <1>1, <1>2, AppendProperties DEF TypeOK
<1>4. ASSUME NEW p \in 1..4
      PROVE  Lanes'[p] = IF p = u THEN Append(Lanes[p], [task_id |-> id, metadata |-> md])
                         ELSE Lanes[p]
  BY <1>1, <1>2, <1>3, LaneOfAppend, LanesAre
<1>5. Lanes' = [Lanes EXCEPT ![u] = Append(Lanes[u], [task_id |-> id, metadata |-> md])]
  <2>1. Lanes = [p \in 1..4 |-> Lanes[p]] /\ Lanes' = [p \in 1..4 |-> Lanes'[p]]
    BY Priorities DEF Lanes
  <2> QED  BY <1>4, <2>1
<1>6. Asking' = Asking
  BY DEF Enqueue, Notify, Waiting, TypeOK, Asking
<1>7. Len(Lanes[1]) + Len(Lanes[2]) + Len(Lanes[3]) + Len(Lanes[4]) = Len(queue)
  <2>1. /\ Lanes[1] = Lane(queue, 1)[Len(queue)] /\ Lanes[2] = Lane(queue, 2)[Len(queue)]
        /\ Lanes[3] = Lane(queue, 3)[Len(queue)] /\ Lanes[4] = Lane(queue, 4)[Len(queue)]
    BY LanesAre
  <2>2. Len(Lane(queue, 1)[Len(queue)]) + Len(Lane(queue, 2)[Len(queue)])
        + Len(Lane(queue, 3)[Len(queue)]) + Len(Lane(queue, 4)[Len(queue)]) = Len(queue)
    BY <1>3, LaneLengths
  <2> QED  BY <2>1, <2>2
<1>8. Inbox!Urgency(md) = u
  BY UrgencyIsPriority DEF u
<1> QED  BY <1>2, <1>5, <1>6, <1>7, <1>8 DEF Inbox!Post, Inbox!Backlog, Lanes, Asking

LEMMA PopTakes ==
  ASSUME TypeOK, NEW c \in Consumers, NEW i \in DOMAIN queue, Pop(c, i)
  PROVE  Inbox!Take(c)
<1> DEFINE u == queue[i].priority
<1>1. /\ queue \in Seq(QueuedTask) /\ DOMAIN queue = 1..Len(queue) /\ Len(queue) \in Nat
      /\ i \in 1..Len(queue)
  BY LenProperties DEF TypeOK
<1>2. \A j \in 1..Len(queue) : queue[j].priority \in 1..4
  <2>1. \A j \in 1..Len(queue) : queue[j] \in QueuedTask
    BY <1>1, ElementOfSeq
  <2> QED  BY <2>1, Priorities DEF QueuedTask
<1>3. queue' = RemoveAt(queue, i) /\ Len(queue') = Len(queue) - 1
  BY <1>1, RemoveAtProperties DEF Pop
<1>4. \A j \in 1..Len(queue) : \/ u < queue[j].priority
                               \/ u = queue[j].priority /\ i <= j
  <2>1. i \in HeapTop
    BY DEF Pop
  <2> QED  BY <1>1, <2>1 DEF HeapTop
<1>5. u \in 1..4
  BY <1>1, <1>2
<1>6. \A j \in 1..(i - 1) : queue[j].priority # u
  BY <1>1, <1>2, <1>4, <1>5
<1>7. ASSUME NEW p \in 1..4
      PROVE  Lanes'[p] = IF p = u THEN Tail(Lanes[p]) ELSE Lanes[p]
  <2>1. Lanes[p] = Lane(queue, p)[Len(queue)] /\ Lanes'[p] = Lane(queue', p)[Len(queue')]
    BY LanesAre
  <2>2. u = p => \A j \in 1..(i - 1) : queue[j].priority # p
    BY <1>6
  <2>3. Lane(RemoveAt(queue, i), p)[Len(queue) - 1]
          = IF u = p THEN Tail(Lane(queue, p)[Len(queue)]) ELSE Lane(queue, p)[Len(queue)]
    BY <1>1, <2>2, LaneOfRemoveAt
  <2> QED  BY <1>3, <2>1, <2>3
<1>8. Lanes[u] # <<>> /\ \A v \in 1..(u - 1) : Lanes[v] = <<>>
  <2>1. Lanes[u] # <<>>
    BY <1>1, <1>5, LaneEmpty
  <2>2. ASSUME NEW v \in 1..(u - 1) PROVE Lanes[v] = <<>>
    <3>1. v \in 1..4 /\ v < u
      BY <1>5
    <3>2. \A j \in 1..Len(queue) : queue[j].priority # v
      BY <1>2, <1>4, <1>5, <3>1
    <3> QED  BY <1>1, <3>1, <3>2, LaneEmpty
  <2> QED  BY <2>1, <2>2
<1> HIDE DEF u
<1>9. Lanes' = [Lanes EXCEPT ![u] = Tail(Lanes[u])]
  <2>1. Lanes = [p \in 1..4 |-> Lanes[p]] /\ Lanes' = [p \in 1..4 |-> Lanes'[p]]
    BY Priorities DEF Lanes
  <2> QED  BY <1>7, <2>1
<1>10. Asking' = Asking \ {c}
  BY DEF Pop, TypeOK, Asking
<1> QED  BY <1>5, <1>8, <1>9, <1>10, Priorities DEF Inbox!Take, Lanes, Asking

LEMMA WaitAsks ==
  ASSUME TypeOK, NEW c \in Consumers, Wait(c)
  PROVE  Inbox!Ask(c) \/ UNCHANGED <<Lanes, Asking>>
<1>1. queue = <<>> /\ DOMAIN queue = {} /\ queue' = queue
  BY LenProperties, EmptySeq DEF Wait, TypeOK
<1>2. Lanes' = Lanes
  <2>1. Lanes = [p \in 1..4 |-> Lanes[p]] /\ Lanes' = [p \in 1..4 |-> Lanes'[p]]
    BY Priorities DEF Lanes
  <2> QED  BY <1>1, <2>1, LanesAre
<1>3. \A p \in 1..4 : Lanes[p] = <<>>
  BY <1>1, LaneEmpty
<1>4. CASE consumer[c] = "busy"
  <2>1. c \notin Asking /\ Asking' = Asking \cup {c}
    BY <1>4 DEF Wait, TypeOK, Asking
  <2> QED  BY <1>2, <1>3, <2>1, Priorities DEF Inbox!Ask, Inbox!Empty, Lanes, Asking
<1>5. CASE consumer[c] # "busy"
  <2>1. Asking' = Asking
    BY <1>5 DEF Wait, TypeOK, Asking
  <2> QED  BY <1>2, <2>1
<1> QED  BY <1>4, <1>5

LEMMA InboxStep == TypeOK /\ [Next]_vars => [Inbox!Next]_(Inbox!vars)
<1> SUFFICES ASSUME TypeOK, [Next]_vars
             PROVE  Inbox!Next \/ UNCHANGED <<Lanes, Asking>>
  BY DEF Inbox!vars, Lanes, Asking
<1>1. ASSUME NEW id \in TaskIds, NEW md \in Metadata, Enqueue(id, md) PROVE Inbox!Next
  BY <1>1, EnqueuePosts DEF Inbox!Next
<1>2. ASSUME NEW c \in Consumers, NEW i \in DOMAIN queue, Pop(c, i) PROVE Inbox!Next
  BY <1>2, PopTakes DEF Inbox!Next
<1>3. ASSUME NEW c \in Consumers, Wait(c) PROVE Inbox!Next \/ UNCHANGED <<Lanes, Asking>>
  BY <1>3, WaitAsks DEF Inbox!Next
<1>4. CASE UNCHANGED vars
  BY <1>4 DEF vars, Lanes, LaneOf, Asking
<1> QED  BY <1>1, <1>2, <1>3, <1>4 DEF Next, Dequeue

(* Every step of the queue is a step of the inbox or invisible to it: what *)
(* is dequeued is the oldest entry of the most urgent kind that waits, a   *)
(* kind of sender is served first come first served, and no entry is taken *)
(* in once max_backlog of them wait.  (The inbox's fairness is left to     *)
(* TLC.)                                                                   *)
THEOREM InboxRefined == Spec => Inbox!Init /\ [][Inbox!Next]_(Inbox!vars)
BY InboxInit, InboxStep, TypeCorrect, PTL DEF Spec
=============================================================================
