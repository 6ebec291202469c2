-------------------------- MODULE SchedulerProofs --------------------------
(***************************************************************************)
(* Proofs about Scheduler for any number of CPUs, tasks and policy bands.  *)
(***************************************************************************)
EXTENDS Scheduler, SequenceTheorems, FiniteSetTheorems, WellFoundedInduction, TLAPS

-----------------------------------------------------------------------------
(* The band operations keep states and queues in agreement.                *)

RunTypes(st, pol, q) ==
    st \in [Ctx -> TaskState] /\ pol \in [Ctx -> Policy] /\ q \in [Policy -> Seq(Task)]

\* What RemoveAt leaves, by index: the elements before i, then those after it.
LEMMA RemoveAtProperties ==
    ASSUME NEW S, NEW s \in Seq(S), NEW i \in 1..Len(s)
    PROVE  /\ RemoveAt(s, i) \in Seq(S)
           /\ Len(RemoveAt(s, i)) = Len(s) - 1
           /\ \A j \in 1..(Len(s) - 1) :
                 RemoveAt(s, i)[j] = IF j < i THEN s[j] ELSE s[j + 1]
<1> DEFINE a == SubSeq(s, 1, i - 1)
           b == SubSeq(s, i + 1, Len(s))
<1>1. Len(s) \in Nat /\ i \in Int /\ \A j \in 1..Len(s) : s[j] \in S
  BY LenProperties
<1>2. /\ a \in Seq(S) /\ Len(a) = i - 1
      /\ \A j \in 1..(i - 1) : a[j] = s[j]
  <2>1. \A j \in 1..(i - 1) : s[j] \in S
    BY <1>1
  <2>2. /\ a \in Seq(S) /\ Len(a) = IF 1 <= i - 1 THEN (i - 1) - 1 + 1 ELSE 0
        /\ \A j \in 1..((i - 1) - 1 + 1) : a[j] = s[1 + j - 1]
    BY <1>1, <2>1, SubSeqProperties
  <2> QED BY <1>1, <2>2
<1>3. /\ b \in Seq(S) /\ Len(b) = Len(s) - i
      /\ \A j \in 1..(Len(s) - i) : b[j] = s[i + j]
  <2>1. \A j \in (i + 1)..Len(s) : s[j] \in S
    BY <1>1
  <2>2. /\ b \in Seq(S) /\ Len(b) = IF i + 1 <= Len(s) THEN Len(s) - (i + 1) + 1 ELSE 0
        /\ \A j \in 1..(Len(s) - (i + 1) + 1) : b[j] = s[(i + 1) + j - 1]
    BY <1>1, <2>1, SubSeqProperties
  <2> QED BY <1>1, <2>2
<1>4. /\ a \o b \in Seq(S) /\ Len(a \o b) = Len(a) + Len(b)
      /\ \A j \in 1..(Len(a) + Len(b)) :
            (a \o b)[j] = IF j <= Len(a) THEN a[j] ELSE b[j - Len(a)]
  BY <1>2, <1>3, ConcatProperties
<1> HIDE DEF a, b
<1>5. \A j \in 1..(Len(s) - 1) : (a \o b)[j] = IF j < i THEN s[j] ELSE s[j + 1]
  <2> TAKE j \in 1..(Len(s) - 1)
  <2>1. CASE j < i
    BY <1>1, <1>2, <1>3, <1>4, <2>1
  <2>2. CASE ~(j < i)
    <3>1. (a \o b)[j] = b[j - (i - 1)]
      BY <1>1, <1>2, <1>3, <1>4, <2>2
    <3>2. b[j - (i - 1)] = s[i + (j - (i - 1))]
      BY <1>1, <1>3, <2>2
    <3> QED BY <1>1, <2>2, <3>1, <3>2
  <2> QED BY <2>1, <2>2
<1>6. RemoveAt(s, i) = a \o b
  BY DEF a, b, RemoveAt
<1>7. Len(a) + Len(b) = Len(s) - 1
  BY <1>1, <1>2, <1>3
<1> QED BY <1>4, <1>5, <1>6, <1>7

\* rr_enqueue of a task that is not READY, with the state set to READY.
LEMMA EnqueueAgrees ==
    ASSUME NEW st, NEW pol, NEW q, RunTypes(st, pol, q), QueuesAgree(st, pol, q),
           NEW t \in Task, st[t] # "READY"
    PROVE  LET st2 == [st EXCEPT ![t] = "READY"]
               q2  == [q EXCEPT ![pol[t]] = Append(@, t)]
           IN  RunTypes(st2, pol, q2) /\ QueuesAgree(st2, pol, q2)
<1> DEFINE st2 == [st EXCEPT ![t] = "READY"]
           q2  == [q EXCEPT ![pol[t]] = Append(@, t)]
<1>0. t \in Ctx /\ Task \subseteq Ctx
  BY DEF Ctx
<1>1. pol[t] \in Policy /\ q[pol[t]] \in Seq(Task)
  BY <1>0 DEF RunTypes
<1>2. /\ Append(q[pol[t]], t) \in Seq(Task)
      /\ Len(Append(q[pol[t]], t)) = Len(q[pol[t]]) + 1
      /\ \A i \in 1..Len(q[pol[t]]) : Append(q[pol[t]], t)[i] = q[pol[t]][i]
      /\ Append(q[pol[t]], t)[Len(q[pol[t]]) + 1] = t
  BY <1>1, AppendProperties
<1>3. RunTypes(st2, pol, q2)
  BY <1>0, <1>1, <1>2 DEF RunTypes, TaskState
<1>4. \A p \in Policy : Len(q[p]) \in Nat /\ \A i \in 1..Len(q[p]) : q[p][i] \in Task
  BY LenProperties DEF RunTypes
<1>5. \A p \in Policy : \A i \in 1..Len(q[p]) : q[p][i] # t
  BY DEF QueuesAgree, QueuedAreReady
<1>6. /\ \A p \in Policy \ {pol[t]} : q2[p] = q[p]
      /\ q2[pol[t]] = Append(q[pol[t]], t)
      /\ st2[t] = "READY" /\ \A u \in Ctx \ {t} : st2[u] = st[u]
  BY <1>0, <1>1 DEF RunTypes
<1> HIDE DEF st2, q2
<1>7. QueuedAreReady(st2, pol, q2)
  <2> SUFFICES ASSUME NEW p \in Policy, NEW i \in 1..Len(q2[p])
               PROVE  st2[q2[p][i]] = "READY" /\ pol[q2[p][i]] = p
    BY DEF QueuedAreReady
  <2>1. CASE p # pol[t]
    BY <1>0, <1>4, <1>5, <1>6, <2>1 DEF QueuesAgree, QueuedAreReady
  <2>2. CASE p = pol[t] /\ i \in 1..Len(q[p])
    <3>1. q2[p][i] = q[p][i]
      BY <1>2, <1>6, <2>2
    <3> QED BY <1>0, <1>4, <1>5, <1>6, <2>2, <3>1 DEF QueuesAgree, QueuedAreReady
  <2>3. CASE p = pol[t] /\ i = Len(q[p]) + 1
    BY <1>2, <1>6, <2>3
  <2>4. p = pol[t] => i \in 1..Len(q[p]) \/ i = Len(q[p]) + 1
    BY <1>2, <1>4, <1>6
  <2> QED BY <2>1, <2>2, <2>3, <2>4
<1>8. QueuedOnce(q2)
  <2> SUFFICES ASSUME NEW p \in Policy, NEW i \in 1..Len(q2[p]), NEW j \in 1..Len(q2[p]),
                      q2[p][i] = q2[p][j]
               PROVE  i = j
    BY DEF QueuedOnce
  <2>1. CASE p # pol[t]
    BY <1>6, <2>1 DEF QueuesAgree, QueuedOnce
  <2>2. CASE p = pol[t]
    <3>1. Len(q2[p]) = Len(q[p]) + 1 /\ Len(q[p]) \in Nat
      BY <1>2, <1>4, <1>6, <2>2
    <3>2. \A k \in 1..Len(q[p]) : q2[p][k] = q[p][k] /\ q[p][k] # t
      BY <1>2, <1>5, <1>6, <2>2
    <3>3. q2[p][Len(q[p]) + 1] = t
      BY <1>2, <1>6, <2>2
    <3>4. i \in 1..Len(q[p]) \/ i = Len(q[p]) + 1
      BY <3>1
    <3>5. j \in 1..Len(q[p]) \/ j = Len(q[p]) + 1
      BY <3>1
    <3>6. CASE i \in 1..Len(q[p]) /\ j \in 1..Len(q[p])
      BY <3>2, <3>6 DEF QueuesAgree, QueuedOnce
    <3> QED BY <3>2, <3>3, <3>4, <3>5, <3>6
  <2> QED BY <2>1, <2>2
<1>9. ReadyAreQueued(st2, pol, q2)
  <2> SUFFICES ASSUME NEW u \in Task, st2[u] = "READY"
               PROVE  \E i \in 1..Len(q2[pol[u]]) : q2[pol[u]][i] = u
    BY DEF ReadyAreQueued
  <2>0. pol[u] \in Policy
    BY <1>0 DEF RunTypes
  <2>1. CASE u = t
    <3>1. Len(q[pol[t]]) + 1 \in 1..Len(q2[pol[t]])
      BY <1>1, <1>2, <1>4, <1>6
    <3> QED BY <1>2, <1>6, <2>1, <3>1
  <2>2. CASE u # t
    <3>1. PICK i \in 1..Len(q[pol[u]]) : q[pol[u]][i] = u
      BY <1>0, <1>6, <2>2 DEF QueuesAgree, ReadyAreQueued
    <3>2. CASE pol[u] = pol[t]
      BY <1>1, <1>2, <1>4, <1>6, <3>1, <3>2
    <3>3. CASE pol[u] # pol[t]
      BY <1>6, <2>0, <3>1, <3>3
    <3> QED BY <3>2, <3>3
  <2> QED BY <2>1, <2>2
<1> QED BY <1>3, <1>7, <1>8, <1>9 DEF QueuesAgree, st2, q2

\* A task that is not READY, or a context no band can hold, changes to another
\* state that is not READY.
LEMMA SetStateAgrees ==
    ASSUME NEW st, NEW pol, NEW q, RunTypes(st, pol, q), QueuesAgree(st, pol, q),
           NEW t \in Ctx, t \notin Task \/ st[t] # "READY",
           NEW x \in TaskState \ {"READY"}
    PROVE  LET st2 == [st EXCEPT ![t] = x]
           IN  RunTypes(st2, pol, q) /\ QueuesAgree(st2, pol, q)
<1> DEFINE st2 == [st EXCEPT ![t] = x]
<1>0. Task \subseteq Ctx
  BY DEF Ctx
<1>1. RunTypes(st2, pol, q)
  BY DEF RunTypes
<1>2. \A p \in Policy : \A i \in 1..Len(q[p]) : q[p][i] \in Task
  BY LenProperties DEF RunTypes
<1>3. st2[t] = x /\ \A u \in Ctx \ {t} : st2[u] = st[u]
  BY DEF RunTypes
<1> HIDE DEF st2
<1>4. \A p \in Policy : \A i \in 1..Len(q[p]) : q[p][i] # t
  BY <1>2 DEF QueuesAgree, QueuedAreReady
<1>5. QueuedAreReady(st2, pol, q)
  BY <1>0, <1>2, <1>3, <1>4 DEF QueuesAgree, QueuedAreReady
<1>6. ReadyAreQueued(st2, pol, q)
  BY <1>0, <1>3 DEF QueuesAgree, ReadyAreQueued
<1> QED BY <1>1, <1>5, <1>6 DEF QueuesAgree, st2

\* A task that is not READY changes its policy.
LEMMA SetPolicyAgrees ==
    ASSUME NEW st, NEW pol, NEW q, RunTypes(st, pol, q), QueuesAgree(st, pol, q),
           NEW t \in Task, st[t] # "READY", NEW x \in Policy
    PROVE  LET pol2 == [pol EXCEPT ![t] = x]
           IN  RunTypes(st, pol2, q) /\ QueuesAgree(st, pol2, q)
<1> DEFINE pol2 == [pol EXCEPT ![t] = x]
<1>0. Task \subseteq Ctx
  BY DEF Ctx
<1>1. RunTypes(st, pol2, q)
  BY DEF RunTypes
<1>2. \A p \in Policy : \A i \in 1..Len(q[p]) : q[p][i] \in Task
  BY LenProperties DEF RunTypes
<1>3. \A u \in Ctx \ {t} : pol2[u] = pol[u]
  BY DEF RunTypes
<1> HIDE DEF pol2
<1>4. \A p \in Policy : \A i \in 1..Len(q[p]) : q[p][i] # t
  BY <1>2 DEF QueuesAgree, QueuedAreReady
<1>5. QueuedAreReady(st, pol2, q)
  BY <1>0, <1>2, <1>3, <1>4 DEF QueuesAgree, QueuedAreReady
<1>6. ReadyAreQueued(st, pol2, q)
  BY <1>0, <1>3 DEF QueuesAgree, ReadyAreQueued
<1> QED BY <1>1, <1>5, <1>6 DEF QueuesAgree, pol2

\* r is the queue s without its element at index k.
IsWithout(r, s, k) ==
    /\ r \in Seq(Task) /\ Len(r) = Len(s) - 1
    /\ \A j \in 1..(Len(s) - 1) : r[j] = IF j < k THEN s[j] ELSE s[j + 1]

\* The task at index k of band p was READY in it, and with its state x and the
\* band r the queues still agree.
Taken(st, pol, q, p, k, x, r) ==
    /\ q[p][k] \in Task /\ st[q[p][k]] = "READY" /\ pol[q[p][k]] = p
    /\ RunTypes([st EXCEPT ![q[p][k]] = x], pol, [q EXCEPT ![p] = r])
    /\ QueuesAgree([st EXCEPT ![q[p][k]] = x], pol, [q EXCEPT ![p] = r])

\* Removing the task at index k of band p, with its state set to another one:
\* what rr_pick_next (k = 1) and rr_dequeue do.  r is the band without it.
LEMMA TakeAgrees ==
    ASSUME NEW st, NEW pol, NEW q, RunTypes(st, pol, q), QueuesAgree(st, pol, q),
           NEW p \in Policy, NEW k \in 1..Len(q[p]),
           NEW x \in TaskState \ {"READY"},
           NEW r, IsWithout(r, q[p], k)
    PROVE  Taken(st, pol, q, p, k, x, r)
<1> DEFINE t   == q[p][k]
           n   == Len(q[p])
           st2 == [st EXCEPT ![t] = x]
           q2  == [q EXCEPT ![p] = r]
           old(j) == IF j < k THEN j ELSE j + 1
<1>0. Task \subseteq Ctx
  BY DEF Ctx
<1>1. /\ \A b \in Policy : Len(q[b]) \in Nat /\ \A i \in 1..Len(q[b]) : q[b][i] \in Task
  BY LenProperties DEF RunTypes
<1>2. t \in Task /\ st[t] = "READY" /\ pol[t] = p
  BY <1>1 DEF QueuesAgree, QueuedAreReady
<1>3. RunTypes(st2, pol, q2)
  BY <1>0, <1>2 DEF RunTypes, IsWithout
<1>4. /\ st2[t] = x /\ \A u \in Ctx \ {t} : st2[u] = st[u]
      /\ q2[p] = r /\ \A b \in Policy \ {p} : q2[b] = q[b]
  BY <1>0, <1>2 DEF RunTypes
<1>5. n \in Nat /\ k \in 1..n /\ Len(r) = n - 1
  BY <1>1 DEF IsWithout
<1>6. \A j \in 1..(n - 1) : old(j) \in 1..n /\ old(j) # k /\ r[j] = q[p][old(j)]
  BY <1>5 DEF IsWithout
<1>7. \A i \in 1..n : q[p][i] = t => i = k
  BY DEF QueuesAgree, QueuedOnce
<1>8. \A b \in Policy \ {p} : \A i \in 1..Len(q[b]) : q[b][i] # t
  BY <1>2 DEF QueuesAgree, QueuedAreReady
<1>9. \A i \in 1..n : i # k => \E j \in 1..(n - 1) : old(j) = i
  <2> SUFFICES ASSUME NEW i \in 1..n, i # k PROVE \E j \in 1..(n - 1) : old(j) = i
    OBVIOUS
  <2>1. CASE i < k
    <3>1. i \in 1..(n - 1) /\ old(i) = i
      BY <1>5, <2>1
    <3> QED BY <3>1
  <2>2. CASE i > k
    <3>1. i - 1 \in 1..(n - 1) /\ old(i - 1) = i
      BY <1>5, <2>2
    <3> QED BY <3>1
  <2> QED BY <1>5, <2>1, <2>2
<1> HIDE DEF t, st2, q2, n, old
<1>10. QueuedAreReady(st2, pol, q2)
  <2> SUFFICES ASSUME NEW b \in Policy, NEW i \in 1..Len(q2[b])
               PROVE  st2[q2[b][i]] = "READY" /\ pol[q2[b][i]] = b
    BY DEF QueuedAreReady
  <2>1. CASE b # p
    BY <1>0, <1>1, <1>4, <1>8, <2>1 DEF QueuesAgree, QueuedAreReady
  <2>2. CASE b = p
    <3>1. i \in 1..(n - 1) /\ q2[b][i] = q[p][old(i)] /\ old(i) \in 1..n /\ old(i) # k
      BY <1>4, <1>5, <1>6, <2>2
    <3>2. q[p][old(i)] \in Task /\ q[p][old(i)] # t
      BY <1>1, <1>7, <3>1 DEF n
    <3>3. st[q[p][old(i)]] = "READY" /\ pol[q[p][old(i)]] = p
      BY <3>1 DEF QueuesAgree, QueuedAreReady, n
    <3> QED BY <1>0, <1>4, <2>2, <3>1, <3>2, <3>3
  <2> QED BY <2>1, <2>2
<1>11. QueuedOnce(q2)
  <2> SUFFICES ASSUME NEW b \in Policy, NEW i \in 1..Len(q2[b]), NEW j \in 1..Len(q2[b]),
                      q2[b][i] = q2[b][j]
               PROVE  i = j
    BY DEF QueuedOnce
  <2>1. CASE b # p
    BY <1>4, <2>1 DEF QueuesAgree, QueuedOnce
  <2>2. CASE b = p
    <3>1. i \in 1..(n - 1) /\ j \in 1..(n - 1) /\ q[p][old(i)] = q[p][old(j)]
          /\ old(i) \in 1..n /\ old(j) \in 1..n
      BY <1>4, <1>5, <1>6, <2>2
    <3>2. old(i) = old(j)
      BY <3>1 DEF QueuesAgree, QueuedOnce, n
    <3> QED BY <1>5, <3>1, <3>2 DEF old
  <2> QED BY <2>1, <2>2
<1>12. ReadyAreQueued(st2, pol, q2)
  <2> SUFFICES ASSUME NEW u \in Task, st2[u] = "READY"
               PROVE  \E i \in 1..Len(q2[pol[u]]) : q2[pol[u]][i] = u
    BY DEF ReadyAreQueued
  <2>1. u # t /\ st[u] = "READY" /\ pol[u] \in Policy
    BY <1>0, <1>2, <1>4 DEF RunTypes
  <2>2. PICK i \in 1..Len(q[pol[u]]) : q[pol[u]][i] = u
    BY <2>1 DEF QueuesAgree, ReadyAreQueued
  <2>3. CASE pol[u] # p
    BY <1>4, <2>1, <2>2, <2>3
  <2>4. CASE pol[u] = p
    <3>1. i \in 1..n /\ i # k
      BY <2>1, <2>2, <2>4 DEF t, n
    <3>2. PICK j \in 1..(n - 1) : old(j) = i
      BY <1>9, <3>1
    <3>3. q2[p][j] = u /\ j \in 1..Len(q2[p])
      BY <1>4, <1>5, <1>6, <2>2, <2>4, <3>2
    <3> QED BY <2>4, <3>3
  <2> QED BY <2>3, <2>4
<1> QED BY <1>2, <1>3, <1>10, <1>11, <1>12 DEF QueuesAgree, t, st2, q2, Taken

-----------------------------------------------------------------------------
(* Kernel-stack frames                                                     *)

KStacks == [Ctx -> Seq(Frame)]

\* A frame pushed on, popped from or replaced on top of a kernel stack leaves
\* kernel stacks.
LEMMA PushType ==
    ASSUME kstack \in KStacks, NEW t \in Ctx, NEW f \in Frame
    PROVE  Push(t, f) \in KStacks
  BY AppendProperties DEF KStacks, Push

\* Returning from the topmost frame.
LEMMA PopType ==
    ASSUME kstack \in KStacks, NEW t \in Ctx
    PROVE  Pop(t) \in KStacks
<1>1. kstack[t] \in Seq(Frame) /\ Len(kstack[t]) \in Nat
  BY LenProperties DEF KStacks
<1>2. \A i \in 1..(Len(kstack[t]) - 1) : kstack[t][i] \in Frame
  BY <1>1, LenProperties
<1>3. SubSeq(kstack[t], 1, Len(kstack[t]) - 1) \in Seq(Frame)
  BY <1>1, <1>2, SubSeqProperties
<1> QED BY <1>3 DEF KStacks, Pop

\* The topmost frame moving on to its next stage.
LEMMA BecomeType ==
    ASSUME kstack \in KStacks, NEW t \in Ctx, NEW f \in Frame, Top(t) # "body"
    PROVE  Become(t, f) \in KStacks
<1>1. kstack[t] \in Seq(Frame) /\ kstack[t] # <<>>
  BY DEF KStacks, Top
<1>2. Len(kstack[t]) \in 1..Len(kstack[t])
  BY <1>1, EmptySeq
<1>3. [kstack[t] EXCEPT ![Len(kstack[t])] = f] \in Seq(Frame)
  BY <1>1, <1>2, ExceptSeq
<1> QED BY <1>3 DEF KStacks, Become

\* What the operand of the topmost frame is.
LEMMA TopFrame ==
    ASSUME kstack \in KStacks, NEW t \in Ctx, Top(t) # "body"
    PROVE  /\ Top(t) = "finish" => TopTask(t) \in Ctx
           /\ Top(t) = "wake" => TopTask(t) = reaper
<1>1. kstack[t] \in Seq(Frame) /\ kstack[t] # <<>>
  BY DEF KStacks, Top
<1>2. Len(kstack[t]) \in 1..Len(kstack[t])
  BY <1>1, EmptySeq
<1>3. kstack[t][Len(kstack[t])] \in Frame
  BY <1>1, <1>2, LenProperties
<1> QED BY <1>1, <1>3 DEF Top, TopTask, Frame

\* The frames the actions push.
LEMMA PlainFrames ==
    /\ F("irq") \in Frame /\ F("exit") \in Frame /\ F("syscall") \in Frame
    /\ F("iret") \in Frame /\ F("signal") \in Frame /\ F("yield") \in Frame
    /\ F("dying") \in Frame /\ FOf("wake", reaper) \in Frame
    /\ \A t \in Ctx : FOf("finish", t) \in Frame
  BY DEF F, FOf, Frame

-----------------------------------------------------------------------------
(* The inductive invariant                                                 *)

IInv == TypeOK /\ RunQueueConsistent /\ HandoffExact /\ CurrentExact

\* The types of the cleanup queue.
QueueTypes ==
    /\ cleanup_head \in Ctx \cup {NULL} /\ cleanup_tail \in Ctx \cup {NULL}
    /\ cleanup_next \in [Ctx -> Ctx \cup {NULL}]
    /\ cleanup_pending \in Int /\ requeued \in BOOLEAN /\ cut_off \subseteq Task
LEMMA QueueTypesKept ==
    ASSUME IInv PROVE QueueTypes /\ (UNCHANGED queueVars => QueueTypes')
  BY DEF IInv, TypeOK, QueueTypes, queueVars
LEMMA PushTypes ==
    ASSUME QueueTypes, NEW z \in Ctx, cleanup_queue_push(z) PROVE QueueTypes'
<1>1. /\ cleanup_next' \in [Ctx -> Ctx \cup {NULL}]
      /\ cleanup_head' \in Ctx \cup {NULL} /\ cleanup_tail' \in Ctx \cup {NULL}
  BY DEF QueueTypes, cleanup_queue_push, LinkLast
<1>2. cleanup_pending' \in Int /\ cut_off' \subseteq Task
  BY DEF QueueTypes, cleanup_queue_push, Queued
<1>3. requeued' \in BOOLEAN
  BY Zenon DEF QueueTypes, cleanup_queue_push
<1> QED BY <1>1, <1>2, <1>3 DEF QueueTypes
LEMMA PopTypes ==
    ASSUME QueueTypes, cleanup_head # NULL, NEW d \in BOOLEAN, cleanup_queue_pop(d)
    PROVE  QueueTypes'
  BY DEF QueueTypes, cleanup_queue_pop

\* Initially only the reaper is queued and every CPU is in its bootstrap context.
LEMMA InitIInv == Init => IInv
<1> SUFFICES ASSUME Init PROVE IInv
  OBVIOUS
<1> USE ContextAssumption, BoundAssumption
<1>1. 1 \in Policy /\ 0 \in 0..(Quantum - 1)
  BY DEF Policy
<1>2. reaper \in Task /\ Task \subseteq Ctx
  BY DEF Task, Ctx
<1>3. <<reaper>> \in Seq(Task) /\ <<>> \in Seq(Task) /\ Len(<<reaper>>) = 1
      /\ Len(<<>>) = 0 /\ <<reaper>>[1] = reaper
  BY <1>2
<1>4. \A c \in CPU : boot[c] \in Ctx /\ idle[c] \in Ctx
  BY DEF Ctx
<1>5. boot \in [CPU -> Ctx]
  BY <1>4
<1>6. TypeOK
  <2>1. state \in [Ctx -> TaskState]
    BY DEF Init, TaskState
  <2>2. runq \in [Policy -> Seq(Task)]
    BY <1>3 DEF Init
  <2>3. kstack \in [Ctx -> Seq(Frame)]
    BY EmptySeq DEF Init
  <2>4. QueueTypes
    <3>1. requeued \in BOOLEAN
      BY Zenon DEF Init
    <3> QED BY <3>1 DEF Init, QueueTypes
  <2> QED BY <1>1, <1>5, <2>1, <2>2, <2>3, <2>4 DEF Init, TypeOK, Flags, Phase, QueueTypes
<1>7. RunQueueConsistent
  <2>1. \A p \in Policy : \A i \in 1..Len(runq[p]) : p = 1 /\ i = 1 /\ runq[p][i] = reaper
    BY <1>3 DEF Init
  <2>2. \A t \in Task : state[t] = "READY" => t = reaper
    BY <1>2 DEF Init
  <2>3. state[reaper] = "READY" /\ policy[reaper] = 1
    BY <1>2 DEF Init
  <2>4. runq[1] = <<reaper>>
    BY <1>1 DEF Init
  <2>5. QueuedAreReady(state, policy, runq)
    BY <2>1, <2>3 DEF QueuedAreReady
  <2>6. QueuedOnce(runq)
    BY <2>1 DEF QueuedOnce
  <2>7. \E i \in 1..Len(runq[1]) : runq[1][i] = reaper
    BY <1>3, <2>4
  <2>8. ReadyAreQueued(state, policy, runq)
    BY <2>2, <2>3, <2>7 DEF ReadyAreQueued
  <2> QED BY <2>5, <2>6, <2>8 DEF RunQueueConsistent, QueuesAgree
<1>8. HandoffExact
  <2> SUFFICES ASSUME NEW c \in CPU
               PROVE  HandoffExact!(c)
    BY DEF HandoffExact
  <2>1. scheduler_lock # c
    BY DEF Init
  <2>2. phase[c] = "run" /\ ~switch_lock_held[c] /\ switch_flags[c] = "zero"
        /\ previous_task[c] = NULL
    BY DEF Init
  <2> QED BY <2>1, <2>2
<1>9. CurrentExact
  BY DEF Init, CurrentExact
<1> QED BY <1>6, <1>7, <1>8, <1>9 DEF IInv

-----------------------------------------------------------------------------
(* Switching steps                                                         *)

\* Picking from queues that agree with the states: the picked task was READY
\* (or is this CPU's idle task), and marking it RUNNING keeps the agreement.
LEMMA PickAgrees ==
    ASSUME NEW c \in CPU, NEW st, NEW q, RunTypes(st, policy, q),
           QueuesAgree(st, policy, q), NEW p \in 0..Policies, PickBand(q, p)
    PROVE  LET nxt == scheduler_pick_next(c, q, p)
               st2 == [st EXCEPT ![nxt] = "RUNNING"]
           IN  /\ nxt \in Ctx
               /\ nxt = idle[c] \/ (nxt \in Task /\ st[nxt] = "READY")
               /\ RunTypes(st2, policy, AfterPick(q, p))
               /\ QueuesAgree(st2, policy, AfterPick(q, p))
<1> DEFINE nxt == scheduler_pick_next(c, q, p)
<1>0. "RUNNING" \in TaskState \ {"READY"}
  BY DEF TaskState
<1>1. CASE p = 0
  <2>1. nxt = idle[c] /\ AfterPick(q, p) = q
    BY <1>1 DEF scheduler_pick_next, AfterPick
  <2>2. idle[c] \in Ctx /\ idle[c] \notin Task
    BY ContextAssumption DEF Ctx
  <2>3. RunTypes([st EXCEPT ![idle[c]] = "RUNNING"], policy, q)
        /\ QueuesAgree([st EXCEPT ![idle[c]] = "RUNNING"], policy, q)
    BY <1>0, <2>2, SetStateAgrees
  <2> QED BY <2>1, <2>2, <2>3
<1>2. CASE p # 0
  <2>1. p \in Policy /\ q[p] \in Seq(Task) /\ q[p] # <<>>
    BY <1>2 DEF Policy, PickBand, RunTypes
  <2>2. Len(q[p]) \in Nat \ {0} /\ Head(q[p]) = q[p][1] /\ 1 \in 1..Len(q[p])
    BY <2>1, EmptySeq
  <2>3. /\ Tail(q[p]) \in Seq(Task) /\ Len(Tail(q[p])) = Len(q[p]) - 1
        /\ \A i \in 1..Len(Tail(q[p])) : Tail(q[p])[i] = q[p][i + 1]
    BY <2>1, HeadTailProperties
  <2>4. \A j \in 1..(Len(q[p]) - 1) :
            Tail(q[p])[j] = IF j < 1 THEN q[p][j] ELSE q[p][j + 1]
    BY <2>2, <2>3
  <2>5. /\ q[p][1] \in Task /\ st[q[p][1]] = "READY"
        /\ RunTypes([st EXCEPT ![q[p][1]] = "RUNNING"], policy, [q EXCEPT ![p] = Tail(q[p])])
        /\ QueuesAgree([st EXCEPT ![q[p][1]] = "RUNNING"], policy, [q EXCEPT ![p] = Tail(q[p])])
    <3>1. IsWithout(Tail(q[p]), q[p], 1)
      BY <2>3, <2>4 DEF IsWithout
    <3>2. Taken(st, policy, q, p, 1, "RUNNING", Tail(q[p]))
      BY <1>0, <2>1, <2>2, <3>1, TakeAgrees
    <3> QED BY <3>2 DEF Taken
  <2>6. nxt = q[p][1] /\ AfterPick(q, p) = [q EXCEPT ![p] = Tail(q[p])]
    BY <1>2, <2>2 DEF scheduler_pick_next, AfterPick
  <2>7. Task \subseteq Ctx
    BY DEF Ctx
  <2> QED BY <2>5, <2>6, <2>7
<1> QED BY <1>1, <1>2

\* The hand-over that begins a switch to a task no CPU is running.
LEMMA BeginSwitchIInv ==
    ASSUME IInv, NEW c \in CPU, phase[c] = "run", LockFree,
           NEW nxt \in Ctx, NEW flags \in {"if0", "if1"},
           BeginSwitch(c, nxt, flags),
           nxt \in Task \cup {idle[c]},
           \A d \in CPU : current_task[d] # nxt,
           RunTypes(state', policy', runq'), QueuesAgree(state', policy', runq'),
           state'[nxt] = "RUNNING",
           \A d \in CPU \ {c} : state'[current_task[d]] = state[current_task[d]],
           preempt_restore_flags' \in [CPU -> Flags], kstack' \in KStacks,
           QueueTypes', cleanup_count' \in Nat, reaper_waits' \in BOOLEAN
    PROVE  IInv'
<1>1. TypeOK'
  <2>1. elapsed_ticks' \in [Policy -> 0..(Quantum - 1)]
    <3>1. elapsed_ticks \in [Policy -> 0..(Quantum - 1)] /\ 0 \in 0..(Quantum - 1)
      BY BoundAssumption DEF IInv, TypeOK
    <3>2. elapsed_ticks' = elapsed_ticks
          \/ elapsed_ticks' = [elapsed_ticks EXCEPT ![policy[nxt]] = 0]
      BY DEF BeginSwitch, NotifySwitchIn
    <3> QED BY <3>1, <3>2
  <2>2. /\ scheduler_lock' \in CPU \cup {NULL}
        /\ current_task' \in [CPU -> Ctx] /\ previous_task' \in [CPU -> Ctx \cup {NULL}]
        /\ switch_lock_held' \in [CPU -> BOOLEAN] /\ switch_flags' \in [CPU -> Flags]
    BY DEF IInv, TypeOK, BeginSwitch, HoldLock, Cur, Flags
  <2>3. /\ reschedule_pending' \in [CPU -> BOOLEAN] /\ preemption_enabled' \in [CPU -> BOOLEAN]
        /\ stack' \in [CPU -> Ctx] /\ intr' \in [CPU -> BOOLEAN] /\ phase' \in [CPU -> Phase]
    BY DEF IInv, TypeOK, BeginSwitch, Phase
  <2> QED BY <2>1, <2>2, <2>3 DEF TypeOK, RunTypes, KStacks, QueueTypes
<1>2. RunQueueConsistent'
  BY DEF RunQueueConsistent
<1>3. HandoffExact'
  <2> SUFFICES ASSUME NEW d \in CPU PROVE HandoffExact!(d)'
    BY DEF HandoffExact
  <2>1. CASE d = c
    <3>1. current_task[c] # NULL
      BY ContextAssumption DEF IInv, TypeOK
    <3> QED BY <2>1, <3>1 DEF BeginSwitch, HoldLock, IInv, TypeOK, Cur
  <2>2. CASE d # c
    <3>1. scheduler_lock # d
      BY ContextAssumption DEF LockFree
    <3>2. /\ phase'[d] = phase[d] /\ switch_lock_held'[d] = switch_lock_held[d]
          /\ switch_flags'[d] = switch_flags[d] /\ previous_task'[d] = previous_task[d]
          /\ scheduler_lock' = c
      BY <2>2 DEF BeginSwitch, HoldLock, IInv, TypeOK
    <3> QED BY <2>2, <3>1, <3>2 DEF IInv, HandoffExact
  <2> QED BY <2>1, <2>2
<1>4. CurrentExact'
  <2>0. /\ current_task' = [current_task EXCEPT ![c] = nxt] /\ stack' = stack
        /\ phase' = [phase EXCEPT ![c] = "switch"]
        /\ previous_task' = [previous_task EXCEPT ![c] = current_task[c]]
    BY DEF BeginSwitch, Cur
  <2>1. /\ current_task'[c] = nxt /\ phase'[c] = "switch"
        /\ previous_task'[c] = current_task[c] /\ stack[c] = current_task[c]
    BY <2>0 DEF IInv, TypeOK, CurrentExact
  <2>2. \A d \in CPU \ {c} : /\ current_task'[d] = current_task[d] /\ phase'[d] = phase[d]
                             /\ previous_task'[d] = previous_task[d]
                             /\ phase[d] # "switch"
    BY <2>0, ContextAssumption DEF IInv, TypeOK, HandoffExact, LockFree
  <2>3. \A d \in CPU : current_task'[d] # current_task[c]
    BY <2>1, <2>2 DEF IInv, CurrentExact
  <2>4. \A d, e \in CPU : d # e => current_task'[d] # current_task'[e]
    BY <2>1, <2>2 DEF IInv, CurrentExact
  <2> SUFFICES ASSUME NEW d \in CPU PROVE CurrentExact!(d)'
    BY DEF CurrentExact
  <2>5. CASE d = c
    BY <2>0, <2>1, <2>3, <2>4, <2>5
  <2>6. CASE d # c
    <3>1. state'[current_task[d]] = state[current_task[d]]
      BY <2>6
    <3> QED BY <2>0, <2>2, <2>4, <2>6, <3>1 DEF IInv, CurrentExact
  <2> QED BY <2>5, <2>6
<1> QED BY <1>1, <1>2, <1>3, <1>4 DEF IInv

\* scheduler_schedule preserves the invariant.
LEMMA ScheduleIInv ==
    ASSUME IInv, NEW c \in CPU, NEW flags \in {"if0", "if1"}, NEW prf \in Flags,
           NEW ks \in KStacks, phase[c] = "run", scheduler_schedule(c, flags, prf, ks)
    PROVE  IInv'
<1> DEFINE cur == current_task[c]
           requeue == cur \in Task /\ state[cur] = "RUNNING"
           q   == IF requeue THEN rr_enqueue(runq, cur) ELSE runq
           st  == IF requeue THEN [state EXCEPT ![cur] = "READY"] ELSE state
<1>0. RunTypes(state, policy, runq) /\ QueuesAgree(state, policy, runq) /\ cur \in Ctx
  BY DEF IInv, TypeOK, RunQueueConsistent, RunTypes
<1>1. RunTypes(st, policy, q) /\ QueuesAgree(st, policy, q)
  <2>1. CASE requeue
    BY <1>0, <2>1, EnqueueAgrees DEF rr_enqueue
  <2>2. CASE ~requeue
    BY <1>0, <2>2
  <2> QED BY <2>1, <2>2
<1>2. \A u \in Ctx \ {cur} : st[u] = state[u]
  BY <1>0 DEF RunTypes
<1>3. PICK p \in 0..Policies :
        LET nxt == scheduler_pick_next(c, q, p) IN
        /\ LockFree /\ PickBand(q, p) /\ runq' = AfterPick(q, p)
        /\ state' = [st EXCEPT ![nxt] = "RUNNING"] /\ kstack' = ks /\ UNCHANGED cleanVars
        /\ \/ /\ nxt = cur
              /\ NotifySwitchIn(c, nxt)
              /\ reschedule_pending' = [reschedule_pending EXCEPT ![c] = FALSE]
              /\ preempt_restore_flags' = [preempt_restore_flags EXCEPT ![c] = prf]
              /\ intr' = [intr EXCEPT ![c] = (flags = "if1")]
              /\ UNCHANGED <<policy, handVars, switch_flags, preemption_enabled>>
           \/ /\ nxt # cur
              /\ \E fl \in {switch_flags[c], prf, flags} : fl # "zero" /\ BeginSwitch(c, nxt, fl)
              /\ preempt_restore_flags' \in [CPU -> Flags]
  <2>1. preempt_restore_flags \in [CPU -> Flags] /\ "zero" \in Flags /\ flags # "zero"
    BY DEF IInv, TypeOK, Flags
  <2> QED BY <2>1, ZenonT(60) DEF scheduler_schedule, Requeues, Cur
<1> HIDE DEF q, st, requeue
<1>a. PICK nxt : nxt = scheduler_pick_next(c, q, p)
  OBVIOUS
<1>4. /\ nxt \in Ctx /\ (nxt = idle[c] \/ (nxt \in Task /\ st[nxt] = "READY"))
      /\ RunTypes(state', policy, runq') /\ QueuesAgree(state', policy, runq')
  <2>1. PickBand(q, p) /\ state' = [st EXCEPT ![nxt] = "RUNNING"] /\ runq' = AfterPick(q, p)
    BY <1>3, <1>a
  <2> QED BY <1>1, <1>a, <2>1, PickAgrees
<1>5. policy' = policy /\ QueueTypes' /\ cleanup_count' \in Nat
      /\ reaper_waits' \in BOOLEAN
  BY <1>3, QueueTypesKept DEF BeginSwitch, cleanVars, IInv, TypeOK
<1>6. \A d \in CPU \ {c} : current_task[d] # nxt
  <2> SUFFICES ASSUME NEW d \in CPU \ {c} PROVE current_task[d] # nxt
    OBVIOUS
  <2>1. current_task[d] # cur /\ current_task[d] \in Ctx
    BY DEF IInv, TypeOK, CurrentExact
  <2>2. current_task[d] \in Task => st[current_task[d]] # "READY"
    BY <1>2, <2>1 DEF IInv, CurrentExact
  <2>3. current_task[d] # idle[c]
    BY ContextAssumption DEF IInv, CurrentExact
  <2> QED BY <1>4, <2>2, <2>3
<1>7. \A d \in CPU \ {c} : state'[current_task[d]] = state[current_task[d]]
  <2>1. state' = [st EXCEPT ![nxt] = "RUNNING"]
    BY <1>3, <1>a
  <2>2. \A d \in CPU \ {c} : current_task[d] \in Ctx \ {cur}
    BY DEF IInv, TypeOK, CurrentExact
  <2> QED BY <1>1, <1>2, <1>6, <2>1, <2>2 DEF RunTypes
<1>8. state'[nxt] = "RUNNING" /\ nxt \in Task \cup {idle[c]}
  BY <1>1, <1>3, <1>4, <1>a DEF RunTypes
<1>9. CASE nxt = cur
  <2>0. /\ NotifySwitchIn(c, nxt) /\ kstack' = ks
        /\ reschedule_pending' = [reschedule_pending EXCEPT ![c] = FALSE]
        /\ preempt_restore_flags' = [preempt_restore_flags EXCEPT ![c] = prf]
        /\ intr' = [intr EXCEPT ![c] = (flags = "if1")]
        /\ UNCHANGED <<policy, handVars, switch_flags, preemption_enabled>>
    BY <1>3, <1>a, <1>9
  <2>1. TypeOK'
    <3>1. elapsed_ticks' \in [Policy -> 0..(Quantum - 1)]
      <4>1. elapsed_ticks \in [Policy -> 0..(Quantum - 1)] /\ 0 \in 0..(Quantum - 1)
        BY BoundAssumption DEF IInv, TypeOK
      <4>2. elapsed_ticks' = elapsed_ticks
            \/ elapsed_ticks' = [elapsed_ticks EXCEPT ![policy[nxt]] = 0]
        BY <2>0 DEF NotifySwitchIn
      <4> QED BY <4>1, <4>2
    <3>2. /\ reschedule_pending' \in [CPU -> BOOLEAN] /\ intr' \in [CPU -> BOOLEAN]
          /\ preempt_restore_flags' \in [CPU -> Flags]
      BY <2>0 DEF IInv, TypeOK
    <3> QED BY <1>4, <1>5, <2>0, <3>1, <3>2 DEF IInv, TypeOK, handVars, RunTypes, KStacks, QueueTypes
  <2>2. RunQueueConsistent'
    BY <1>4, <1>5 DEF RunQueueConsistent
  <2>3. HandoffExact'
    BY <1>3, <2>0, ContextAssumption DEF IInv, TypeOK, HandoffExact, handVars, LockFree
  <2>4. CurrentExact'
    BY <1>7, <1>8, <1>9, <2>0 DEF IInv, CurrentExact, handVars
  <2> QED BY <2>1, <2>2, <2>3, <2>4 DEF IInv
<1>10. CASE nxt # cur
  <2>1. PICK fl \in {switch_flags[c], prf, flags} : fl # "zero" /\ BeginSwitch(c, nxt, fl)
    BY <1>3, <1>a, <1>10
  <2>2. fl \in {"if0", "if1"}
    BY <2>1 DEF IInv, TypeOK, Flags
  <2>3. \A d \in CPU : current_task[d] # nxt
    BY <1>6, <1>10
  <2>4. /\ preempt_restore_flags' \in [CPU -> Flags] /\ kstack' \in KStacks
        /\ LockFree
    BY <1>3, <1>a, <1>10
  <2> QED BY <1>4, <1>5, <1>7, <1>8, <2>1, <2>2, <2>3, <2>4, BeginSwitchIInv
<1> QED BY <1>9, <1>10

\* scheduler_block_current_wait preserves the invariant: the caller's new state
\* is not READY, so it is in no band when the next task is picked.
LEMMA BlockIInv ==
    ASSUME IInv, NEW c \in CPU, NEW s \in {"BLOCKED", "SLEEPING"},
           phase[c] = "run", current_task[c] \in Task,
           scheduler_block_current_wait(c, s),
           QueueTypes', cleanup_count' \in Nat, reaper_waits' \in BOOLEAN
    PROVE  IInv'
<1> DEFINE cur == current_task[c]
           st  == [state EXCEPT ![cur] = s]
<1>0. /\ RunTypes(state, policy, runq) /\ QueuesAgree(state, policy, runq)
      /\ cur \in Ctx /\ state[cur] = "RUNNING" /\ s \in TaskState \ {"READY"}
  BY DEF IInv, TypeOK, RunQueueConsistent, RunTypes, scheduler_block_current_wait, Cur,
         TaskState
<1>1. RunTypes(st, policy, runq) /\ QueuesAgree(st, policy, runq)
  BY <1>0, SetStateAgrees
<1>2. /\ st[cur] = s /\ s # "READY" /\ \A u \in Ctx \ {cur} : st[u] = state[u]
  BY <1>0 DEF RunTypes
<1>3. PICK p \in 0..Policies :
        LET nxt == scheduler_pick_next(c, runq, p) IN
        /\ PickBand(runq, p) /\ nxt # cur /\ runq' = AfterPick(runq, p)
        /\ state' = [st EXCEPT ![nxt] = "RUNNING"]
        /\ BeginSwitch(c, nxt, irqsave(c))
  BY DEF scheduler_block_current_wait, Cur
<1> HIDE DEF st
<1>a. PICK nxt : nxt = scheduler_pick_next(c, runq, p)
  OBVIOUS
<1>4. /\ nxt \in Ctx /\ (nxt = idle[c] \/ (nxt \in Task /\ st[nxt] = "READY"))
      /\ RunTypes(state', policy, runq') /\ QueuesAgree(state', policy, runq')
  <2>1. PickBand(runq, p) /\ state' = [st EXCEPT ![nxt] = "RUNNING"]
        /\ runq' = AfterPick(runq, p)
    BY <1>3, <1>a
  <2> QED BY <1>1, <1>a, <2>1, PickAgrees
<1>5. \A d \in CPU : current_task[d] # nxt
  <2> SUFFICES ASSUME NEW d \in CPU PROVE current_task[d] # nxt
    OBVIOUS
  <2>1. CASE d = c
    BY <1>3, <1>a, <2>1
  <2>2. CASE d # c
    <3>1. current_task[d] # cur /\ current_task[d] \in Ctx
      BY <2>2 DEF IInv, TypeOK, CurrentExact
    <3>2. current_task[d] \in Task => st[current_task[d]] # "READY"
      BY <1>2, <3>1 DEF IInv, CurrentExact
    <3>3. current_task[d] # idle[c]
      BY <2>2, ContextAssumption DEF IInv, CurrentExact
    <3> QED BY <1>4, <3>2, <3>3
  <2> QED BY <2>1, <2>2
<1>6. \A d \in CPU \ {c} : state'[current_task[d]] = state[current_task[d]]
  <2>1. state' = [st EXCEPT ![nxt] = "RUNNING"]
    BY <1>3, <1>a
  <2>2. \A d \in CPU \ {c} : current_task[d] \in Ctx \ {cur}
    BY DEF IInv, TypeOK, CurrentExact
  <2> QED BY <1>1, <1>2, <1>5, <2>1, <2>2 DEF RunTypes
<1>7. state'[nxt] = "RUNNING" /\ nxt \in Task \cup {idle[c]}
  BY <1>1, <1>3, <1>4, <1>a DEF RunTypes
<1>8. PICK fl \in {"if0", "if1"} : BeginSwitch(c, nxt, fl)
  BY <1>3, <1>a DEF irqsave
<1>9. /\ preempt_restore_flags' \in [CPU -> Flags] /\ kstack' \in KStacks
      /\ LockFree /\ policy' = policy
  BY <1>8 DEF scheduler_block_current_wait, IInv, TypeOK, KStacks, BeginSwitch
<1> QED BY <1>4, <1>5, <1>6, <1>7, <1>8, <1>9, BeginSwitchIInv

\* The physical switch moves the CPU to the stack of the task it already calls
\* current.
LEMMA ContextSwitchIInv ==
    ASSUME IInv, NEW c \in CPU, arch_context_switch(c)
    PROVE  IInv'
<1>0. /\ phase[c] = "switch" /\ stack' = [stack EXCEPT ![c] = current_task[c]]
      /\ phase' = [phase EXCEPT ![c] = "finish"]
      /\ UNCHANGED <<state, policy, runq, elapsed_ticks, switch_flags,
                     preempt_restore_flags, scheduler_lock, current_task, previous_task,
                     switch_lock_held, reschedule_pending, preemption_enabled, intr,
                     kstack, queueVars, cleanup_count, reaper_waits>>
  BY DEF arch_context_switch, Cur, runVars, flagVars, cpuVars, cleanVars, queueVars
<1>1. TypeOK'
  <2>1. stack' \in [CPU -> Ctx] /\ phase' \in [CPU -> Phase]
    BY <1>0 DEF IInv, TypeOK, Phase
  <2> QED BY <1>0, <2>1 DEF IInv, TypeOK, queueVars
<1>2. RunQueueConsistent'
  BY <1>0 DEF IInv, RunQueueConsistent
<1>3. HandoffExact'
  BY <1>0 DEF IInv, TypeOK, HandoffExact
<1>4. CurrentExact'
  BY <1>0 DEF IInv, TypeOK, CurrentExact
<1> QED BY <1>1, <1>2, <1>3, <1>4 DEF IInv

\* scheduler_finish_switch clears every hand-over field before it releases the
\* lock.
LEMMA FinishSwitchIInv ==
    ASSUME IInv, NEW c \in CPU, scheduler_finish_switch(c)
    PROVE  IInv'
<1>0. /\ phase[c] = "finish"
      /\ kstack' = Push(current_task[c], FOf("finish", previous_task[c]))
      /\ previous_task' = [previous_task EXCEPT ![c] = NULL]
      /\ switch_flags' = [switch_flags EXCEPT ![c] = "zero"]
      /\ switch_lock_held' = [switch_lock_held EXCEPT ![c] = FALSE]
      /\ scheduler_lock' = NULL
      /\ intr' = [intr EXCEPT ![c] = (switch_flags[c] = "if1")]
      /\ phase' = [phase EXCEPT ![c] = "run"]
      /\ UNCHANGED <<state, policy, runq, elapsed_ticks, preempt_restore_flags,
                     current_task, stack, reschedule_pending, preemption_enabled,
                     queueVars, cleanup_count, reaper_waits>>
  BY DEF scheduler_finish_switch, ClearHandoff, Cur, runVars, cpuVars, cleanVars, queueVars
<1>1. scheduler_lock = c /\ previous_task[c] \in Ctx /\ current_task[c] \in Ctx
  BY <1>0 DEF IInv, TypeOK, HandoffExact
<1>2. TypeOK'
  <2>1. kstack' \in KStacks
    BY <1>0, <1>1, PlainFrames, PushType DEF IInv, TypeOK, KStacks
  <2>2. /\ previous_task' \in [CPU -> Ctx \cup {NULL}] /\ switch_flags' \in [CPU -> Flags]
        /\ switch_lock_held' \in [CPU -> BOOLEAN] /\ intr' \in [CPU -> BOOLEAN]
        /\ phase' \in [CPU -> Phase]
    BY <1>0 DEF IInv, TypeOK, Flags, Phase
  <2> QED BY <1>0, <2>1, <2>2 DEF IInv, TypeOK, KStacks, queueVars
<1>3. RunQueueConsistent'
  BY <1>0 DEF IInv, RunQueueConsistent
<1>4. HandoffExact'
  BY <1>0, <1>1, ContextAssumption DEF IInv, TypeOK, HandoffExact
<1>5. CurrentExact'
  BY <1>0, <1>1, SMTT(30) DEF IInv, TypeOK, HandoffExact, CurrentExact
<1> QED BY <1>2, <1>3, <1>4, <1>5 DEF IInv

-----------------------------------------------------------------------------
(* Steps outside a switch                                                  *)

\* A step that leaves the hand-over fields alone and, of the current tasks,
\* changes at most the state of one that is dying.
Calm ==
    /\ UNCHANGED <<scheduler_lock, current_task, previous_task, switch_lock_held,
                   switch_flags, stack>>
    /\ \A d \in CPU : \/ phase'[d] = phase[d]
                      \/ phase[d] \in {"run", "hlt"} /\ phase'[d] \in {"run", "hlt", "halted"}
    /\ \A d \in CPU : intr'[d] = intr[d] \/ phase[d] \in {"run", "hlt"}
    /\ \A d \in CPU : current_task[d] \in Task =>
          state'[current_task[d]] \in {state[current_task[d]], "ZOMBIE", "FREED"}

\* What such a step has to show: its types and its queues.
LEMMA CalmIInv ==
    ASSUME IInv, Calm, TypeOK', RunQueueConsistent'
    PROVE  IInv'
<1>1. HandoffExact'
  BY DEF Calm, IInv, HandoffExact
<1>2. CurrentExact'
  BY DEF Calm, IInv, CurrentExact
<1> QED BY <1>1, <1>2 DEF IInv

\* The steps that touch no run queue: the tail of finish_switch, interrupt
\* entry and exit, system call entry, and the halting idle task.
LEMMA QuietIInv ==
    ASSUME IInv, NEW c \in CPU,
           \/ task_internal_finish_switch(c) \/ semaphore_signal(c) \/ irq(c)
           \/ scheduler_tick(c) \/ lapic_reschedule_handler(c) \/ iret(c) \/ syscall(c)
           \/ kernel_main_enable(c) \/ idle_hlt(c)
    PROVE  IInv'
<1> USE DEF runVars, flagVars, handVars, cpuVars, cleanVars, queueVars
<1>0. kstack \in KStacks /\ current_task[c] \in Ctx /\ Cur(c) = current_task[c]
  BY DEF IInv, TypeOK, KStacks, Cur
<1>1. CASE task_internal_finish_switch(c)
  <2>1. Top(current_task[c]) = "finish" /\ TopTask(current_task[c]) \in Ctx
    BY <1>0, <1>1, TopFrame DEF task_internal_finish_switch
  <2>2. kstack' \in KStacks
    BY <1>0, <1>1, <2>1, PlainFrames, BecomeType, PopType DEF task_internal_finish_switch
  <2>3. QueueTypes'
    <3>1. UNCHANGED queueVars \/ cleanup_queue_push(TopTask(current_task[c]))
      BY <1>0, <1>1 DEF task_internal_finish_switch
    <3> QED BY <2>1, <3>1, QueueTypesKept, PushTypes
  <2>4. TypeOK'
    BY <1>1, <2>2, <2>3 DEF task_internal_finish_switch, IInv, TypeOK, KStacks, QueueTypes
  <2>5. Calm /\ RunQueueConsistent'
    BY <1>1 DEF task_internal_finish_switch, Calm, IInv, RunQueueConsistent
  <2> QED BY <2>4, <2>5, CalmIInv
<1>2. CASE semaphore_signal(c)
  <2>1. kstack' \in KStacks
    BY <1>0, <1>2, PlainFrames, BecomeType, PopType DEF semaphore_signal
  <2>2. TypeOK'
    <3>1. cleanup_count' \in Nat /\ reaper_waits' \in BOOLEAN
      <4>1. cleanup_count' = cleanup_count + 1 /\ reaper_waits' = FALSE
        BY <1>2 DEF semaphore_signal
      <4>2. cleanup_count \in Nat
        BY DEF IInv, TypeOK
      <4>3. cleanup_count' \in Nat
        BY <4>1, <4>2
      <4>4. reaper_waits' \in BOOLEAN
        BY <4>1, Zenon
      <4> QED BY <4>3, <4>4
    <3> QED BY <1>2, <2>1, <3>1 DEF semaphore_signal, IInv, TypeOK, KStacks
  <2>3. Calm /\ RunQueueConsistent'
    BY <1>2 DEF semaphore_signal, Calm, IInv, RunQueueConsistent
  <2> QED BY <2>2, <2>3, CalmIInv
<1>3. CASE irq(c)
  <2>1. kstack' \in KStacks
    BY <1>0, <1>3, PlainFrames, PushType DEF irq
  <2>2. TypeOK'
    BY <1>3, <2>1 DEF irq, IInv, TypeOK, KStacks, Phase
  <2>3. Calm /\ RunQueueConsistent'
    BY <1>3 DEF irq, Calm, IInv, RunQueueConsistent, TypeOK
  <2> QED BY <2>2, <2>3, CalmIInv
<1>4. CASE scheduler_tick(c)
  <2>1. kstack' \in KStacks
    BY <1>0, <1>4, PlainFrames, BecomeType DEF scheduler_tick
  <2>2. elapsed_ticks' \in [Policy -> 0..(Quantum - 1)]
    <3> DEFINE p == policy[current_task[c]]
    <3>1. /\ p \in Policy /\ elapsed_ticks \in [Policy -> 0..(Quantum - 1)]
          /\ elapsed_ticks[p] \in 0..(Quantum - 1)
      BY <1>0 DEF IInv, TypeOK
    <3>2. PICK e : /\ elapsed_ticks' \in {elapsed_ticks, [elapsed_ticks EXCEPT ![p] = e]}
                   /\ e = IF elapsed_ticks[p] + 1 >= Quantum THEN 0 ELSE elapsed_ticks[p] + 1
      BY <1>0, <1>4 DEF scheduler_tick, rr_tick
    <3>3. e \in 0..(Quantum - 1)
      BY <3>1, <3>2, BoundAssumption
    <3> QED BY <3>1, <3>2, <3>3
  <2>3. reschedule_pending' \in [CPU -> BOOLEAN]
    BY <1>4 DEF scheduler_tick, IInv, TypeOK
  <2>4. TypeOK'
    BY <1>4, <2>1, <2>2, <2>3 DEF scheduler_tick, IInv, TypeOK, KStacks
  <2>5. Calm /\ RunQueueConsistent'
    BY <1>4 DEF scheduler_tick, Calm, IInv, RunQueueConsistent
  <2> QED BY <2>4, <2>5, CalmIInv
<1>5. CASE lapic_reschedule_handler(c)
  <2>1. kstack' \in KStacks
    BY <1>0, <1>5, PlainFrames, BecomeType DEF lapic_reschedule_handler
  <2>2. TypeOK'
    BY <1>5, <2>1 DEF lapic_reschedule_handler, IInv, TypeOK, KStacks
  <2>3. Calm /\ RunQueueConsistent'
    BY <1>5 DEF lapic_reschedule_handler, Calm, IInv, RunQueueConsistent
  <2> QED BY <2>2, <2>3, CalmIInv
<1>6. CASE iret(c)
  <2>1. kstack' \in KStacks
    BY <1>0, <1>6, PopType DEF iret
  <2>2. TypeOK'
    BY <1>6, <2>1 DEF iret, IInv, TypeOK, KStacks
  <2>3. Calm /\ RunQueueConsistent'
    BY <1>6 DEF iret, Calm, IInv, RunQueueConsistent, TypeOK, Executing
  <2> QED BY <2>2, <2>3, CalmIInv
<1>7. CASE syscall(c)
  <2>1. kstack' \in KStacks
    BY <1>0, <1>7, PlainFrames, PushType DEF syscall
  <2>2. TypeOK'
    BY <1>7, <2>1 DEF syscall, IInv, TypeOK, KStacks
  <2>3. Calm /\ RunQueueConsistent'
    BY <1>7 DEF syscall, Calm, IInv, RunQueueConsistent, TypeOK, Executing
  <2> QED BY <2>2, <2>3, CalmIInv
<1>8. CASE kernel_main_enable(c)
  <2>1. TypeOK'
    BY <1>8 DEF kernel_main_enable, IInv, TypeOK
  <2>2. Calm /\ RunQueueConsistent'
    BY <1>8 DEF kernel_main_enable, Calm, IInv, RunQueueConsistent, TypeOK, Executing
  <2> QED BY <2>1, <2>2, CalmIInv
<1>9. CASE idle_hlt(c)
  <2>1. kstack' \in KStacks
    BY <1>0, <1>9, PlainFrames, PushType DEF idle_hlt
  <2>2. TypeOK'
    BY <1>9, <2>1 DEF idle_hlt, IInv, TypeOK, KStacks, Phase
  <2>3. Calm /\ RunQueueConsistent'
    BY <1>9 DEF idle_hlt, Calm, IInv, RunQueueConsistent, TypeOK, Executing
  <2> QED BY <2>2, <2>3, CalmIInv
<1> QED BY <1>1, <1>2, <1>3, <1>4, <1>5, <1>6, <1>7, <1>8, <1>9

\* Waking, publishing and creating tasks, and the steps that end one.
LEMMA StateStepIInv ==
    ASSUME IInv, NEW c \in CPU, TypeOK', state' \in [Ctx -> TaskState],
           NEW t \in Task, NEW x \in TaskState, state[t] # "READY",
           state' = [state EXCEPT ![t] = x], policy' = policy,
           x = "READY" => runq' = rr_enqueue(runq, t),
           x # "READY" => runq' = runq,
           x \in {"ZOMBIE", "FREED"} \/ state[t] \notin {"RUNNING", "ZOMBIE", "FREED"},
           UNCHANGED <<scheduler_lock, current_task, previous_task, switch_lock_held,
                       switch_flags, stack>>,
           \A d \in CPU : \/ phase'[d] = phase[d]
                          \/ phase[d] = "run" /\ phase'[d] = "halted",
           \A d \in CPU : intr'[d] = intr[d] \/ phase[d] \in {"run", "hlt"}
    PROVE  IInv'
<1>0. RunTypes(state, policy, runq) /\ QueuesAgree(state, policy, runq) /\ t \in Ctx
  BY DEF IInv, TypeOK, RunQueueConsistent, RunTypes, Ctx
<1>1. RunQueueConsistent'
  <2>1. CASE x = "READY"
    <3>1. QueuesAgree([state EXCEPT ![t] = "READY"], policy,
                      [runq EXCEPT ![policy[t]] = Append(@, t)])
      BY <1>0, EnqueueAgrees
    <3> QED BY <2>1, <3>1 DEF RunQueueConsistent, rr_enqueue
  <2>2. CASE x # "READY"
    BY <1>0, <2>2, SetStateAgrees DEF RunQueueConsistent
  <2> QED BY <2>1, <2>2
<1>2. Calm
  <2>1. \A d \in CPU : current_task[d] \in Task =>
          state'[current_task[d]] \in {state[current_task[d]], "ZOMBIE", "FREED"}
    BY <1>0 DEF RunTypes, IInv, CurrentExact, TypeOK
  <2> QED BY <2>1 DEF Calm
<1> QED BY <1>1, <1>2, CalmIInv

\* scheduler_wake, from a caller or as the end of semaphore_signal.
LEMMA WakeIInv ==
    ASSUME IInv, NEW c \in CPU, NEW t \in Task, WakeEffect(c, t), kstack' \in KStacks
    PROVE  IInv'
<1> USE DEF runVars, flagVars, handVars, cpuVars, cleanVars, queueVars
<1>1. CASE state[t] \in {"BLOCKED", "SLEEPING"}
  <2>0. /\ RunTypes(state, policy, runq) /\ QueuesAgree(state, policy, runq)
    BY DEF IInv, TypeOK, RunQueueConsistent, RunTypes
  <2>1. RunTypes(state', policy, runq')
    BY <1>1, <2>0, EnqueueAgrees DEF WakeEffect, rr_enqueue
  <2>2. TypeOK'
    BY <1>1, <2>1 DEF WakeEffect, IInv, TypeOK, RunTypes, KStacks
  <2>3. "READY" \in TaskState
    BY DEF TaskState
  <2>4. /\ state' = [state EXCEPT ![t] = "READY"] /\ runq' = rr_enqueue(runq, t)
        /\ UNCHANGED <<policy, scheduler_lock, current_task, previous_task, switch_lock_held,
                       switch_flags, stack, phase, intr>>
    BY <1>1 DEF WakeEffect
  <2> QED BY <1>1, <2>1, <2>2, <2>3, <2>4, StateStepIInv DEF RunTypes
<1>2. CASE state[t] \notin {"BLOCKED", "SLEEPING"}
  <2>1. TypeOK'
    BY <1>2 DEF WakeEffect, IInv, TypeOK, KStacks
  <2>2. Calm /\ RunQueueConsistent'
    BY <1>2 DEF WakeEffect, Calm, IInv, RunQueueConsistent
  <2> QED BY <2>1, <2>2, CalmIInv
<1> QED BY <1>1, <1>2

\* Creating, publishing and destroying tasks, and the exit of one.
LEMMA TaskLifeIInv ==
    ASSUME IInv, NEW c \in CPU, NEW t \in Task, NEW p \in Policy,
           \/ allocate_task(c, t, p) \/ destroy_unpublished_task(c, t)
           \/ scheduler_make_ready(c, t)
           \/ current_task[c] \in Task /\ task_exit(c)
           \/ reaper_destroy(c)
    PROVE  IInv'
<1> USE DEF runVars, flagVars, handVars, cpuVars, cleanVars, queueVars
<1>0. /\ RunTypes(state, policy, runq) /\ QueuesAgree(state, policy, runq)
      /\ kstack \in KStacks /\ t \in Ctx /\ Task \subseteq Ctx
  BY DEF IInv, TypeOK, RunQueueConsistent, RunTypes, KStacks, Ctx
<1>1. {"NEW", "READY", "ZOMBIE", "FREED"} \subseteq TaskState
  BY DEF TaskState
<1>2. CASE allocate_task(c, t, p)
  <2> DEFINE st2 == [state EXCEPT ![t] = "NEW"]
             pol2 == [policy EXCEPT ![t] = p]
  <2>0. /\ state[t] = "UNUSED" /\ state' = st2 /\ policy' = pol2 /\ runq' = runq
        /\ UNCHANGED <<scheduler_lock, current_task, previous_task, switch_lock_held,
                       switch_flags, stack, phase, intr>>
    BY <1>2 DEF allocate_task
  <2>1. RunTypes(st2, policy, runq) /\ QueuesAgree(st2, policy, runq) /\ st2[t] = "NEW"
    BY <1>0, <1>1, <2>0, SetStateAgrees DEF RunTypes
  <2> HIDE DEF st2
  <2>2. RunTypes(st2, pol2, runq) /\ QueuesAgree(st2, pol2, runq)
    BY <2>1, SetPolicyAgrees
  <2>3. kstack' \in KStacks
    <3>1. <<F("iret")>> \in Seq(Frame) /\ <<>> \in Seq(Frame)
      BY PlainFrames, EmptySeq
    <3>2. kstack' = [kstack EXCEPT ![t] = <<F("iret")>>] \/ kstack' = [kstack EXCEPT ![t] = <<>>]
      BY <1>2 DEF allocate_task
    <3> QED BY <1>0, <3>1, <3>2 DEF KStacks
  <2>4. TypeOK'
    <3>1. RunTypes(state', policy', runq')
      BY <2>0, <2>2
    <3>2. UNCHANGED <<elapsed_ticks, flagVars, handVars, cpuVars, intr, cleanVars>>
      BY <1>2 DEF allocate_task
    <3> QED BY <2>3, <3>1, <3>2 DEF IInv, TypeOK, RunTypes, KStacks
  <2>5. \A d \in CPU : current_task[d] \in Task => state'[current_task[d]] = state[current_task[d]]
    BY <1>0, <2>0 DEF st2, RunTypes, IInv, CurrentExact
  <2>6. Calm
    BY <2>0, <2>5 DEF Calm
  <2>7. RunQueueConsistent'
    BY <2>0, <2>2 DEF RunQueueConsistent
  <2> QED BY <2>4, <2>6, <2>7, CalmIInv
<1>3. CASE destroy_unpublished_task(c, t)
  <2>1. /\ state[t] = "NEW" /\ state' = [state EXCEPT ![t] = "FREED"]
        /\ UNCHANGED <<policy, runq, scheduler_lock, current_task, previous_task,
                       switch_lock_held, switch_flags, stack, phase, intr>>
    BY <1>3 DEF destroy_unpublished_task
  <2>2. state' \in [Ctx -> TaskState]
    BY <1>0, <1>1, <2>1 DEF RunTypes
  <2>3. TypeOK'
    BY <1>3, <2>2 DEF destroy_unpublished_task, IInv, TypeOK
  <2> QED BY <1>1, <2>1, <2>2, <2>3, StateStepIInv
<1>4. CASE scheduler_make_ready(c, t)
  <2>1. /\ state[t] = "NEW" /\ state' = [state EXCEPT ![t] = "READY"]
        /\ runq' = rr_enqueue(runq, t)
        /\ UNCHANGED <<policy, scheduler_lock, current_task, previous_task,
                       switch_lock_held, switch_flags, stack, phase, intr>>
    BY <1>4 DEF scheduler_make_ready
  <2>2. RunTypes(state', policy, runq')
    BY <1>0, <2>1, EnqueueAgrees DEF rr_enqueue
  <2>3. TypeOK'
    BY <1>4, <2>2 DEF scheduler_make_ready, IInv, TypeOK, RunTypes
  <2> QED BY <1>1, <2>1, <2>2, <2>3, StateStepIInv DEF RunTypes
<1>5. CASE current_task[c] \in Task /\ task_exit(c)
  <2> DEFINE cur == current_task[c]
  <2>1. /\ state[cur] # "READY" /\ phase[c] = "run"
        /\ state' = [state EXCEPT ![cur] = "ZOMBIE"]
        /\ UNCHANGED <<policy, runq, scheduler_lock, current_task, previous_task,
                       switch_lock_held, switch_flags, stack, phase>>
        /\ intr' = [intr EXCEPT ![c] = FALSE] /\ kstack' = Push(cur, F("dying"))
    BY <1>5 DEF task_exit, Cur, InKernel, Executing, IInv, CurrentExact
  <2>2. state' \in [Ctx -> TaskState]
    BY <1>0, <1>1, <1>5, <2>1 DEF RunTypes
  <2>3. kstack' \in KStacks
    BY <1>0, <1>5, <2>1, PlainFrames, PushType
  <2>4. TypeOK'
    BY <1>5, <2>1, <2>2, <2>3 DEF task_exit, IInv, TypeOK, KStacks
  <2>5. \A d \in CPU : intr'[d] = intr[d] \/ phase[d] \in {"run", "hlt"}
    BY <2>1 DEF IInv, TypeOK
  <2> QED BY <1>1, <1>5, <2>1, <2>2, <2>4, <2>5, StateStepIInv
<1>6. CASE reaper_destroy(c)
  <2> DEFINE z == cleanup_head
  <2>0. /\ phase[c] = "run" /\ current_task[c] = reaper
        /\ UNCHANGED <<policy, runq, elapsed_ticks, switch_flags, preempt_restore_flags,
                       scheduler_lock, current_task, previous_task, switch_lock_held, stack,
                       reschedule_pending, preemption_enabled, intr, reaper_waits>>
        /\ cleanup_count > 0 /\ cleanup_count' = cleanup_count - 1
    BY <1>6 DEF reaper_destroy, Executing, Cur
  <2>1. cleanup_count' \in Nat
    BY <2>0 DEF IInv, TypeOK
  <2>2. QueueTypes'
    <3> DEFINE good == z \in Task \ {reaper} /\ state[z] = "ZOMBIE"
    <3>1. CASE z = NULL
      BY <1>6, <3>1, QueueTypesKept DEF reaper_destroy
    <3>2. CASE z # NULL
      BY <1>6, <3>2, QueueTypesKept, PopTypes DEF reaper_destroy
    <3> QED BY <3>1, <3>2
  <2>3. CASE z = NULL
    <3>1. UNCHANGED <<state, kstack, phase>>
      BY <1>6, <2>3 DEF reaper_destroy
    <3>2. TypeOK'
      BY <2>0, <2>1, <2>2, <3>1 DEF IInv, TypeOK, QueueTypes
    <3>3. Calm /\ RunQueueConsistent'
      BY <2>0, <3>1 DEF Calm, IInv, RunQueueConsistent
    <3> QED BY <3>2, <3>3, CalmIInv
  <2>4. CASE z # NULL /\ z \in Task \ {reaper} /\ state[z] = "ZOMBIE"
    <3>1. /\ state' = [state EXCEPT ![z] = "FREED"]
          /\ kstack' = Push(reaper, F("yield")) /\ phase' = phase
      BY <1>6, <2>4 DEF reaper_destroy
    <3>2. state' \in [Ctx -> TaskState]
      BY <1>0, <1>1, <2>4, <3>1 DEF RunTypes
    <3>3. reaper \in Ctx
      BY <1>0 DEF Task
    <3>4. kstack' \in KStacks
      BY <1>0, <3>1, <3>3, PlainFrames, PushType
    <3>5. TypeOK'
      BY <2>0, <2>1, <2>2, <2>4, <3>1, <3>2, <3>4 DEF IInv, TypeOK, KStacks, QueueTypes
    <3> QED BY <1>1, <2>0, <2>4, <3>1, <3>2, <3>5, StateStepIInv
  <2>5. CASE z # NULL /\ ~(z \in Task \ {reaper} /\ state[z] = "ZOMBIE")
    <3>1. /\ phase' = [phase EXCEPT ![c] = "halted"]
          /\ UNCHANGED <<state, kstack>>
      BY <1>6, <2>5 DEF reaper_destroy
    <3>2. phase' \in [CPU -> Phase]
      BY <3>1 DEF IInv, TypeOK, Phase
    <3>3. TypeOK'
      BY <2>0, <2>1, <2>2, <2>5, <3>1, <3>2 DEF IInv, TypeOK, QueueTypes
    <3>4. Calm /\ RunQueueConsistent'
      BY <2>0, <3>1 DEF Calm, IInv, TypeOK, RunQueueConsistent
    <3> QED BY <3>3, <3>4, CalmIInv
  <2> QED BY <2>3, <2>4, <2>5
<1> QED BY <1>2, <1>3, <1>4, <1>5, <1>6

\* rr_dequeue of a READY task finds it in the band of its policy.
LEMMA DequeueAgrees ==
    ASSUME IInv, NEW t \in Task, state[t] = "READY", NEW x \in TaskState \ {"READY"}
    PROVE  /\ RunTypes([state EXCEPT ![t] = x], policy, rr_dequeue(runq, t))
           /\ QueuesAgree([state EXCEPT ![t] = x], policy, rr_dequeue(runq, t))
<1> DEFINE p == policy[t]
           i == CHOOSE k \in 1..Len(runq[p]) : runq[p][k] = t
<1>0. /\ RunTypes(state, policy, runq) /\ QueuesAgree(state, policy, runq)
      /\ p \in Policy /\ runq[p] \in Seq(Task)
  BY DEF IInv, TypeOK, RunQueueConsistent, RunTypes, Ctx
<1>1. \E k \in 1..Len(runq[p]) : runq[p][k] = t
  BY <1>0 DEF QueuesAgree, ReadyAreQueued
<1>2. i \in 1..Len(runq[p]) /\ runq[p][i] = t
  BY <1>1
<1> HIDE DEF i
<1>3. IsWithout(RemoveAt(runq[p], i), runq[p], i)
  BY <1>0, <1>2, RemoveAtProperties DEF IsWithout
<1>4. Taken(state, policy, runq, p, i, x, RemoveAt(runq[p], i))
  BY <1>0, <1>2, <1>3, TakeAgrees
<1>5. rr_dequeue(runq, t) = [runq EXCEPT ![p] = RemoveAt(runq[p], i)]
  BY DEF rr_dequeue, i
<1> QED BY <1>2, <1>4, <1>5 DEF Taken

\* scheduler_remove and scheduler_set_policy.  For a READY task the second is a
\* dequeue, a change of policy and an enqueue, all under the lock.
LEMMA RequeueIInv ==
    ASSUME IInv, NEW c \in CPU, NEW t \in Task, NEW p \in Policy,
           scheduler_remove(c, t) \/ scheduler_set_policy(c, t, p)
    PROVE  IInv'
<1> USE DEF runVars, flagVars, handVars, cpuVars, cleanVars, queueVars
<1>0. /\ RunTypes(state, policy, runq) /\ QueuesAgree(state, policy, runq)
      /\ t \in Ctx /\ "NEW" \in TaskState \ {"READY"}
  BY DEF IInv, TypeOK, RunQueueConsistent, RunTypes, Ctx, TaskState
<1>1. CASE scheduler_remove(c, t)
  <2>1. /\ state[t] = "READY" /\ state' = [state EXCEPT ![t] = "NEW"]
        /\ runq' = rr_dequeue(runq, t)
        /\ UNCHANGED <<policy, elapsed_ticks, flagVars, handVars, cpuVars, intr, kstack,
                       cleanVars>>
    BY <1>1 DEF scheduler_remove
  <2>2. RunTypes(state', policy', runq') /\ QueuesAgree(state', policy', runq')
    BY <1>0, <2>1, DequeueAgrees
  <2>3. TypeOK'
    BY <2>1, <2>2 DEF IInv, TypeOK, RunTypes
  <2>4. Calm
    <3>1. \A d \in CPU : current_task[d] \in Task => current_task[d] # t
      BY <2>1 DEF IInv, CurrentExact
    <3>2. \A d \in CPU : current_task[d] \in Task =>
             state'[current_task[d]] = state[current_task[d]]
      BY <1>0, <2>1, <3>1 DEF RunTypes, IInv, TypeOK
    <3> QED BY <2>1, <3>2 DEF Calm
  <2> QED BY <2>2, <2>3, <2>4, CalmIInv DEF RunQueueConsistent
<1>2. CASE scheduler_set_policy(c, t, p)
  <2>1. /\ policy' = [policy EXCEPT ![t] = p] /\ policy[t] # p
        /\ reschedule_pending' = [reschedule_pending EXCEPT ![c] = TRUE]
        /\ UNCHANGED <<state, elapsed_ticks, flagVars, handVars, preemption_enabled, intr,
                       kstack, cleanVars>>
    BY <1>2 DEF scheduler_set_policy
  <2>2. RunTypes(state', policy', runq') /\ QueuesAgree(state', policy', runq')
    <3>1. CASE state[t] # "READY"
      <4>1. runq' = runq /\ state' = state
        BY <1>2, <3>1 DEF scheduler_set_policy, MoveBand
      <4> QED BY <1>0, <2>1, <3>1, <4>1, SetPolicyAgrees
    <3>2. CASE state[t] = "READY"
      <4> DEFINE st2 == [state EXCEPT ![t] = "NEW"]
                 q2  == rr_dequeue(runq, t)
                 pol2 == [policy EXCEPT ![t] = p]
      <4>1. RunTypes(st2, policy, q2) /\ QueuesAgree(st2, policy, q2)
        BY <1>0, <3>2, DequeueAgrees
      <4>2. st2[t] = "NEW" /\ pol2[t] = p /\ [st2 EXCEPT ![t] = "READY"] = state
        BY <1>0, <3>2 DEF RunTypes
      <4>3. runq' = [q2 EXCEPT ![p] = Append(@, t)] /\ policy' = pol2 /\ state' = state
        BY <1>2, <3>2 DEF scheduler_set_policy, MoveBand
      <4> HIDE DEF st2, q2
      <4>4. RunTypes(st2, pol2, q2) /\ QueuesAgree(st2, pol2, q2)
        BY <4>1, <4>2, SetPolicyAgrees
      <4> HIDE DEF pol2
      <4>5. LET st3 == [st2 EXCEPT ![t] = "READY"]
                q3  == [q2 EXCEPT ![pol2[t]] = Append(@, t)]
            IN  RunTypes(st3, pol2, q3) /\ QueuesAgree(st3, pol2, q3)
        BY <4>2, <4>4, EnqueueAgrees
      <4> QED BY <4>2, <4>3, <4>5
    <3> QED BY <3>1, <3>2
  <2>3. TypeOK'
    BY <2>1, <2>2 DEF IInv, TypeOK, RunTypes
  <2>4. Calm
    BY <2>1 DEF Calm
  <2> QED BY <2>2, <2>3, <2>4, CalmIInv DEF RunQueueConsistent
<1> QED BY <1>1, <1>2

-----------------------------------------------------------------------------
(* What a switch does to the tasks, and the dead                           *)

\* The CPU goes on with nxt, which may be the task it was on; of the other tasks
\* none changes its state.  A task that leaves is READY, or what s says it waits as.
SwitchesTo(c, nxt, s) ==
    /\ nxt \in Task \cup {idle[c]} /\ state'[nxt] = "RUNNING"
    /\ \A u \in Task : \/ state'[u] = state[u]
                       \/ state[u] \in {"READY", "RUNNING"} /\ state'[u] \in {"READY", "RUNNING"}
                       \/ u = current_task[c] /\ state[u] = "RUNNING" /\ state'[u] = s
    /\ \/ nxt = current_task[c] /\ UNCHANGED <<current_task, previous_task, phase>>
       \/ /\ \A d \in CPU : current_task[d] # nxt
          /\ current_task' = [current_task EXCEPT ![c] = nxt]
          /\ previous_task' = [previous_task EXCEPT ![c] = current_task[c]]
          /\ phase' = [phase EXCEPT ![c] = "switch"]

\* scheduler_schedule takes the next task from a queue of READY tasks.
LEMMA ScheduleSwitches ==
    ASSUME IInv, NEW c \in CPU, NEW flags \in {"if0", "if1"}, NEW prf \in Flags,
           NEW ks, phase[c] = "run", scheduler_schedule(c, flags, prf, ks)
    PROVE  /\ \E nxt : SwitchesTo(c, nxt, "READY")
           /\ kstack' = ks /\ UNCHANGED cleanVars /\ LockFree
<1> DEFINE cur == current_task[c]
           requeue == cur \in Task /\ state[cur] = "RUNNING"
           q   == IF requeue THEN rr_enqueue(runq, cur) ELSE runq
           st  == IF requeue THEN [state EXCEPT ![cur] = "READY"] ELSE state
<1>0. RunTypes(state, policy, runq) /\ QueuesAgree(state, policy, runq) /\ cur \in Ctx
  BY DEF IInv, TypeOK, RunQueueConsistent, RunTypes
<1>1. RunTypes(st, policy, q) /\ QueuesAgree(st, policy, q)
  <2>1. CASE requeue
    BY <1>0, <2>1, EnqueueAgrees DEF rr_enqueue
  <2>2. CASE ~requeue
    BY <1>0, <2>2
  <2> QED BY <2>1, <2>2
<1>2. /\ \A u \in Ctx \ {cur} : st[u] = state[u]
      /\ st[cur] = state[cur] \/ (state[cur] = "RUNNING" /\ st[cur] = "READY")
  BY <1>0 DEF RunTypes
<1>3. PICK p \in 0..Policies :
        LET nxt == scheduler_pick_next(c, q, p) IN
        /\ LockFree /\ PickBand(q, p)
        /\ state' = [st EXCEPT ![nxt] = "RUNNING"] /\ kstack' = ks /\ UNCHANGED cleanVars
        /\ \/ nxt = cur /\ UNCHANGED handVars
           \/ nxt # cur /\ \E fl : BeginSwitch(c, nxt, fl)
  BY DEF scheduler_schedule, Requeues, Cur
<1> HIDE DEF q, st, requeue
<1>a. PICK nxt : nxt = scheduler_pick_next(c, q, p)
  OBVIOUS
<1>4. nxt \in Ctx /\ (nxt = idle[c] \/ (nxt \in Task /\ st[nxt] = "READY"))
  <2>1. PickBand(q, p)
    BY <1>3
  <2> QED BY <1>1, <1>a, <2>1, PickAgrees
<1>5. state' = [st EXCEPT ![nxt] = "RUNNING"] /\ st \in [Ctx -> TaskState]
  BY <1>1, <1>3, <1>a DEF RunTypes
<1>6. ASSUME NEW u \in Task
      PROVE  \/ state'[u] = state[u]
             \/ state[u] \in {"READY", "RUNNING"} /\ state'[u] \in {"READY", "RUNNING"}
  <2>1. u \in Ctx /\ u # idle[c]
    BY ContextAssumption DEF Ctx
  <2> QED BY <1>2, <1>4, <1>5, <2>1
<1>7. \A d \in CPU \ {c} : current_task[d] # nxt
  <2> SUFFICES ASSUME NEW d \in CPU \ {c} PROVE current_task[d] # nxt
    OBVIOUS
  <2>1. current_task[d] # cur /\ current_task[d] \in Ctx
    BY DEF IInv, TypeOK, CurrentExact
  <2>2. current_task[d] \in Task => st[current_task[d]] # "READY"
    BY <1>2, <2>1 DEF IInv, CurrentExact
  <2>3. current_task[d] # idle[c]
    BY ContextAssumption DEF IInv, CurrentExact
  <2> QED BY <1>4, <2>2, <2>3
<1>8. \/ nxt = cur /\ UNCHANGED <<current_task, previous_task, phase>>
      \/ /\ \A d \in CPU : current_task[d] # nxt
         /\ current_task' = [current_task EXCEPT ![c] = nxt]
         /\ previous_task' = [previous_task EXCEPT ![c] = cur]
         /\ phase' = [phase EXCEPT ![c] = "switch"]
  BY <1>3, <1>7, <1>a DEF handVars, BeginSwitch, Cur
<1>9. SwitchesTo(c, nxt, "READY")
  BY <1>4, <1>5, <1>6, <1>8 DEF SwitchesTo
<1> QED BY <1>3, <1>9

\* scheduler_block_current_wait switches away from a running task.
LEMMA BlockSwitches ==
    ASSUME IInv, NEW c \in CPU, NEW s \in {"BLOCKED", "SLEEPING"},
           current_task[c] \in Task, scheduler_block_current_wait(c, s)
    PROVE  /\ \E nxt : SwitchesTo(c, nxt, s)
           /\ UNCHANGED kstack /\ LockFree
           /\ state'[current_task[c]] = s /\ current_task'[c] # current_task[c]
<1> DEFINE cur == current_task[c]
<1>0. /\ RunTypes(state, policy, runq) /\ QueuesAgree(state, policy, runq)
      /\ cur \in Ctx /\ state[cur] = "RUNNING" /\ state \in [Ctx -> TaskState]
  BY DEF IInv, TypeOK, RunQueueConsistent, RunTypes, scheduler_block_current_wait, Cur
<1>1. PICK p \in 0..Policies :
        LET nxt == scheduler_pick_next(c, runq, p) IN
        /\ PickBand(runq, p) /\ nxt # cur
        /\ state' = [state EXCEPT ![cur] = s, ![nxt] = "RUNNING"]
        /\ BeginSwitch(c, nxt, irqsave(c))
  BY DEF scheduler_block_current_wait, Cur
<1>a. PICK nxt : nxt = scheduler_pick_next(c, runq, p)
  OBVIOUS
<1>2. nxt \in Ctx /\ (nxt = idle[c] \/ (nxt \in Task /\ state[nxt] = "READY"))
  <2>1. PickBand(runq, p)
    BY <1>1
  <2> QED BY <1>0, <1>a, <2>1, PickAgrees
<1>3. /\ nxt # cur /\ state' = [state EXCEPT ![cur] = s, ![nxt] = "RUNNING"]
      /\ current_task' = [current_task EXCEPT ![c] = nxt]
      /\ previous_task' = [previous_task EXCEPT ![c] = cur]
      /\ phase' = [phase EXCEPT ![c] = "switch"]
  BY <1>1, <1>a DEF BeginSwitch, Cur
<1>4. \A d \in CPU : current_task[d] # nxt
  BY <1>2, <1>3, ContextAssumption DEF IInv, CurrentExact
<1>5. ASSUME NEW u \in Task
      PROVE  \/ state'[u] = state[u]
             \/ state[u] \in {"READY", "RUNNING"} /\ state'[u] \in {"READY", "RUNNING"}
             \/ u = cur /\ state[u] = "RUNNING" /\ state'[u] = s
  <2>1. u \in Ctx /\ u # idle[c]
    BY ContextAssumption DEF Ctx
  <2> QED BY <1>0, <1>2, <1>3, <2>1
<1>6. state'[nxt] = "RUNNING" /\ state'[cur] = s
  BY <1>0, <1>2, <1>3
<1>7. SwitchesTo(c, nxt, s)
  BY <1>2, <1>3, <1>4, <1>5, <1>6 DEF SwitchesTo
<1>8. current_task'[c] # cur
  BY <1>3 DEF IInv, TypeOK
<1> QED BY <1>6, <1>7, <1>8 DEF scheduler_block_current_wait

\* No step makes a dead task anything but freed.
LEMMA DeadStep ==
    ASSUME IInv, Next, NEW t \in Task, state[t] = "ZOMBIE"
    PROVE  state'[t] \in {"ZOMBIE", "FREED"}
<1>0. /\ t \in Ctx /\ state \in [Ctx -> TaskState]
      /\ \A c \in CPU : current_task[c] \in Ctx /\ preempt_restore_flags[c] \in Flags
                        /\ irqsave(c) \in {"if0", "if1"}
  BY DEF IInv, TypeOK, Ctx, irqsave
<1>1. PICK c \in CPU : \/ Switching(c) \/ FinishTail(c) \/ Interrupt(c) \/ Program(c)
                       \/ \E u \in KernelTask \cup UserTask : Call(c, u)
                       \/ lapic_reschedule_handler(c)
  BY DEF Next, Step
<1>2. CASE Switching(c) \/ lapic_reschedule_handler(c)
  BY <1>2 DEF Switching, arch_context_switch, scheduler_finish_switch,
              lapic_reschedule_handler, runVars
<1>3. CASE FinishTail(c)
  BY <1>0, <1>3 DEF FinishTail, task_internal_finish_switch, semaphore_signal,
                    scheduler_wake_reaper, WakeEffect, runVars
<1>4. ASSUME NEW flags \in {"if0", "if1"}, NEW prf \in Flags, NEW ks, phase[c] = "run",
             scheduler_schedule(c, flags, prf, ks)
      PROVE  state'[t] = "ZOMBIE"
  <2>1. PICK nxt : SwitchesTo(c, nxt, "READY")
    BY <1>4, ScheduleSwitches
  <2> QED BY <2>1 DEF SwitchesTo
<1>5. ASSUME NEW s \in {"BLOCKED", "SLEEPING"}, current_task[c] \in Task,
             scheduler_block_current_wait(c, s)
      PROVE  state'[t] = "ZOMBIE"
  <2>1. PICK nxt : SwitchesTo(c, nxt, s)
    BY <1>5, BlockSwitches
  <2> QED BY <2>1 DEF SwitchesTo
<1>6. CASE Interrupt(c)
  <2>1. CASE safe_preemption_point(c) /\ preemption_enabled[c] /\ reschedule_pending[c]
    <3>1. PICK ks : scheduler_schedule(c, irqsave(c), "if1", ks) /\ phase[c] = "run"
      BY <2>1 DEF safe_preemption_point, Executing
    <3> QED BY <1>0, <1>4, <3>1 DEF Flags
  <2> QED BY <1>6, <2>1 DEF Interrupt, irq, scheduler_tick, safe_preemption_point, iret, runVars
<1>7. CASE Program(c)
  <2>1. CASE scheduler_yield(c) \/ task_exit_schedule(c)
    <3>1. PICK ks : /\ scheduler_schedule(c, irqsave(c), preempt_restore_flags[c], ks)
                    /\ phase[c] = "run"
      BY <2>1 DEF scheduler_yield, task_exit_schedule, InKernel, Executing
    <3> QED BY <1>0, <1>4, <3>1
  <2>2. CASE block(c) \/ reaper_block(c)
    <3>1. /\ \E s \in {"BLOCKED", "SLEEPING"} : scheduler_block_current_wait(c, s)
          /\ current_task[c] \in Task
      BY <2>2 DEF block, reaper_block, Cur, Task
    <3> QED BY <1>5, <3>1
  <2>3. CASE task_exit(c)
    BY <1>0, <2>3 DEF task_exit
  <2>4. CASE reaper_destroy(c)
    BY <1>0, <2>4 DEF reaper_destroy
  <2> QED BY <1>7, <2>1, <2>2, <2>3, <2>4 DEF Program, syscall, kernel_main_enable, idle_hlt,
                                              runVars
<1>8. CASE \E u \in KernelTask \cup UserTask : Call(c, u)
  <2>1. PICK u \in KernelTask \cup UserTask : Call(c, u)
    BY <1>8
  <2>2. u \in Ctx
    BY DEF Ctx, Task
  <2> QED BY <1>0, <2>1, <2>2
          DEF Call, scheduler_wake, WakeEffect, scheduler_make_ready, scheduler_remove,
              destroy_unpublished_task, allocate_task, scheduler_set_policy
<1> QED BY <1>1, <1>2, <1>3, <1>6, <1>7, <1>8

\* Idle and bootstrap contexts never die.
OnlyTasksDie == \A t \in Ctx \ Task : state[t] \notin {"ZOMBIE", "FREED"}
LEMMA OnlyTasksDieStep ==
    /\ Init => OnlyTasksDie
    /\ IInv /\ OnlyTasksDie /\ [Next]_vars => OnlyTasksDie'
<1>1. Init => OnlyTasksDie
  BY DEF Init, OnlyTasksDie
<1> SUFFICES ASSUME IInv, OnlyTasksDie, [Next]_vars, NEW t \in Ctx, t \notin Task
             PROVE  state'[t] \notin {"ZOMBIE", "FREED"}
  BY <1>1 DEF OnlyTasksDie
<1>0. /\ state \in [Ctx -> TaskState] /\ state[t] \notin {"ZOMBIE", "FREED"}
  BY DEF IInv, TypeOK, OnlyTasksDie
<1>2. CASE UNCHANGED vars
  BY <1>0, <1>2 DEF vars, runVars
<1>3. CASE Next
  <2>1. PICK c \in CPU : \/ Switching(c) \/ FinishTail(c) \/ Interrupt(c) \/ Program(c)
                         \/ \E u \in KernelTask \cup UserTask : Call(c, u)
                         \/ lapic_reschedule_handler(c)
    BY <1>3 DEF Next, Step
  <2>2. ASSUME NEW flags, NEW prf, NEW ks, scheduler_schedule(c, flags, prf, ks)
        PROVE  state'[t] \notin {"ZOMBIE", "FREED"}
    BY <1>0, <2>2 DEF scheduler_schedule
  <2>3. CASE Switching(c) \/ lapic_reschedule_handler(c)
    BY <1>0, <2>3 DEF Switching, arch_context_switch, scheduler_finish_switch,
                      lapic_reschedule_handler, runVars
  <2>4. CASE FinishTail(c)
    BY <1>0, <2>4 DEF FinishTail, task_internal_finish_switch, semaphore_signal,
                      scheduler_wake_reaper, WakeEffect, runVars
  <2>5. CASE Interrupt(c)
    BY <1>0, <2>2, <2>5 DEF Interrupt, irq, scheduler_tick, safe_preemption_point, iret, runVars
  <2>6. CASE Program(c)
    <3>1. CASE scheduler_yield(c) \/ task_exit_schedule(c)
      BY <2>2, <3>1 DEF scheduler_yield, task_exit_schedule
    <3>2. CASE block(c) \/ reaper_block(c)
      BY <1>0, <3>2 DEF block, reaper_block, scheduler_block_current_wait
    <3>3. CASE task_exit(c)
      BY <1>0, <3>3 DEF task_exit, Task
    <3>4. CASE reaper_destroy(c)
      BY <1>0, <3>4 DEF reaper_destroy
    <3> QED BY <1>0, <2>6, <3>1, <3>2, <3>3, <3>4
            DEF Program, syscall, kernel_main_enable, idle_hlt, runVars
  <2>7. CASE \E u \in KernelTask \cup UserTask : Call(c, u)
    <3>1. PICK u \in KernelTask \cup UserTask : Call(c, u)
      BY <2>7
    <3>2. u # t
      BY DEF Task
    <3> QED BY <1>0, <3>1, <3>2
            DEF Call, scheduler_wake, WakeEffect, scheduler_make_ready, scheduler_remove,
                destroy_unpublished_task, allocate_task, scheduler_set_policy
  <2> QED BY <2>1, <2>3, <2>4, <2>5, <2>6, <2>7
<1> QED BY <1>2, <1>3

-----------------------------------------------------------------------------
(* The frames of the kernel stacks, as sets                                *)

TopOf(t) == kstack[t][Len(kstack[t])]

\* Signals owed on the kernel stacks ks, and what it is to be one of them.
Owed(ks) == UNION {{t} \X {i \in 1..Len(ks[t]) : ks[t][i].op = "signal"} : t \in Ctx}
IsOwed(ks, u, i) == u \in Ctx /\ i \in 1..Len(ks[u]) /\ ks[u][i].op = "signal"

\* Kernel stacks that owe a signal at the same positions owe the same signals.
LEMMA OwedEqual ==
    ASSUME NEW ks, NEW ls, \A u, i : IsOwed(ks, u, i) <=> IsOwed(ls, u, i)
    PROVE  Owed(ks) = Owed(ls)
  BY DEF Owed, IsOwed

\* One more position, one more owed signal.
LEMMA OwedMore ==
    ASSUME NEW ks, NEW ls, NEW t, NEW n, IsOwed(ls, t, n), ~IsOwed(ks, t, n),
           \A u, i : u # t \/ i # n => (IsOwed(ks, u, i) <=> IsOwed(ls, u, i))
    PROVE  Owed(ls) = Owed(ks) \cup {<<t, n>>} /\ <<t, n>> \notin Owed(ks)
  BY DEF Owed, IsOwed

\* No frame but f of t's stack is lost, and none but f appears.
LosesOnly(t, f) == \A u \in Ctx : \A g \in Frames(u) : g \in Frames(u)' \/ (u = t /\ g = f)
GainsOnly(t, f) == \A u \in Ctx : \A g \in Frames(u)' : g \in Frames(u) \/ (u = t /\ g = f)
\* How the owed signals change with the frame on top.
OwedChange(t, gone, come) ==
    LET p == <<t, Len(kstack[t])>>
    IN  /\ gone = come => OwedSignals' = OwedSignals
        /\ ~gone /\ come => OwedSignals' = OwedSignals \cup {p} /\ p \notin OwedSignals
        /\ gone /\ ~come => OwedSignals = OwedSignals' \cup {p} /\ p \notin OwedSignals'

\* A frame pushed that is no owed signal.
LEMMA PushView ==
    ASSUME kstack \in KStacks, NEW t \in Ctx, NEW f \in Frame, f.op # "signal",
           kstack' = Push(t, f)
    PROVE  /\ \A u \in Ctx : Frames(u) \subseteq Frames(u)'
           /\ f \in Frames(t)' /\ GainsOnly(t, f)
           /\ \A u \in Ctx \ {t} : kstack'[u] = kstack[u]
           /\ OwedSignals' = OwedSignals
<1> DEFINE n == Len(kstack[t])
<1>1. kstack[t] \in Seq(Frame) /\ n \in Nat
  BY LenProperties DEF KStacks
<1>2. /\ Len(Append(kstack[t], f)) = n + 1 /\ Append(kstack[t], f)[n + 1] = f
      /\ \A i \in 1..n : Append(kstack[t], f)[i] = kstack[t][i]
  BY <1>1, AppendProperties
<1>3. /\ Len(kstack'[t]) = n + 1 /\ kstack'[t][n + 1] = f
      /\ \A i \in 1..n : kstack'[t][i] = kstack[t][i]
      /\ \A u \in Ctx \ {t} : kstack'[u] = kstack[u]
  BY <1>2 DEF KStacks, Push
<1> HIDE DEF n
<1>4. \A i \in 1..(n + 1) : i \in 1..n \/ i = n + 1
  BY <1>1
<1>5. \A i \in 1..n : i \in 1..(n + 1)
  BY <1>1
<1>6. n + 1 \in 1..(n + 1)
  BY <1>1
<1>7. \A u \in Ctx : Frames(u) \subseteq Frames(u)'
  BY <1>3, <1>5 DEF Frames, n
<1>8. f \in Frames(t)' /\ GainsOnly(t, f)
  BY <1>3, <1>4, <1>6 DEF Frames, GainsOnly, n
<1>9. \A u, i : IsOwed(kstack, u, i) <=> IsOwed(kstack', u, i)
  <2> SUFFICES ASSUME NEW u, NEW i PROVE IsOwed(kstack, u, i) <=> IsOwed(kstack', u, i)
    OBVIOUS
  <2>1. CASE u # t
    BY <1>3, <2>1 DEF IsOwed
  <2>2. CASE u = t
    BY <1>3, <1>4, <1>5, <2>2 DEF IsOwed, n
  <2> QED BY <2>1, <2>2
<1>10. OwedSignals' = OwedSignals
  BY <1>9, OwedEqual DEF OwedSignals, Owed
<1> QED BY <1>3, <1>7, <1>8, <1>10

\* The topmost frame returns.
LEMMA PopView ==
    ASSUME kstack \in KStacks, NEW t \in Ctx, Top(t) # "body", kstack' = Pop(t)
    PROVE  /\ \A u \in Ctx : Frames(u)' \subseteq Frames(u)
           /\ LosesOnly(t, TopOf(t))
           /\ \A u \in Ctx \ {t} : kstack'[u] = kstack[u]
           /\ OwedChange(t, Top(t) = "signal", FALSE)
<1> DEFINE n == Len(kstack[t])
<1>1. kstack[t] \in Seq(Frame) /\ n \in Nat /\ n # 0 /\ kstack[t] # <<>>
  <2>1. kstack[t] \in Seq(Frame) /\ kstack[t] # <<>>
    BY DEF KStacks, Top
  <2> QED BY <2>1, LenProperties, EmptySeq
<1>2. \A i \in 1..n : kstack[t][i] \in Frame
  BY <1>1, LenProperties
<1>3. /\ Len(SubSeq(kstack[t], 1, n - 1)) = n - 1
      /\ \A i \in 1..(n - 1) : SubSeq(kstack[t], 1, n - 1)[i] = kstack[t][i]
  <2>1. \A i \in 1..(n - 1) : kstack[t][i] \in Frame
    BY <1>1, <1>2
  <2>2. /\ Len(SubSeq(kstack[t], 1, n - 1)) = IF 1 <= n - 1 THEN (n - 1) - 1 + 1 ELSE 0
        /\ \A i \in 1..((n - 1) - 1 + 1) :
              SubSeq(kstack[t], 1, n - 1)[i] = kstack[t][1 + i - 1]
    BY <1>1, <2>1, SubSeqProperties
  <2> QED BY <1>1, <2>2
<1>4. /\ Len(kstack'[t]) = n - 1
      /\ \A i \in 1..(n - 1) : kstack'[t][i] = kstack[t][i]
      /\ \A u \in Ctx \ {t} : kstack'[u] = kstack[u]
  BY <1>3 DEF KStacks, Pop
<1>5. TopOf(t) = kstack[t][n] /\ Top(t) = kstack[t][n].op
  BY <1>1 DEF TopOf, Top
<1> HIDE DEF n
<1>6. /\ \A i \in 1..n : i \in 1..(n - 1) \/ i = n
      /\ \A i \in 1..(n - 1) : i \in 1..n
      /\ n \in 1..n /\ n \notin 1..(n - 1)
  BY <1>1
<1>7. \A u \in Ctx : Frames(u)' \subseteq Frames(u)
  <2>1. ASSUME NEW g \in Frames(t)' PROVE g \in Frames(t)
    <3>1. PICK i \in 1..Len(kstack'[t]) : g = kstack'[t][i]
      BY DEF Frames
    <3>2. i \in 1..n /\ g = kstack[t][i]
      BY <1>4, <1>6, <3>1
    <3> QED BY <3>2 DEF Frames, n
  <2>2. \A u \in Ctx \ {t} : Frames(u)' = Frames(u)
    BY <1>4 DEF Frames
  <2> QED BY <2>1, <2>2
<1>8. LosesOnly(t, TopOf(t))
  <2>1. ASSUME NEW g \in Frames(t) PROVE g \in Frames(t)' \/ g = TopOf(t)
    <3>1. PICK i \in 1..n : g = kstack[t][i]
      BY DEF Frames, n
    <3>2. CASE i \in 1..Len(kstack'[t])
      <4>1. g = kstack'[t][i]
        BY <1>4, <3>1, <3>2
      <4> QED BY <3>2, <4>1 DEF Frames
    <3> QED BY <1>4, <1>5, <1>6, <3>1, <3>2
  <2>2. \A u \in Ctx \ {t} : Frames(u)' = Frames(u)
    BY <1>4 DEF Frames
  <2> QED BY <2>1, <2>2 DEF LosesOnly
<1>9. \A u, i : u # t \/ i # n => (IsOwed(kstack', u, i) <=> IsOwed(kstack, u, i))
  <2> SUFFICES ASSUME NEW u, NEW i, u # t \/ i # n
               PROVE  IsOwed(kstack', u, i) <=> IsOwed(kstack, u, i)
    OBVIOUS
  <2>1. CASE u # t
    BY <1>4, <2>1 DEF IsOwed
  <2>2. CASE u = t
    BY <1>4, <1>6, <2>2 DEF IsOwed, n
  <2> QED BY <2>1, <2>2
<1>10. ~IsOwed(kstack', t, n) /\ (IsOwed(kstack, t, n) <=> Top(t) = "signal")
  BY <1>4, <1>5, <1>6 DEF IsOwed, n
<1>11. OwedChange(t, Top(t) = "signal", FALSE)
  <2>1. CASE Top(t) = "signal"
    <3>1. Owed(kstack) = Owed(kstack') \cup {<<t, n>>} /\ <<t, n>> \notin Owed(kstack')
      BY <1>9, <1>10, <2>1, OwedMore
    <3> QED BY <2>1, <3>1 DEF OwedChange, OwedSignals, Owed, n
  <2>2. CASE Top(t) # "signal"
    <3>1. \A u, i : IsOwed(kstack', u, i) <=> IsOwed(kstack, u, i)
      BY <1>9, <1>10, <2>2
    <3>2. Owed(kstack') = Owed(kstack)
      BY <3>1, OwedEqual
    <3> QED BY <2>2, <3>2 DEF OwedChange, OwedSignals, Owed
  <2> QED BY <2>1, <2>2
<1> QED BY <1>4, <1>7, <1>8, <1>11

\* The topmost frame moves on to its next stage.
LEMMA BecomeView ==
    ASSUME kstack \in KStacks, NEW t \in Ctx, NEW f \in Frame, Top(t) # "body",
           kstack' = Become(t, f)
    PROVE  /\ LosesOnly(t, TopOf(t)) /\ GainsOnly(t, f) /\ f \in Frames(t)'
           /\ \A u \in Ctx \ {t} : kstack'[u] = kstack[u]
           /\ OwedChange(t, Top(t) = "signal", f.op = "signal")
<1> DEFINE n == Len(kstack[t])
<1>1. kstack[t] \in Seq(Frame) /\ n \in Nat /\ n # 0 /\ kstack[t] # <<>>
  <2>1. kstack[t] \in Seq(Frame) /\ kstack[t] # <<>>
    BY DEF KStacks, Top
  <2> QED BY <2>1, LenProperties, EmptySeq
<1>2. n \in 1..n
  BY <1>1
<1>3. [kstack[t] EXCEPT ![n] = f] \in Seq(Frame) /\ Len([kstack[t] EXCEPT ![n] = f]) = n
      /\ \A i \in 1..n : [kstack[t] EXCEPT ![n] = f][i] = IF i = n THEN f ELSE kstack[t][i]
  BY <1>1, <1>2, ExceptSeq
<1>4. /\ Len(kstack'[t]) = n /\ kstack'[t][n] = f
      /\ \A i \in 1..n : i # n => kstack'[t][i] = kstack[t][i]
      /\ \A u \in Ctx \ {t} : kstack'[u] = kstack[u]
  <2>1. kstack'[t] = [kstack[t] EXCEPT ![n] = f]
    BY DEF KStacks, Become
  <2>2. \A u \in Ctx \ {t} : kstack'[u] = kstack[u]
    BY DEF KStacks, Become
  <2> QED BY <1>2, <1>3, <2>1, <2>2
<1>5. TopOf(t) = kstack[t][n] /\ Top(t) = kstack[t][n].op
  BY <1>1 DEF TopOf, Top
<1> HIDE DEF n
<1>6. LosesOnly(t, TopOf(t))
  BY <1>4, <1>5 DEF Frames, LosesOnly, n
<1>7. GainsOnly(t, f) /\ f \in Frames(t)'
  BY <1>2, <1>4 DEF Frames, GainsOnly, n
<1>8. \A u, i : u # t \/ i # n => (IsOwed(kstack', u, i) <=> IsOwed(kstack, u, i))
  <2> SUFFICES ASSUME NEW u, NEW i, u # t \/ i # n
               PROVE  IsOwed(kstack', u, i) <=> IsOwed(kstack, u, i)
    OBVIOUS
  <2>1. CASE u # t
    BY <1>4, <2>1 DEF IsOwed
  <2>2. CASE u = t
    BY <1>4, <2>2 DEF IsOwed, n
  <2> QED BY <2>1, <2>2
<1>9. /\ IsOwed(kstack', t, n) <=> f.op = "signal"
      /\ IsOwed(kstack, t, n) <=> Top(t) = "signal"
  BY <1>2, <1>4, <1>5 DEF IsOwed, n
<1>10. OwedChange(t, Top(t) = "signal", f.op = "signal")
  <2>1. CASE Top(t) = "signal" /\ f.op # "signal"
    <3>1. Owed(kstack) = Owed(kstack') \cup {<<t, n>>} /\ <<t, n>> \notin Owed(kstack')
      BY <1>8, <1>9, <2>1, OwedMore
    <3> QED BY <2>1, <3>1 DEF OwedChange, OwedSignals, Owed, n
  <2>2. CASE Top(t) # "signal" /\ f.op = "signal"
    <3>1. Owed(kstack') = Owed(kstack) \cup {<<t, n>>} /\ <<t, n>> \notin Owed(kstack)
      BY <1>8, <1>9, <2>2, OwedMore
    <3> QED BY <2>2, <3>1 DEF OwedChange, OwedSignals, Owed, n
  <2>3. CASE Top(t) = "signal" <=> f.op = "signal"
    <3>1. \A u, i : IsOwed(kstack', u, i) <=> IsOwed(kstack, u, i)
      BY <1>8, <1>9, <2>3
    <3>2. Owed(kstack') = Owed(kstack)
      BY <3>1, OwedEqual
    <3> QED BY <2>3, <3>2 DEF OwedChange, OwedSignals, Owed
  <2> QED BY <2>1, <2>2, <2>3
<1> QED BY <1>4, <1>6, <1>7, <1>10

-----------------------------------------------------------------------------
(* The cleanup queue: a list threaded through its zombies                   *)

\* f names the zombies of the queue from head to tail.  The last one leads nowhere, or
\* to itself if it was the last already when it was pushed again.
Chain(n, f) ==
    /\ \A i, j \in 1..n : f[i] = f[j] => i = j
    /\ cleanup_head = IF n = 0 THEN NULL ELSE f[1]
    /\ cleanup_tail = IF n = 0 THEN NULL ELSE f[n]
    /\ \A i \in 1..n : IF i < n THEN cleanup_next[f[i]] = f[i + 1]
                       ELSE cleanup_next[f[i]] \in {NULL, f[i]}
\* The entry that a last zombie leading to itself makes the reaper find once more.
Extra(n, f) == IF n # 0 /\ cleanup_next[f[n]] # NULL THEN 1 ELSE 0
Balance(n, f) ==
    /\ n + Extra(n, f) <= Permits /\ Permits <= cleanup_pending
    /\ ~requeued => Extra(n, f) = 0 /\ n = Permits

LEMMA QueuedKept ==
    ASSUME UNCHANGED <<cleanup_head, cleanup_next>> PROVE Queued' = Queued
  BY DEF Queued, FollowsNext

\* A set of natural numbers has a least member.
LEMMA Least == ASSUME NEW X \in SUBSET Nat, X # {} PROVE \E x \in X : \A y \in X : x <= y
<1> DEFINE R == OpToRel(<, Nat)
<1>1. IsWellFoundedOn(R, Nat)
  BY NatLessThanWellFounded
<1>2. \A i, j \in Nat : i < j => <<i, j>> \in R
  BY DEF OpToRel
<1> HIDE DEF R
<1>3. PICK x \in X : \A y \in X : ~(<<y, x>> \in R)
  BY <1>1, WFMin
<1>4. ASSUME NEW y \in X PROVE x <= y
  <2>1. x \in Nat /\ y \in Nat /\ ~(y < x)
    BY <1>2, <1>3
  <2> QED BY <2>1
<1> QED BY <1>4

\* What the chain names is what can be reached from its head.
Links(n, f, h, nx) ==
    /\ \A i, j \in 1..n : f[i] = f[j] => i = j
    /\ h = IF n = 0 THEN NULL ELSE f[1]
    /\ \A i \in 1..n : IF i < n THEN nx[f[i]] = f[i + 1] ELSE nx[f[i]] \in {NULL, f[i]}
Follows(S, h, nx) == /\ h # NULL => h \in S
                     /\ \A t \in S : nx[t] # NULL => nx[t] \in S
LEMMA LinksReach ==
    ASSUME NEW n \in Nat, NEW f \in [1..n -> Task], NEW h, NEW nx, Links(n, f, h, nx)
    PROVE  {t \in Task : \A S \in SUBSET Task : Follows(S, h, nx) => t \in S}
             = {f[i] : i \in 1..n}
<1> DEFINE R == {f[i] : i \in 1..n}
<1>0. NULL \notin Task
  BY ContextAssumption DEF Ctx
<1>1. R \in SUBSET Task /\ Follows(R, h, nx)
  <2>1. h # NULL => h \in R
    BY DEF Links
  <2>2. ASSUME NEW i \in 1..n, nx[f[i]] # NULL PROVE nx[f[i]] \in R
    <3>1. CASE i < n
      <4>1. i + 1 \in 1..n /\ nx[f[i]] = f[i + 1]
        BY <3>1 DEF Links
      <4> QED BY <4>1
    <3>2. CASE ~(i < n)
      BY <2>2, <3>2 DEF Links
    <3> QED BY <3>1, <3>2
  <2> QED BY <2>1, <2>2 DEF Follows
<1>2. ASSUME NEW S \in SUBSET Task, Follows(S, h, nx), NEW k \in 1..n PROVE f[k] \in S
  <2> DEFINE X == {i \in 1..n : f[i] \notin S}
  <2>1. SUFFICES ASSUME X # {} PROVE FALSE
    OBVIOUS
  <2>3. X \in SUBSET Nat
    OBVIOUS
  <2> HIDE DEF X
  <2>4. PICK i \in X : \A j \in X : i <= j
    BY <2>1, <2>3, Least
  <2>5. i \in 1..n /\ f[i] \notin S
    BY DEF X
  <2>6. CASE i = 1
    BY <1>0, <1>2, <2>5, <2>6 DEF Links, Follows
  <2>7. CASE i # 1
    <3>1. i - 1 \in 1..n /\ i - 1 < n /\ (i - 1) + 1 = i /\ ~(i <= i - 1)
      BY <2>5, <2>7
    <3>2. f[i - 1] \in S
      BY <2>4, <3>1 DEF X
    <3>3. nx[f[i - 1]] = f[i] /\ f[i] # NULL
      BY <1>0, <2>5, <3>1 DEF Links
    <3> QED BY <1>2, <2>5, <3>2, <3>3 DEF Follows
  <2> QED BY <2>6, <2>7
<1> QED BY <1>1, <1>2

LEMMA ChainQueued ==
    ASSUME NEW n \in Nat, NEW f \in [1..n -> Task]
    PROVE  /\ Chain(n, f) => Queued = {f[i] : i \in 1..n} /\ Cardinality(Queued) = n
           /\ Chain(n, f)' => Queued' = {f[i] : i \in 1..n}
<1>1. Chain(n, f) => Queued = {f[i] : i \in 1..n}
  BY LinksReach DEF Chain, Links, Follows, Queued, FollowsNext
<1>2. Chain(n, f)' => Queued' = {f[i] : i \in 1..n}
  BY LinksReach DEF Chain, Links, Follows, Queued, FollowsNext
<1>3. ASSUME Chain(n, f) PROVE Cardinality({f[i] : i \in 1..n}) = n
  <2>1. IsFiniteSet(1..n) /\ Cardinality(1..n) = n
    BY FS_Interval
  <2>2. f \in Bijection(1..n, {f[i] : i \in 1..n})
    BY <1>3 DEF Chain, Bijection, Injection, Surjection, IsInjective
  <2> QED BY <2>1, <2>2, FS_Bijection DEF ExistsBijection
<1> QED BY <1>1, <1>2, <1>3

\* What a push of z makes of the chain: z behind the last, or, when z was in it, the
\* chain up to z, or the last leading to itself.
LEMMA PushChain ==
    ASSUME IInv, NEW z \in Task, cleanup_queue_push(z),
           NEW n \in Nat, NEW f \in [1..n -> Task], Chain(n, f)
    PROVE  \E m \in Nat : \E g \in [1..m -> Task] :
             /\ Chain(m, g)' /\ m + Extra(m, g)' <= n + Extra(n, f) + 1
             /\ z \notin Queued => m = n + 1 /\ Extra(m, g)' = 0 /\ \A i \in 1..n : g[i] = f[i]
             /\ \E i \in 1..m : g[i] = z
<1>0. /\ cleanup_next \in [Ctx -> Ctx \cup {NULL}] /\ Task \subseteq Ctx /\ NULL \notin Ctx
      /\ cleanup_head' = (IF cleanup_tail = NULL THEN z ELSE cleanup_head) /\ cleanup_tail' = z
      /\ cleanup_next' = IF cleanup_tail = NULL THEN [cleanup_next EXCEPT ![z] = NULL]
                         ELSE [cleanup_next EXCEPT ![z] = NULL, ![cleanup_tail] = z]
      /\ Queued = {f[i] : i \in 1..n} /\ Extra(n, f) \in {0, 1}
  BY ContextAssumption, ChainQueued DEF IInv, TypeOK, cleanup_queue_push, LinkLast, Ctx, Extra
<1>1. \A u \in Ctx : cleanup_next'[u] = IF cleanup_tail # NULL /\ u = cleanup_tail THEN z
                                        ELSE IF u = z THEN NULL ELSE cleanup_next[u]
  BY <1>0
<1>2. CASE z \notin Queued
  <2> DEFINE g == [i \in 1..(n + 1) |-> IF i = n + 1 THEN z ELSE f[i]]
  <2>1. n + 1 \in Nat /\ g \in [1..(n + 1) -> Task] /\ g[n + 1] = z /\ n + 1 \in 1..(n + 1)
        /\ \A i \in 1..n : g[i] = f[i] /\ f[i] # z /\ i \in 1..(n + 1)
    BY <1>0, <1>2
  <2> HIDE DEF g
  <2>2. cleanup_next'[z] = NULL
    BY <1>0, <1>1, <2>1 DEF Chain
  <2>3. \A i \in 1..n : cleanup_next'[f[i]] = IF i = n THEN z ELSE cleanup_next[f[i]]
    BY <1>0, <1>1, <2>1 DEF Chain
  <2>4. Chain(n + 1, g)'
    <3>1. \A i, j \in 1..(n + 1) : g[i] = g[j] => i = j
      BY <2>1 DEF Chain
    <3>2. cleanup_head' = g[1]
      BY <1>0, <2>1 DEF Chain
    <3>3. \A i \in 1..(n + 1) : IF i < n + 1 THEN cleanup_next'[g[i]] = g[i + 1]
                                ELSE cleanup_next'[g[i]] \in {NULL, g[i]}
      BY <2>1, <2>2, <2>3 DEF Chain
    <3> QED BY <1>0, <2>1, <3>1, <3>2, <3>3 DEF Chain
  <2>5. Extra(n + 1, g)' = 0
    BY <2>1, <2>2 DEF Extra
  <2> QED BY <1>0, <2>1, <2>4, <2>5
<1>3. CASE z \in Queued
  <2>1. PICK k \in 1..n : f[k] = z
    BY <1>0, <1>3
  <2> DEFINE g == [i \in 1..k |-> f[i]]
  <2>2. k \in Nat /\ g \in [1..k -> Task] /\ g[k] = z /\ k \in 1..k /\ k # 0 /\ n # 0
        /\ \A i \in 1..k : g[i] = f[i] /\ i \in 1..n
        /\ cleanup_tail = f[n] /\ cleanup_tail # NULL /\ cleanup_head = f[1] /\ n \in 1..n
    BY <1>0, <2>1 DEF Chain
  <2> HIDE DEF g
  <2>3. cleanup_next'[z] = IF k = n THEN z ELSE NULL
    BY <1>0, <1>1, <2>1, <2>2 DEF Chain
  <2>4. \A i \in 1..k : i < k => cleanup_next'[f[i]] = cleanup_next[f[i]]
    <3> SUFFICES ASSUME NEW i \in 1..k, i < k PROVE cleanup_next'[f[i]] = cleanup_next[f[i]]
      OBVIOUS
    <3>1. f[i] # z /\ f[i] # f[n] /\ f[i] \in Ctx
      BY <1>0, <2>1, <2>2 DEF Chain
    <3> QED BY <1>1, <2>2, <3>1
  <2>5. Chain(k, g)'
    <3>1. \A i, j \in 1..k : g[i] = g[j] => i = j
      BY <2>2 DEF Chain
    <3>2. cleanup_head' = g[1] /\ cleanup_tail' = g[k]
      BY <1>0, <2>2
    <3>3. \A i \in 1..k : IF i < k THEN cleanup_next'[g[i]] = g[i + 1]
                          ELSE cleanup_next'[g[i]] \in {NULL, g[i]}
      BY <2>1, <2>2, <2>3, <2>4 DEF Chain
    <3> QED BY <2>2, <3>1, <3>2, <3>3 DEF Chain
  <2>6. Extra(k, g)' = IF k = n THEN 1 ELSE 0
    BY <1>0, <2>2, <2>3 DEF Extra
  <2> QED BY <1>0, <1>3, <2>1, <2>2, <2>5, <2>6
<1> QED BY <1>2, <1>3

\* A pop takes the first zombie off the chain, or off the loop at its end.
LEMMA PopChain ==
    ASSUME IInv, cleanup_head # NULL, NEW d \in BOOLEAN, cleanup_queue_pop(d),
           NEW n \in Nat, NEW f \in [1..n -> Task], Chain(n, f)
    PROVE  \E m \in Nat : \E g \in [1..m -> Task] :
             /\ Chain(m, g)' /\ m + Extra(m, g)' = n + Extra(n, f) - 1
             /\ Extra(n, f) = 0 => Extra(m, g)' = 0
             /\ \A y \in Queued : y = cleanup_head \/ \E i \in 1..m : g[i] = y
<1>0. /\ cleanup_next \in [Ctx -> Ctx \cup {NULL}] /\ Task \subseteq Ctx /\ NULL \notin Ctx
      /\ n # 0 /\ cleanup_head = f[1] /\ cleanup_tail = f[n] /\ 1 \in 1..n /\ n \in 1..n
      /\ cleanup_head' = cleanup_next[f[1]]
      /\ cleanup_tail' = (IF cleanup_next[f[1]] = NULL THEN NULL ELSE f[n])
      /\ cleanup_next' = [cleanup_next EXCEPT ![f[1]] = NULL]
      /\ Queued = {f[i] : i \in 1..n} /\ \A i \in 1..n : f[i] # NULL /\ f[i] \in Ctx
  <2>1. /\ cleanup_next \in [Ctx -> Ctx \cup {NULL}] /\ Task \subseteq Ctx /\ NULL \notin Ctx
    BY ContextAssumption DEF IInv, TypeOK, Ctx
  <2>2. n # 0 /\ cleanup_head = f[1] /\ cleanup_tail = f[n] /\ 1 \in 1..n /\ n \in 1..n
    BY DEF Chain
  <2>3. Queued = {f[i] : i \in 1..n}
    BY ChainQueued
  <2> QED BY <2>1, <2>2, <2>3 DEF cleanup_queue_pop
<1>1. \A u \in Ctx : cleanup_next'[u] = IF u = f[1] THEN NULL ELSE cleanup_next[u]
  BY <1>0
<1>2. CASE n = 1 /\ cleanup_next[f[1]] = NULL
  <2> DEFINE g == [i \in 1..0 |-> f[1]]
  <2>1. g \in [1..0 -> Task] /\ Chain(0, g)'
    BY <1>0, <1>2 DEF Chain
  <2>2. Extra(0, g)' = 0 /\ Extra(n, f) = 0
    BY <1>0, <1>2 DEF Extra
  <2>3. \A y \in Queued : y = cleanup_head
    BY <1>0, <1>2
  <2> HIDE DEF g
  <2>4. 0 + Extra(0, g)' = n + Extra(n, f) - 1
    BY <1>2, <2>2
  <2>5. Chain(0, g)' /\ Extra(n, f) = 0 /\ Extra(0, g)' = 0 /\ 0 \in Nat
    BY <2>1, <2>2
  <2>6. \E h \in [1..0 -> Task] :
           /\ Chain(0, h)' /\ 0 + Extra(0, h)' = n + Extra(n, f) - 1
           /\ Extra(n, f) = 0 => Extra(0, h)' = 0
           /\ \A y \in Queued : y = cleanup_head \/ \E i \in 1..0 : h[i] = y
    BY <2>1, <2>3, <2>4, <2>5, Zenon
  <2> QED BY <2>5, <2>6, Zenon
<1>3. CASE n = 1 /\ cleanup_next[f[1]] # NULL
  <2>1. cleanup_next[f[1]] = f[1]
    BY <1>0, <1>3 DEF Chain
  <2>2. Chain(1, f)'
    BY <1>0, <1>1, <1>3, <2>1 DEF Chain
  <2>3. Extra(1, f)' = 0 /\ Extra(n, f) = 1
    BY <1>0, <1>1, <1>3 DEF Extra
  <2>4. \A y \in Queued : y = cleanup_head
    BY <1>0, <1>3
  <2>5. 1 + Extra(1, f)' = n + Extra(n, f) - 1 /\ f \in [1..1 -> Task] /\ 1 \in Nat
    BY <1>3, <2>3
  <2>6. Extra(n, f) # 0
    BY <2>3
  <2> QED BY <2>2, <2>4, <2>5, <2>6
<1>4. CASE n # 1
  <2> DEFINE g == [i \in 1..(n - 1) |-> f[i + 1]]
  <2>1. /\ n - 1 \in Nat /\ n - 1 # 0 /\ g \in [1..(n - 1) -> Task]
        /\ \A i \in 1..(n - 1) : g[i] = f[i + 1] /\ i + 1 \in 1..n /\ i \in 1..n
    BY <1>0, <1>4
  <2> HIDE DEF g
  <2>2. \A i \in 1..n : i # 1 => f[i] # f[1] /\ cleanup_next'[f[i]] = cleanup_next[f[i]]
    BY <1>0, <1>1 DEF Chain
  <2>3. cleanup_next[f[1]] = f[2] /\ f[2] = g[1] /\ g[n - 1] = f[n] /\ f[2] # NULL
    BY <1>0, <1>4, <2>1 DEF Chain
  <2>4. Chain(n - 1, g)'
    <3>1. \A i, j \in 1..(n - 1) : g[i] = g[j] => i = j
      <4> SUFFICES ASSUME NEW i \in 1..(n - 1), NEW j \in 1..(n - 1), g[i] = g[j] PROVE i = j
        OBVIOUS
      <4>1. f[i + 1] = f[j + 1] /\ i + 1 \in 1..n /\ j + 1 \in 1..n
        BY <2>1
      <4>2. i + 1 = j + 1
        BY <4>1 DEF Chain
      <4> QED BY <4>2
    <3>2. cleanup_head' = g[1] /\ cleanup_tail' = g[n - 1]
      BY <1>0, <2>3
    <3>3. \A i \in 1..(n - 1) : IF i < n - 1 THEN cleanup_next'[g[i]] = g[i + 1]
                                ELSE cleanup_next'[g[i]] \in {NULL, g[i]}
      <4> SUFFICES ASSUME NEW i \in 1..(n - 1)
                   PROVE  IF i < n - 1 THEN cleanup_next'[g[i]] = g[i + 1]
                          ELSE cleanup_next'[g[i]] \in {NULL, g[i]}
        OBVIOUS
      <4>1. i + 1 \in 1..n /\ i + 1 # 1 /\ g[i] = f[i + 1]
            /\ cleanup_next'[g[i]] = cleanup_next[f[i + 1]]
        BY <2>1, <2>2
      <4>2. CASE i < n - 1
        <5>1. i + 1 < n /\ i + 1 \in 1..(n - 1) /\ g[i + 1] = f[(i + 1) + 1]
          BY <2>1, <4>2
        <5>2. cleanup_next[f[i + 1]] = f[(i + 1) + 1]
          BY <4>1, <5>1 DEF Chain
        <5> QED BY <4>1, <4>2, <5>1, <5>2
      <4>3. CASE ~(i < n - 1)
        <5>1. ~(i + 1 < n)
          BY <4>1, <4>3
        <5>2. cleanup_next[f[i + 1]] \in {NULL, f[i + 1]}
          BY <4>1, <5>1 DEF Chain
        <5> QED BY <4>1, <4>3, <5>2
      <4> QED BY <4>2, <4>3
    <3> QED BY <2>1, <3>1, <3>2, <3>3 DEF Chain
  <2>5. Extra(n - 1, g)' = Extra(n, f) /\ Extra(n, f) \in {0, 1}
    BY <1>0, <1>4, <2>1, <2>2, <2>3 DEF Extra
  <2>6. \A y \in Queued : y = cleanup_head \/ \E i \in 1..(n - 1) : g[i] = y
    <3> SUFFICES ASSUME NEW i \in 1..n, i # 1 PROVE \E j \in 1..(n - 1) : g[j] = f[i]
      BY <1>0
    <3>1. i - 1 \in 1..(n - 1) /\ (i - 1) + 1 = i
      OBVIOUS
    <3>2. g[i - 1] = f[i]
      BY <2>1, <3>1
    <3> QED BY <3>1, <3>2
  <2> QED BY <2>1, <2>4, <2>5, <2>6
<1> QED BY <1>2, <1>3, <1>4

-----------------------------------------------------------------------------
(* The invariant of the hand-over to the reaper, on top of IInv             *)

Unallocated == \A t \in Task : state[t] = "UNUSED" => kstack[t] = <<>>
OnlyUsersCall == \A t \in Ctx : \A g \in Frames(t) : g.op = "syscall" => t \in UserTask
QueueHeld ==
    /\ IsFiniteSet(OwedSignals)
    /\ \E n \in Nat : \E f \in [1..n -> Task] : Chain(n, f) /\ Balance(n, f)
    /\ ~requeued => cut_off = {}
ZombiesHeld ==
    \A z \in Task : state[z] = "ZOMBIE" =>
        \/ \E c \in CPU : z = current_task[c] \/ z = previous_task[c]
        \/ \E t \in Ctx : FOf("finish", z) \in Frames(t)
        \/ z \in Queued \cup cut_off
ReaperSleeps ==
    /\ reaper_waits => cleanup_count = 0
    /\ state[reaper] = "BLOCKED" => reaper_waits \/ \E t \in Ctx : FOf("wake", reaper) \in Frames(t)
    /\ state[reaper] # "ZOMBIE"
RInv == Unallocated /\ OnlyUsersCall /\ ZombiesHeld /\ QueueHeld /\ ReaperSleeps

\* A step that leaves the frames of the hand-over alone.
FramesKept ==
    /\ \A u \in Ctx : \A g \in Frames(u) : g.op \in {"finish", "wake"} => g \in Frames(u)'
    /\ \A u \in Ctx : \A g \in Frames(u)' : g.op = "syscall" => g \in Frames(u) \/ u \in UserTask
    /\ OwedSignals' = OwedSignals
\* A step that keeps hold of the tasks its CPUs are on or leaving.
HandKept ==
    \A z \in Task : (\E c \in CPU : z = current_task[c] \/ z = previous_task[c]) =>
        \/ \E c \in CPU : z = current_task'[c] \/ z = previous_task'[c]
        \/ \E t \in Ctx : FOf("finish", z) \in Frames(t)'
\* A step in which only a current task other than the reaper dies.
StatesKept ==
    /\ \A u \in Task :
         /\ state'[u] = "UNUSED" => state[u] = "UNUSED" /\ kstack'[u] = kstack[u]
         /\ state'[u] = "ZOMBIE" => \/ state[u] = "ZOMBIE"
                                    \/ u # reaper /\ \E c \in CPU : u = current_task'[c]
\* A step that puts the reaper to sleep only among the waiters, without a permit.
ReaperKept ==
    /\ state'[reaper] = "BLOCKED" =>
          reaper_waits' \/ (state[reaper] = "BLOCKED" /\ ~reaper_waits)
    /\ reaper_waits' => reaper_waits \/ cleanup_count = 0

\* Such a step preserves the invariant.
LEMMA KeptRInv ==
    ASSUME RInv, FramesKept, HandKept, StatesKept, ReaperKept,
           UNCHANGED <<queueVars, cleanup_count>>
    PROVE  RInv'
<1>0. reaper \in Task /\ Task \subseteq Ctx
  BY DEF Task, Ctx
<1>1. Unallocated'
  BY DEF RInv, Unallocated, StatesKept
<1>2. OnlyUsersCall'
  BY DEF RInv, OnlyUsersCall, FramesKept
<1>3. ZombiesHeld'
  <2> SUFFICES ASSUME NEW z \in Task, state'[z] = "ZOMBIE"
               PROVE  \/ \E c \in CPU : z = current_task'[c] \/ z = previous_task'[c]
                      \/ \E t \in Ctx : FOf("finish", z) \in Frames(t)'
                      \/ z \in (Queued \cup cut_off)'
    BY DEF ZombiesHeld
  <2>1. CASE state[z] # "ZOMBIE"
    BY <2>1 DEF StatesKept
  <2>2. CASE state[z] = "ZOMBIE"
    <3>1. CASE \E c \in CPU : z = current_task[c] \/ z = previous_task[c]
      BY <3>1 DEF HandKept
    <3>2. CASE \E t \in Ctx : FOf("finish", z) \in Frames(t)
      BY <3>2 DEF FramesKept, FOf
    <3>3. CASE z \in Queued \cup cut_off
      BY <3>3, QueuedKept DEF queueVars
    <3> QED BY <2>2, <3>1, <3>2, <3>3 DEF RInv, ZombiesHeld
  <2> QED BY <2>1, <2>2
<1>4. QueueHeld'
  <2>1. OwedSignals' = OwedSignals
    BY DEF FramesKept
  <2> QED BY <2>1 DEF RInv, QueueHeld, Chain, Balance, Extra, Permits, queueVars
<1>5. ReaperSleeps'
  <2>1. state'[reaper] # "ZOMBIE"
    BY <1>0 DEF RInv, ReaperSleeps, StatesKept
  <2>2. \A t \in Ctx : FOf("wake", reaper) \in Frames(t) => FOf("wake", reaper) \in Frames(t)'
    BY DEF FramesKept, FOf
  <2>3. reaper_waits' => cleanup_count' = 0
    BY DEF RInv, ReaperSleeps, ReaperKept
  <2>4. state'[reaper] = "BLOCKED" =>
            reaper_waits' \/ \E t \in Ctx : FOf("wake", reaper) \in Frames(t)'
    BY <2>2, Zenon DEF RInv, ReaperSleeps, ReaperKept
  <2> QED BY <2>1, <2>3, <2>4 DEF ReaperSleeps
<1> QED BY <1>1, <1>2, <1>3, <1>4, <1>5 DEF RInv

\* The frames of t's kernel stack change, but none that hands a task over.
QuietFrames(t) ==
    \/ kstack' = kstack
    \/ \E f \in Frame : /\ f.op \notin {"signal", "syscall"} /\ kstack' = Push(t, f)
    \/ t \in UserTask /\ kstack' = Push(t, F("syscall"))
    \/ /\ Top(t) \notin {"body", "finish", "signal", "wake"}
       /\ \/ kstack' = Pop(t)
          \/ \E f \in Frame : f.op \notin {"signal", "syscall"} /\ kstack' = Become(t, f)

\* Then the frames of the hand-over are what they were.
LEMMA QuietFramesKept ==
    ASSUME kstack \in KStacks, NEW t \in Ctx, QuietFrames(t)
    PROVE  FramesKept /\ \A u \in Ctx \ {t} : kstack'[u] = kstack[u]
<1>0. /\ F("syscall") \in Frame /\ F("syscall").op = "syscall"
      /\ Top(t) # "body" => TopOf(t).op = Top(t)
  BY PlainFrames DEF F, Top, TopOf
<1>1. CASE kstack' = kstack
  BY <1>1 DEF FramesKept, Frames, OwedSignals
<1>2. CASE \E f \in Frame : f.op \notin {"signal", "syscall"} /\ kstack' = Push(t, f)
  <2>1. PICK f \in Frame : f.op \notin {"signal", "syscall"} /\ kstack' = Push(t, f)
    BY <1>2
  <2>2. /\ \A u \in Ctx : Frames(u) \subseteq Frames(u)'
        /\ GainsOnly(t, f) /\ OwedSignals' = OwedSignals
        /\ \A u \in Ctx \ {t} : kstack'[u] = kstack[u]
    BY <2>1, PushView
  <2> QED BY <2>1, <2>2 DEF FramesKept, GainsOnly
<1>3. CASE t \in UserTask /\ kstack' = Push(t, F("syscall"))
  <2>2. /\ \A u \in Ctx : Frames(u) \subseteq Frames(u)'
        /\ GainsOnly(t, F("syscall")) /\ OwedSignals' = OwedSignals
        /\ \A u \in Ctx \ {t} : kstack'[u] = kstack[u]
    BY <1>0, <1>3, PushView
  <2> QED BY <1>3, <2>2 DEF FramesKept, GainsOnly
<1>4. CASE Top(t) \notin {"body", "finish", "signal", "wake"} /\ kstack' = Pop(t)
  <2>1. /\ \A u \in Ctx : Frames(u)' \subseteq Frames(u)
        /\ LosesOnly(t, TopOf(t))
        /\ \A u \in Ctx \ {t} : kstack'[u] = kstack[u]
        /\ OwedChange(t, Top(t) = "signal", FALSE)
    BY <1>4, PopView
  <2>2. OwedSignals' = OwedSignals
    BY <1>4, <2>1 DEF OwedChange
  <2> QED BY <1>0, <1>4, <2>1, <2>2 DEF FramesKept, LosesOnly
<1>5. CASE /\ Top(t) \notin {"body", "finish", "signal", "wake"}
           /\ \E f \in Frame : f.op \notin {"signal", "syscall"} /\ kstack' = Become(t, f)
  <2>1. PICK f \in Frame : f.op \notin {"signal", "syscall"} /\ kstack' = Become(t, f)
    BY <1>5
  <2>2. /\ LosesOnly(t, TopOf(t)) /\ GainsOnly(t, f)
        /\ \A u \in Ctx \ {t} : kstack'[u] = kstack[u]
        /\ OwedChange(t, Top(t) = "signal", f.op = "signal")
    BY <1>5, <2>1, BecomeView
  <2>3. OwedSignals' = OwedSignals
    BY <1>5, <2>1, <2>2 DEF OwedChange
  <2> QED BY <1>0, <1>5, <2>1, <2>2, <2>3 DEF FramesKept, LosesOnly, GainsOnly
<1> QED BY <1>1, <1>2, <1>3, <1>4, <1>5 DEF QuietFrames

\* Nothing happens to the hand-over but a change of t's frames and of states that
\* do not concern it.
LEMMA QuietRInv ==
    ASSUME IInv, RInv, NEW c \in CPU, QuietFrames(current_task[c]), UNCHANGED handVars,
           UNCHANGED cleanVars,
           \A u \in Task : \/ state'[u] = state[u]
                           \/ state'[u] \notin {"UNUSED", "ZOMBIE", "BLOCKED"}
                           \/ state'[u] = "ZOMBIE" /\ u = current_task[c] /\ u # reaper
    PROVE  RInv'
<1>0. /\ kstack \in KStacks /\ current_task[c] \in Ctx /\ Task \subseteq Ctx /\ reaper \in Task
      /\ current_task[c] \in Task => state[current_task[c]] # "UNUSED"
  BY DEF IInv, TypeOK, CurrentExact, KStacks, Ctx, Task
<1>1. FramesKept /\ \A u \in Ctx \ {current_task[c]} : kstack'[u] = kstack[u]
  BY <1>0, QuietFramesKept
<1>2. HandKept
  BY DEF HandKept, handVars
<1>3. StatesKept
  BY <1>0, <1>1 DEF StatesKept, handVars
<1>4. ReaperKept
  <2>1. state'[reaper] = "BLOCKED" => state[reaper] = "BLOCKED"
    BY <1>0
  <2>2. reaper_waits' = reaper_waits
    BY DEF cleanVars
  <2> QED BY <2>1, <2>2, Zenon DEF ReaperKept
<1> QED BY <1>1, <1>2, <1>3, <1>4, KeptRInv DEF cleanVars

\* A switch keeps hold of the task it leaves.
LEMMA SwitchRInv ==
    ASSUME IInv, RInv, NEW c \in CPU, NEW nxt, NEW s \in {"READY", "BLOCKED", "SLEEPING"},
           SwitchesTo(c, nxt, s), LockFree, QuietFrames(current_task[c]),
           UNCHANGED <<queueVars, cleanup_count>>,
           \/ UNCHANGED reaper_waits /\ (s = "BLOCKED" => current_task[c] # reaper)
           \/ reaper_waits' /\ cleanup_count = 0
    PROVE  RInv'
<1>0. /\ kstack \in KStacks /\ current_task[c] \in Ctx /\ Task \subseteq Ctx /\ reaper \in Task
      /\ current_task[c] \in Task => state[current_task[c]] # "UNUSED"
      /\ current_task \in [CPU -> Ctx] /\ previous_task \in [CPU -> Ctx \cup {NULL}]
  BY DEF IInv, TypeOK, CurrentExact, KStacks, Ctx, Task
<1>1. FramesKept /\ \A u \in Ctx \ {current_task[c]} : kstack'[u] = kstack[u]
  BY <1>0, QuietFramesKept
<1>2. previous_task[c] = NULL /\ NULL \notin Ctx
  BY ContextAssumption DEF IInv, HandoffExact, LockFree
<1>3. HandKept
  <2> SUFFICES ASSUME NEW z \in Task, NEW d \in CPU, z = current_task[d] \/ z = previous_task[d]
               PROVE  \E e \in CPU : z = current_task'[e] \/ z = previous_task'[e]
    BY DEF HandKept
  <2>1. CASE UNCHANGED <<current_task, previous_task, phase>>
    BY <2>1
  <2>2. CASE /\ current_task' = [current_task EXCEPT ![c] = nxt]
             /\ previous_task' = [previous_task EXCEPT ![c] = current_task[c]]
    <3>1. CASE d # c
      <4>1. current_task'[d] = current_task[d] /\ previous_task'[d] = previous_task[d]
        BY <1>0, <2>2, <3>1
      <4> QED BY <4>1
    <3>2. CASE d = c
      <4>1. z = current_task[c] /\ previous_task'[c] = current_task[c]
        BY <1>0, <1>2, <2>2, <3>2
      <4> QED BY <4>1
    <3> QED BY <3>1, <3>2
  <2> QED BY <2>1, <2>2 DEF SwitchesTo
<1>4. StatesKept
  BY <1>0, <1>1 DEF StatesKept, SwitchesTo
<1>5. ReaperKept
  <2>1. s # "BLOCKED" \/ current_task[c] # reaper => (state'[reaper] = "BLOCKED" => state[reaper] = "BLOCKED")
    BY <1>0 DEF SwitchesTo
  <2>2. CASE UNCHANGED reaper_waits /\ (s = "BLOCKED" => current_task[c] # reaper)
    BY <2>1, <2>2, Zenon DEF ReaperKept
  <2>3. CASE reaper_waits' /\ cleanup_count = 0
    BY <2>3, Zenon DEF ReaperKept
  <2> QED BY <2>2, <2>3
<1> QED BY <1>1, <1>3, <1>4, <1>5, KeptRInv

\* The physical switch and what finish_switch leaves for the incoming task.
LEMMA SwitchingRInv ==
    ASSUME IInv, RInv, NEW c \in CPU, Switching(c)
    PROVE  RInv'
<1>0. /\ kstack \in KStacks /\ current_task[c] \in Ctx /\ Task \subseteq Ctx
      /\ previous_task \in [CPU -> Ctx \cup {NULL}]
      /\ current_task[c] \in Task => state[current_task[c]] # "UNUSED"
  BY DEF IInv, TypeOK, CurrentExact, KStacks, Ctx
<1>1. state' = state /\ UNCHANGED cleanVars /\ current_task' = current_task
  BY DEF Switching, arch_context_switch, scheduler_finish_switch, runVars
<1>2. CASE arch_context_switch(c)
  <2>1. kstack' = kstack /\ previous_task' = previous_task
    BY <1>2 DEF arch_context_switch
  <2>2. FramesKept
    BY <2>1 DEF FramesKept, Frames, OwedSignals
  <2>3. HandKept /\ StatesKept
    BY <1>1, <2>1 DEF HandKept, StatesKept
  <2>4. ReaperKept
    BY <1>1, Zenon DEF ReaperKept, cleanVars
  <2> QED BY <1>1, <2>2, <2>3, <2>4, KeptRInv DEF cleanVars
<1>3. CASE scheduler_finish_switch(c)
  <2> DEFINE f == FOf("finish", previous_task[c])
  <2>1. /\ phase[c] = "finish" /\ kstack' = Push(current_task[c], f)
        /\ previous_task' = [previous_task EXCEPT ![c] = NULL]
    BY <1>3 DEF scheduler_finish_switch, ClearHandoff, Cur
  <2>2. previous_task[c] \in Ctx
    BY <1>0, <2>1 DEF IInv, HandoffExact
  <2>3. f \in Frame /\ f.op = "finish"
    BY <2>2, PlainFrames DEF FOf
  <2> HIDE DEF f
  <2>4. /\ f \in Frames(current_task[c])'
        /\ FramesKept /\ \A u \in Ctx \ {current_task[c]} : kstack'[u] = kstack[u]
    <3>1. QuietFrames(current_task[c])
      BY <2>1, <2>3 DEF QuietFrames
    <3>2. f \in Frames(current_task[c])'
      <4>1. PICK t \in Ctx : t = current_task[c] /\ t = current_task'[c]
        BY <1>0, <1>1
      <4>2. f \in Frames(t)'
        BY <1>0, <2>1, <2>3, <4>1, PushView
      <4> QED BY <4>1, <4>2
    <3> QED BY <1>0, <3>1, <3>2, QuietFramesKept
  <2>5. HandKept
    BY <1>0, <1>1, <2>1, <2>4 DEF HandKept, f
  <2>6. StatesKept
    BY <1>0, <1>1, <2>4 DEF StatesKept
  <2>7. ReaperKept
    BY <1>1, Zenon DEF ReaperKept, cleanVars
  <2> QED BY <1>1, <2>4, <2>5, <2>6, <2>7, KeptRInv DEF cleanVars
<1> QED BY <1>2, <1>3 DEF Switching

\* The end of a switch, step by step: the zombie goes from the finish frame to the
\* cleanup queue, its permit from the signal frame to the count, the reaper's wake-up
\* from the wake frame to the run queue.
LEMMA FinishTailRInv ==
    ASSUME IInv, RInv, OnlyTasksDie, NEW c \in CPU, FinishTail(c)
    PROVE  RInv'
<1> DEFINE t == current_task[c]
<1>0. /\ kstack \in KStacks /\ t \in Ctx /\ Task \subseteq Ctx /\ reaper \in Task
      /\ t \in Task => state[t] # "UNUSED"
      /\ cleanup_count \in Nat /\ cleanup_pending \in Int
      /\ state \in [Ctx -> TaskState]
  BY DEF IInv, TypeOK, CurrentExact, KStacks, Ctx, Task
<1>1. IsFiniteSet(OwedSignals) /\ Cardinality(OwedSignals) \in Nat
  BY FS_CardinalityType DEF RInv, QueueHeld
<1>b. PICK n \in Nat : \E f \in [1..n -> Task] : Chain(n, f) /\ Balance(n, f)
  BY DEF RInv, QueueHeld
<1>a. PICK f \in [1..n -> Task] : Chain(n, f) /\ Balance(n, f)
  BY <1>b
<1>2. Top(t) # "body" => TopOf(t) \in Frame /\ TopOf(t).op = Top(t) /\ TopOf(t).task = TopTask(t)
  <2> SUFFICES ASSUME Top(t) # "body" PROVE TopOf(t) \in Frame
    BY DEF TopOf, Top, TopTask
  <2>1. kstack[t] \in Seq(Frame) /\ kstack[t] # <<>>
    BY <1>0 DEF KStacks, Top
  <2>2. Len(kstack[t]) \in 1..Len(kstack[t])
    BY <2>1, EmptySeq
  <2> QED BY <2>1, <2>2, LenProperties DEF TopOf
<1>3. CASE task_internal_finish_switch(c)
  <2> DEFINE z == TopTask(t)
  <2>1. /\ Top(t) = "finish" /\ UNCHANGED <<state, current_task, previous_task>>
        /\ UNCHANGED <<cleanup_count, reaper_waits>>
        /\ \/ /\ state[z] \in {"ZOMBIE", "FREED"} /\ cleanup_queue_push(z)
              /\ kstack' = Become(t, F("signal"))
           \/ state[z] # "ZOMBIE" /\ UNCHANGED queueVars /\ kstack' = Pop(t)
    BY <1>3 DEF task_internal_finish_switch, Cur, runVars, handVars
  <2>2. TopOf(t) = FOf("finish", z) /\ z \in Ctx
    BY <1>2, <2>1 DEF Frame, FOf
  <2> HIDE DEF z
  <2>3. /\ LosesOnly(t, TopOf(t)) /\ \A u \in Ctx \ {t} : kstack'[u] = kstack[u]
        /\ \A u \in Ctx : \A g \in Frames(u)' : g.op # "signal" => g \in Frames(u)
    <3>1. CASE kstack' = Become(t, F("signal"))
      <4>1. F("signal") \in Frame /\ F("signal").op = "signal"
        BY DEF F, Frame
      <4>2. /\ LosesOnly(t, TopOf(t)) /\ GainsOnly(t, F("signal"))
            /\ \A u \in Ctx \ {t} : kstack'[u] = kstack[u]
        BY <1>0, <2>1, <3>1, <4>1, BecomeView
      <4> QED BY <4>1, <4>2 DEF GainsOnly
    <3>2. CASE kstack' = Pop(t)
      BY <1>0, <2>1, <3>2, PopView
    <3> QED BY <2>1, <3>1, <3>2
  <2>4. Unallocated' /\ OnlyUsersCall'
    BY <1>0, <2>1, <2>3 DEF RInv, Unallocated, OnlyUsersCall
  <2>5. /\ \A y \in Task : y \in Queued \cup cut_off => y \in (Queued \cup cut_off)'
        /\ \E m \in Nat : \E g \in [1..m -> Task] : Chain(m, g)' /\ Balance(m, g)'
        /\ state[z] = "ZOMBIE" => z \in Queued'
        /\ IsFiniteSet(OwedSignals') /\ (~requeued' => cut_off' = {})
    <3>1. CASE cleanup_queue_push(z) /\ state[z] \in {"ZOMBIE", "FREED"} /\ kstack' = Become(t, F("signal"))
      <4>0. z \in Task
        BY <2>2, <3>1 DEF OnlyTasksDie
      <4>1a. PICK m \in Nat : \E g \in [1..m -> Task] :
                /\ Chain(m, g)' /\ m + Extra(m, g)' <= n + Extra(n, f) + 1
                /\ z \notin Queued => m = n + 1 /\ Extra(m, g)' = 0 /\ \A i \in 1..n : g[i] = f[i]
                /\ \E i \in 1..m : g[i] = z
        BY <1>a, <3>1, <4>0, PushChain
      <4>1. PICK g \in [1..m -> Task] :
                /\ Chain(m, g)' /\ m + Extra(m, g)' <= n + Extra(n, f) + 1
                /\ z \notin Queued => m = n + 1 /\ Extra(m, g)' = 0 /\ \A i \in 1..n : g[i] = f[i]
                /\ \E i \in 1..m : g[i] = z
        BY <4>1a
      <4>2. Queued' = {g[i] : i \in 1..m}
        BY <4>1, ChainQueued
      <4>3. /\ cleanup_pending' = cleanup_pending + 1 /\ cut_off' = (cut_off \cup Queued) \ Queued'
            /\ ~requeued' => ~requeued /\ z \notin Queued
        BY <3>1 DEF cleanup_queue_push
      <4>4. F("signal") \in Frame /\ F("signal").op = "signal"
        BY DEF F, Frame
      <4>5. OwedChange(t, Top(t) = "signal", F("signal").op = "signal")
        BY <1>0, <2>1, <3>1, <4>4, BecomeView
      <4>6. PICK p : OwedSignals' = OwedSignals \cup {p} /\ p \notin OwedSignals
        BY <2>1, <4>4, <4>5 DEF OwedChange
      <4>7. IsFiniteSet(OwedSignals') /\ Cardinality(OwedSignals') = Cardinality(OwedSignals) + 1
        BY <1>1, <4>6, FS_AddElement
      <4>8. Permits' = Permits + 1 /\ Permits \in Nat
        BY <1>0, <1>1, <2>1, <4>7 DEF Permits
      <4>9. Balance(m, g)'
        <5>1. Extra(m, g)' \in Nat /\ Extra(n, f) \in Nat
          BY DEF Extra
        <5>2. n + Extra(n, f) <= Permits /\ Permits <= cleanup_pending
              /\ (~requeued => Extra(n, f) = 0 /\ n = Permits)
          BY <1>a DEF Balance
        <5>3. m + Extra(m, g)' <= Permits' /\ Permits' <= cleanup_pending'
          BY <1>0, <4>1, <4>3, <4>8, <5>1, <5>2
        <5>4. ~requeued' => Extra(m, g)' = 0 /\ m = Permits'
          BY <4>1, <4>3, <4>8, <5>2
        <5> QED BY <5>3, <5>4 DEF Balance
      <4>10. ~requeued' => cut_off' = {}
        <5> SUFFICES ASSUME ~requeued' PROVE cut_off' = {}
          OBVIOUS
        <5>1. m = n + 1 /\ cut_off = {} /\ \A i \in 1..n : g[i] = f[i]
          BY <4>1, <4>3 DEF RInv, QueueHeld
        <5>2. Queued \subseteq Queued'
          BY <1>a, <4>2, <5>1, ChainQueued
        <5> QED BY <4>3, <5>1, <5>2
      <4> QED BY <4>1, <4>2, <4>3, <4>7, <4>9, <4>10
    <3>2. CASE UNCHANGED queueVars /\ state[z] # "ZOMBIE" /\ kstack' = Pop(t)
      <4>1. OwedChange(t, Top(t) = "signal", FALSE)
        BY <1>0, <2>1, <3>2, PopView
      <4>2. OwedSignals' = OwedSignals
        BY <2>1, <4>1 DEF OwedChange
      <4>3. Chain(n, f)' /\ Balance(n, f)'
        BY <1>a, <2>1, <3>2, <4>2 DEF Chain, Balance, Extra, Permits, queueVars
      <4>4. Queued' = Queued /\ cut_off' = cut_off /\ requeued' = requeued
        BY <3>2, QueuedKept DEF queueVars
      <4> QED BY <1>1, <3>2, <4>2, <4>3, <4>4 DEF RInv, QueueHeld
    <3> QED BY <2>1, <3>1, <3>2
  <2>6. ZombiesHeld' /\ QueueHeld'
    <3> SUFFICES ASSUME NEW y \in Task, state[y] = "ZOMBIE"
                 PROVE  \/ \E d \in CPU : y = current_task[d] \/ y = previous_task[d]
                        \/ \E u \in Ctx : FOf("finish", y) \in Frames(u)'
                        \/ y \in (Queued \cup cut_off)'
      BY <2>1, <2>5 DEF ZombiesHeld, QueueHeld
    <3>1. ASSUME NEW u \in Ctx, FOf("finish", y) \in Frames(u), FOf("finish", y) \notin Frames(u)'
          PROVE  y \in Queued'
      <4>1. FOf("finish", y) = FOf("finish", z)
        BY <2>2, <2>3, <3>1 DEF LosesOnly
      <4>2. y = z
        BY <4>1 DEF FOf
      <4> QED BY <2>5, <4>2
    <3> QED BY <2>5, <3>1 DEF RInv, ZombiesHeld
  <2>7. ReaperSleeps'
    <3>1. \A u \in Ctx : FOf("wake", reaper) \in Frames(u) => FOf("wake", reaper) \in Frames(u)'
      BY <2>2, <2>3 DEF LosesOnly, FOf
    <3> QED BY <2>1, <3>1, Zenon DEF RInv, ReaperSleeps
  <2> QED BY <2>4, <2>6, <2>7 DEF RInv
<1>4. CASE semaphore_signal(c)
  <2>1. /\ Top(t) = "signal" /\ UNCHANGED <<state, current_task, previous_task, queueVars>>
        /\ cleanup_count' = cleanup_count + 1 /\ reaper_waits' = FALSE
        /\ kstack' = IF reaper_waits THEN Become(t, FOf("wake", reaper)) ELSE Pop(t)
    BY <1>4 DEF semaphore_signal, Cur, runVars, handVars
  <2>2. FOf("wake", reaper) \in Frame /\ FOf("wake", reaper).op = "wake"
    BY PlainFrames DEF FOf
  <2>3. /\ LosesOnly(t, TopOf(t)) /\ \A u \in Ctx \ {t} : kstack'[u] = kstack[u]
        /\ \A u \in Ctx : \A g \in Frames(u)' : g.op = "syscall" => g \in Frames(u)
        /\ reaper_waits => FOf("wake", reaper) \in Frames(t)'
        /\ \E p : OwedSignals = OwedSignals' \cup {p} /\ p \notin OwedSignals'
    <3>1. CASE reaper_waits
      <4>1. /\ LosesOnly(t, TopOf(t)) /\ GainsOnly(t, FOf("wake", reaper))
            /\ FOf("wake", reaper) \in Frames(t)'
            /\ \A u \in Ctx \ {t} : kstack'[u] = kstack[u]
            /\ OwedChange(t, Top(t) = "signal", FOf("wake", reaper).op = "signal")
        BY <1>0, <2>1, <2>2, <3>1, BecomeView
      <4> QED BY <2>1, <2>2, <4>1 DEF GainsOnly, OwedChange
    <3>2. CASE ~reaper_waits
      <4>1. /\ \A u \in Ctx : Frames(u)' \subseteq Frames(u)
            /\ LosesOnly(t, TopOf(t)) /\ \A u \in Ctx \ {t} : kstack'[u] = kstack[u]
            /\ OwedChange(t, Top(t) = "signal", FALSE)
        BY <1>0, <2>1, <3>2, PopView
      <4> QED BY <2>1, <3>2, <4>1 DEF OwedChange
    <3> QED BY <3>1, <3>2
  <2>4. \A u \in Ctx : \A g \in Frames(u) : g.op # "signal" => g \in Frames(u)'
    BY <1>2, <2>1, <2>3 DEF LosesOnly
  <2>5. Unallocated' /\ OnlyUsersCall'
    BY <1>0, <2>1, <2>3 DEF RInv, Unallocated, OnlyUsersCall
  <2>6. ZombiesHeld'
    <3>1. Queued' = Queued /\ cut_off' = cut_off
      BY <2>1, QueuedKept DEF queueVars
    <3> QED BY <2>1, <2>4, <3>1 DEF RInv, ZombiesHeld, FOf
  <2>7. QueueHeld'
    <3>1. PICK p : OwedSignals = OwedSignals' \cup {p} /\ p \notin OwedSignals'
      BY <2>3
    <3>2. IsFiniteSet(OwedSignals')
      BY <1>1, <3>1, FS_Subset
    <3>3. Cardinality(OwedSignals) = Cardinality(OwedSignals') + 1
      BY <3>1, <3>2, FS_AddElement
    <3>4. Cardinality(OwedSignals') \in Nat
      BY <3>2, FS_CardinalityType
    <3>5. Permits' = Permits
      BY <1>0, <2>1, <3>3, <3>4 DEF Permits
    <3>6. Chain(n, f)' /\ Balance(n, f)'
      BY <1>a, <2>1, <3>5 DEF Chain, Balance, Extra, queueVars
    <3> QED BY <2>1, <3>2, <3>6 DEF RInv, QueueHeld, queueVars
  <2>8. ReaperSleeps'
    <3>1. \A u \in Ctx : FOf("wake", reaper) \in Frames(u) => FOf("wake", reaper) \in Frames(u)'
      BY <2>2, <2>4
    <3> QED BY <1>0, <2>1, <2>3, <3>1, Zenon DEF RInv, ReaperSleeps
  <2> QED BY <2>5, <2>6, <2>7, <2>8 DEF RInv
<1>5. CASE scheduler_wake_reaper(c)
  <2>1. /\ Top(t) = "wake" /\ WakeEffect(c, TopTask(t)) /\ kstack' = Pop(t)
    BY <1>5 DEF scheduler_wake_reaper, Cur
  <2>2. TopTask(t) = reaper
    BY <1>0, <2>1, TopFrame
  <2>3. /\ UNCHANGED <<current_task, previous_task, queueVars, cleanup_count, reaper_waits>>
        /\ \/ state'[reaper] \notin {"BLOCKED", "ZOMBIE", "UNUSED"}
           \/ state' = state /\ state[reaper] # "BLOCKED"
        /\ \A u \in Task \ {reaper} : state'[u] = state[u]
    <3>1. UNCHANGED <<current_task, previous_task, queueVars, cleanup_count, reaper_waits>>
      BY <2>1 DEF WakeEffect, handVars, cleanVars
    <3>2. CASE state[reaper] \in {"BLOCKED", "SLEEPING"}
      <4>1. state' = [state EXCEPT ![reaper] = "READY"]
        BY <2>1, <2>2, <3>2 DEF WakeEffect
      <4> QED BY <1>0, <3>1, <4>1
    <3>3. CASE state[reaper] \notin {"BLOCKED", "SLEEPING"}
      <4>1. state' = state
        BY <2>1, <2>2, <3>3 DEF WakeEffect
      <4> QED BY <3>1, <3>3, <4>1
    <3> QED BY <3>2, <3>3
  <2>4. /\ \A u \in Ctx : Frames(u)' \subseteq Frames(u)
        /\ LosesOnly(t, TopOf(t)) /\ \A u \in Ctx \ {t} : kstack'[u] = kstack[u]
        /\ OwedChange(t, Top(t) = "signal", FALSE)
    BY <1>0, <2>1, PopView
  <2>5. OwedSignals' = OwedSignals
    BY <2>1, <2>4 DEF OwedChange
  <2>6. \A u \in Ctx : \A g \in Frames(u) : g.op # "wake" => g \in Frames(u)'
    BY <1>2, <2>1, <2>4 DEF LosesOnly
  <2>7. Unallocated' /\ OnlyUsersCall'
    BY <1>0, <2>3, <2>4 DEF RInv, Unallocated, OnlyUsersCall
  <2>8. ZombiesHeld'
    <3>1. \A y \in Task : state'[y] = "ZOMBIE" => state[y] = "ZOMBIE"
      BY <2>3
    <3>2. Queued' = Queued /\ cut_off' = cut_off
      BY <2>3, QueuedKept DEF queueVars
    <3> QED BY <2>3, <2>6, <3>1, <3>2 DEF RInv, ZombiesHeld, FOf
  <2>9. QueueHeld'
    BY <2>3, <2>5 DEF RInv, QueueHeld, Chain, Balance, Extra, Permits, queueVars
  <2>10. ReaperSleeps'
    BY <2>3 DEF RInv, ReaperSleeps
  <2> QED BY <2>7, <2>8, <2>9, <2>10 DEF RInv
<1> QED BY <1>3, <1>4, <1>5 DEF FinishTail

\* The reaper takes one permit and the oldest zombie.
LEMMA ReaperRInv ==
    ASSUME IInv, RInv, NEW c \in CPU, reaper_destroy(c)
    PROVE  RInv'
<1> DEFINE z == cleanup_head
           good == z \in Task \ {reaper} /\ state[z] = "ZOMBIE"
<1>0. /\ kstack \in KStacks /\ Task \subseteq Ctx /\ reaper \in Task /\ reaper \in Ctx
      /\ cleanup_count \in Nat /\ cleanup_pending \in Int /\ state \in [Ctx -> TaskState]
      /\ NULL \notin Task
  BY ContextAssumption DEF IInv, TypeOK, KStacks, Ctx, Task
<1>1. IsFiniteSet(OwedSignals) /\ Cardinality(OwedSignals) \in Nat
  BY FS_CardinalityType DEF RInv, QueueHeld
<1>b. PICK n \in Nat : \E f \in [1..n -> Task] : Chain(n, f) /\ Balance(n, f)
  BY DEF RInv, QueueHeld
<1>a. PICK f \in [1..n -> Task] : Chain(n, f) /\ Balance(n, f)
  BY <1>b
<1>2. /\ current_task[c] = reaper /\ cleanup_count > 0 /\ cleanup_count' = cleanup_count - 1
      /\ UNCHANGED <<current_task, previous_task, reaper_waits>>
  BY DEF reaper_destroy, Cur
<1>4. \/ /\ good /\ cleanup_queue_pop(TRUE)
         /\ state' = [state EXCEPT ![z] = "FREED"] /\ kstack' = Push(reaper, F("yield"))
      \/ /\ ~good /\ state' = state /\ kstack' = kstack
         /\ IF z = NULL THEN UNCHANGED queueVars ELSE cleanup_queue_pop(FALSE)
  BY <1>0 DEF reaper_destroy
<1>6. \A y \in Task : \/ state'[y] = state[y]
                      \/ y = z /\ state'[y] = "FREED"
  BY <1>0, <1>4
<1>7. FramesKept /\ \A u \in Ctx \ {reaper} : kstack'[u] = kstack[u]
  <2>1. QuietFrames(reaper)
    <3>1. F("yield") \in Frame /\ F("yield").op = "yield"
      BY DEF F, Frame
    <3> QED BY <1>4, <3>1 DEF QuietFrames
  <2> QED BY <1>0, <2>1, QuietFramesKept
<1>8. Unallocated'
  <2>1. state[reaper] # "UNUSED"
    BY <1>0, <1>2 DEF IInv, CurrentExact
  <2> QED BY <1>0, <1>6, <1>7, <2>1 DEF RInv, Unallocated
<1>9. OnlyUsersCall'
  BY <1>7 DEF RInv, OnlyUsersCall, FramesKept
<1>10. /\ \A y \in Queued : y = z \/ y \in Queued'
       /\ \E m \in Nat : \E g \in [1..m -> Task] : Chain(m, g)' /\ Balance(m, g)'
       /\ cut_off' = cut_off /\ requeued' = requeued
  <2>0. /\ OwedSignals' = OwedSignals /\ Permits' = Permits - 1 /\ Permits \in Nat
        /\ Permits' \in Nat
    BY <1>0, <1>1, <1>2, <1>7 DEF FramesKept, Permits
  <2>1. /\ Extra(n, f) \in Nat /\ n + Extra(n, f) <= Permits /\ Permits <= cleanup_pending
        /\ (~requeued => Extra(n, f) = 0 /\ n = Permits)
    BY <1>a DEF Balance, Extra
  <2>2. CASE z = NULL
    <3>1. UNCHANGED queueVars /\ n = 0
      <4>1. ~good
        BY <1>0, <2>2
      <4>2. UNCHANGED queueVars
        BY <1>4, <2>2, <4>1
      <4>3. n # 0 => f[1] \in Task /\ z = f[1]
        BY <1>a DEF Chain
      <4> QED BY <1>0, <2>2, <4>2, <4>3
    <3>2. Chain(n, f)' /\ Extra(n, f)' = 0 /\ Extra(n, f) = 0 /\ Queued' = Queued
      BY <1>a, <3>1, QueuedKept DEF Chain, Extra, queueVars
    <3>3. Balance(n, f)'
      BY <1>0, <2>0, <2>1, <3>1, <3>2 DEF Balance, queueVars
    <3> QED BY <3>1, <3>2, <3>3 DEF queueVars
  <2>3. CASE z # NULL
    <3>1. PICK d \in BOOLEAN : cleanup_queue_pop(d)
      BY <1>0, <1>4, <2>3
    <3>2a. PICK m \in Nat : \E g \in [1..m -> Task] :
             /\ Chain(m, g)' /\ m + Extra(m, g)' = n + Extra(n, f) - 1
             /\ Extra(n, f) = 0 => Extra(m, g)' = 0
             /\ \A y \in Queued : y = z \/ \E i \in 1..m : g[i] = y
      BY <1>a, <2>3, <3>1, PopChain
    <3>2. PICK g \in [1..m -> Task] :
             /\ Chain(m, g)' /\ m + Extra(m, g)' = n + Extra(n, f) - 1
             /\ Extra(n, f) = 0 => Extra(m, g)' = 0
             /\ \A y \in Queued : y = z \/ \E i \in 1..m : g[i] = y
      BY <3>2a
    <3>3. Queued' = {g[i] : i \in 1..m}
      BY <3>2, ChainQueued
    <3>4. /\ cut_off' = cut_off /\ requeued' = requeued
          /\ cleanup_pending' \in Int /\ cleanup_pending' >= cleanup_pending - 1
      BY <1>0, <3>1 DEF cleanup_queue_pop
    <3>5. Balance(m, g)'
      <4>1. Extra(m, g)' \in Nat
        BY DEF Extra
      <4>2. m + Extra(m, g)' <= Permits' /\ Permits' <= cleanup_pending'
        BY <1>0, <2>0, <2>1, <3>2, <3>4, <4>1
      <4>3. ~requeued' => Extra(m, g)' = 0 /\ m = Permits'
        BY <2>0, <2>1, <3>2, <3>4
      <4> QED BY <4>2, <4>3 DEF Balance
    <3> QED BY <3>2, <3>3, <3>4, <3>5
  <2> QED BY <2>2, <2>3
<1>11. ZombiesHeld' /\ QueueHeld'
  <2>1. QueueHeld'
    BY <1>1, <1>7, <1>10 DEF RInv, QueueHeld, FramesKept
  <2> SUFFICES ASSUME NEW y \in Task, state'[y] = "ZOMBIE"
               PROVE  \/ \E d \in CPU : y = current_task[d] \/ y = previous_task[d]
                      \/ \E u \in Ctx : FOf("finish", y) \in Frames(u)'
                      \/ y \in (Queued \cup cut_off)'
    BY <1>2, <2>1 DEF ZombiesHeld
  <2>2. state[y] = "ZOMBIE" /\ y # reaper
    BY <1>6 DEF RInv, ReaperSleeps
  <2>3. y # z
    BY <1>0, <1>4, <2>2
  <2>4. CASE y \in Queued \cup cut_off
    BY <1>10, <2>3, <2>4
  <2>5. CASE \E u \in Ctx : FOf("finish", y) \in Frames(u)
    BY <1>7, <2>5 DEF FramesKept, FOf
  <2> QED BY <2>2, <2>4, <2>5 DEF RInv, ZombiesHeld
<1>12. ReaperSleeps'
  <2>1. ~reaper_waits
    BY <1>2 DEF RInv, ReaperSleeps
  <2>2. state'[reaper] = state[reaper] \/ state'[reaper] = "FREED"
    BY <1>0, <1>6
  <2>3. \A u \in Ctx : FOf("wake", reaper) \in Frames(u) => FOf("wake", reaper) \in Frames(u)'
    BY <1>7 DEF FramesKept, FOf
  <2>4. state'[reaper] # "ZOMBIE"
    BY <2>2 DEF RInv, ReaperSleeps
  <2>5. state'[reaper] = "BLOCKED" => \E t \in Ctx : FOf("wake", reaper) \in Frames(t)'
    BY <2>1, <2>2, <2>3 DEF RInv, ReaperSleeps
  <2> QED BY <1>2, <2>1, <2>4, <2>5, Zenon DEF ReaperSleeps
<1> QED BY <1>8, <1>9, <1>11, <1>12 DEF RInv

\* Calls of other components change states and queues, and a new task's first frame.
LEMMA CallRInv ==
    ASSUME IInv, RInv, NEW c \in CPU, NEW t \in KernelTask \cup UserTask, Call(c, t)
    PROVE  RInv'
<1>0. /\ kstack \in KStacks /\ Task \subseteq Ctx /\ t \in Task /\ t # reaper /\ reaper \in Task
      /\ state \in [Ctx -> TaskState] /\ t \in Ctx
  BY ContextAssumption DEF IInv, TypeOK, KStacks, Ctx, Task
<1>1. UNCHANGED handVars /\ UNCHANGED cleanVars
  BY DEF Call, scheduler_wake, WakeEffect, scheduler_make_ready, scheduler_remove,
         destroy_unpublished_task, allocate_task, scheduler_set_policy
<1>2. \A u \in Task : \/ state'[u] = state[u]
                      \/ u = t /\ state'[u] \in {"READY", "NEW", "FREED"}
  BY <1>0 DEF Call, scheduler_wake, WakeEffect, scheduler_make_ready, scheduler_remove,
              destroy_unpublished_task, allocate_task, scheduler_set_policy
<1>3. CASE \E p \in Policy : allocate_task(c, t, p)
  <2>1. /\ state[t] = "UNUSED" /\ state'[t] = "NEW"
        /\ kstack' = [kstack EXCEPT ![t] = IF t \in UserTask THEN <<F("iret")>> ELSE <<>>]
    BY <1>0, <1>3 DEF allocate_task
  <2>2. kstack[t] = <<>>
    BY <1>0, <2>1 DEF RInv, Unallocated
  <2>3. FramesKept /\ \A u \in Ctx \ {t} : kstack'[u] = kstack[u]
    <3>1. CASE t \in UserTask
      <4>1. Append(<<>>, F("iret")) = <<F("iret")>>
        OBVIOUS
      <4>2. kstack' = Push(t, F("iret"))
        BY <1>0, <2>1, <2>2, <3>1, <4>1 DEF Push, KStacks
      <4>3. F("iret") \in Frame /\ F("iret").op = "iret"
        BY DEF F, Frame
      <4>4. QuietFrames(t)
        BY <4>2, <4>3 DEF QuietFrames
      <4> QED BY <1>0, <4>4, QuietFramesKept
    <3>2. CASE t \notin UserTask
      <4>1. kstack' = kstack
        BY <1>0, <2>1, <2>2, <3>2 DEF KStacks
      <4>2. QuietFrames(t)
        BY <4>1 DEF QuietFrames
      <4> QED BY <1>0, <4>2, QuietFramesKept
    <3> QED BY <3>1, <3>2
  <2>4. HandKept
    BY <1>1 DEF HandKept, handVars
  <2>5. StatesKept
    BY <1>0, <1>2, <2>1, <2>3 DEF StatesKept
  <2>6. ReaperKept
    <3>1. state'[reaper] = state[reaper]
      BY <1>0, <1>2
    <3> QED BY <1>1, <3>1, Zenon DEF ReaperKept, cleanVars
  <2> QED BY <1>1, <2>3, <2>4, <2>5, <2>6, KeptRInv DEF cleanVars
<1>4. CASE ~ \E p \in Policy : allocate_task(c, t, p)
  <2>1. kstack' = kstack
    BY <1>4 DEF Call, scheduler_wake, scheduler_make_ready, scheduler_remove,
                destroy_unpublished_task, scheduler_set_policy
  <2>2. QuietFrames(current_task[c])
    BY <2>1 DEF QuietFrames
  <2> QED BY <1>1, <1>2, <2>2, QuietRInv
<1> QED BY <1>3, <1>4

\* Initially nobody has died, nothing is owed and the reaper is READY.
LEMMA InitRInv == Init => RInv
<1> SUFFICES ASSUME Init PROVE RInv
  OBVIOUS
<1>0. reaper \in Ctx /\ Task \subseteq Ctx
  BY DEF Ctx, Task
<1>1. \A t \in Ctx : kstack[t] = <<>> /\ Frames(t) = {}
  BY DEF Init, Frames
<1>2. \A t \in Task : state[t] # "ZOMBIE"
  BY <1>0 DEF Init
<1>3. state[reaper] = "READY"
  BY <1>0 DEF Init
<1>4. OwedSignals = {}
  BY <1>1 DEF OwedSignals
<1>5. QueueHeld
  <2> DEFINE f == [i \in 1..0 |-> reaper]
  <2>1. f \in [1..0 -> Task] /\ Chain(0, f) /\ Extra(0, f) = 0
    BY DEF Init, Chain, Extra
  <2>2. Permits = 0 /\ IsFiniteSet(OwedSignals)
    BY <1>4, FS_EmptySet DEF Permits, Init
  <2>3. Balance(0, f)
    BY <2>1, <2>2 DEF Balance, Init
  <2> QED BY <2>1, <2>2, <2>3 DEF QueueHeld, Init
<1> QED BY <1>0, <1>1, <1>2, <1>3, <1>5 DEF RInv, Unallocated, OnlyUsersCall, ZombiesHeld,
                                            ReaperSleeps, Init

\* Every step preserves the invariant.
LEMMA NextRInv == IInv /\ OnlyTasksDie /\ RInv /\ [Next]_vars => RInv'
<1> SUFFICES ASSUME IInv, OnlyTasksDie, RInv, [Next]_vars PROVE RInv'
  OBVIOUS
<1>0. /\ kstack \in KStacks /\ reaper \in Task /\ Task \subseteq Ctx
      /\ \A c \in CPU : current_task[c] \in Ctx /\ preempt_restore_flags[c] \in Flags
                        /\ irqsave(c) \in {"if0", "if1"}
  BY DEF IInv, TypeOK, Ctx, Task, irqsave, KStacks
<1>1. CASE UNCHANGED vars
  <2>1. Queued' = Queued
    BY <1>1, QueuedKept DEF vars, cleanVars, queueVars
  <2>2. QueueHeld'
    <3>1. /\ OwedSignals' = OwedSignals /\ Permits' = Permits /\ cut_off' = cut_off
          /\ requeued' = requeued
      BY <1>1 DEF vars, cleanVars, queueVars, OwedSignals, Permits
    <3>2. PICK n \in Nat : \E f \in [1..n -> Task] : Chain(n, f) /\ Balance(n, f)
      BY DEF RInv, QueueHeld
    <3>3. PICK f \in [1..n -> Task] : Chain(n, f) /\ Balance(n, f)
      BY <3>2
    <3>4. Chain(n, f)' /\ Balance(n, f)'
      BY <1>1, <3>1, <3>3 DEF vars, cleanVars, queueVars, Chain, Balance, Extra
    <3> QED BY <3>1, <3>4 DEF RInv, QueueHeld
  <2> QED BY <1>1, <2>1, <2>2 DEF vars, runVars, handVars, cleanVars, queueVars, RInv,
             Unallocated, OnlyUsersCall, Frames, ZombiesHeld, ReaperSleeps
<1>2. CASE Next
  <2>0. PICK c \in CPU : \/ Switching(c) \/ FinishTail(c) \/ Interrupt(c) \/ Program(c)
                         \/ \E t \in KernelTask \cup UserTask : Call(c, t)
                         \/ lapic_reschedule_handler(c)
    BY <1>2 DEF Next, Step
  <2>1. /\ \A o \in {"exit", "iret", "irq", "yield", "dying"} : F(o) \in Frame /\ F(o).op = o
    BY DEF F, Frame
  <2>2. ASSUME NEW flags \in {"if0", "if1"}, NEW prf \in Flags, NEW ks, phase[c] = "run",
               scheduler_schedule(c, flags, prf, ks),
               kstack' = ks => QuietFrames(current_task[c])
        PROVE  RInv'
    <3>1. /\ \E nxt : SwitchesTo(c, nxt, "READY")
          /\ kstack' = ks /\ UNCHANGED cleanVars /\ LockFree
      BY <2>2, ScheduleSwitches
    <3> QED BY <2>2, <3>1, SwitchRInv DEF cleanVars
  <2>3. CASE Switching(c)
    BY <2>3, SwitchingRInv
  <2>4. CASE FinishTail(c)
    BY <2>4, FinishTailRInv
  <2>5. CASE irq(c) \/ scheduler_tick(c) \/ iret(c) \/ lapic_reschedule_handler(c)
             \/ syscall(c) \/ idle_hlt(c) \/ kernel_main_enable(c)
    <3>1. /\ UNCHANGED <<state, cleanVars, current_task, previous_task>>
      BY <2>5 DEF irq, scheduler_tick, iret, lapic_reschedule_handler, syscall, idle_hlt,
                  kernel_main_enable, runVars, handVars
    <3>2. QuietFrames(current_task[c])
      BY <2>1, <2>5 DEF irq, scheduler_tick, iret, lapic_reschedule_handler, syscall, idle_hlt,
                        kernel_main_enable, QuietFrames, Cur
    <3>3. FramesKept /\ \A u \in Ctx \ {current_task[c]} : kstack'[u] = kstack[u]
      BY <1>0, <3>2, QuietFramesKept
    <3>4. current_task[c] \in Task => state[current_task[c]] # "UNUSED"
      BY DEF IInv, CurrentExact
    <3>5. HandKept
      BY <3>1 DEF HandKept
    <3>6. StatesKept
      BY <1>0, <3>1, <3>3, <3>4 DEF StatesKept
    <3>7. ReaperKept
      BY <3>1, Zenon DEF ReaperKept, cleanVars
    <3> QED BY <3>1, <3>3, <3>5, <3>6, <3>7, KeptRInv DEF cleanVars
  <2>6. CASE safe_preemption_point(c)
    <3>1. QuietFrames(current_task[c]) \/ kstack' # Become(current_task[c], F("iret"))
      BY <2>1, <2>6 DEF safe_preemption_point, QuietFrames, Cur
    <3>2. CASE preemption_enabled[c] /\ reschedule_pending[c]
      <4>1. scheduler_schedule(c, irqsave(c), "if1", Become(current_task[c], F("iret")))
            /\ phase[c] = "run"
        BY <2>6, <3>2 DEF safe_preemption_point, Executing, Cur
      <4>2. "if1" \in Flags
        BY DEF Flags
      <4> QED BY <1>0, <2>2, <3>1, <4>1, <4>2
    <3>3. CASE ~(preemption_enabled[c] /\ reschedule_pending[c])
      <4>1. /\ kstack' = Become(current_task[c], F("iret"))
            /\ UNCHANGED <<state, handVars, cleanVars>>
        BY <2>6, <3>3 DEF safe_preemption_point, Cur, runVars
      <4> QED BY <3>1, <4>1, QuietRInv
    <3> QED BY <3>2, <3>3
  <2>7. CASE scheduler_yield(c) \/ task_exit_schedule(c)
    <3>1. PICK ks : /\ scheduler_schedule(c, irqsave(c), preempt_restore_flags[c], ks)
                    /\ phase[c] = "run"
                    /\ \/ ks = kstack
                       \/ ks = Pop(current_task[c]) /\ Top(current_task[c]) = "yield"
      BY <2>7 DEF scheduler_yield, task_exit_schedule, InKernel, Executing, Cur
    <3>2. kstack' = ks => QuietFrames(current_task[c])
      BY <3>1 DEF QuietFrames
    <3> QED BY <1>0, <2>2, <3>1, <3>2
  <2>8. CASE block(c)
    <3>1. PICK s \in {"BLOCKED", "SLEEPING"} : scheduler_block_current_wait(c, s)
      BY <2>8 DEF block
    <3>2. /\ current_task[c] \in Task /\ UNCHANGED cleanVars
          /\ \/ current_task[c] \in KernelTask \cup {boot[c]}
             \/ Top(current_task[c]) = "syscall"
      BY <2>8 DEF block, InKernel, Cur
    <3>3. current_task[c] # reaper
      <4>1. CASE Top(current_task[c]) = "syscall"
        <5>1. kstack[current_task[c]] \in Seq(Frame) /\ kstack[current_task[c]] # <<>>
          BY <1>0, <4>1 DEF KStacks, Top
        <5>2. Len(kstack[current_task[c]]) \in 1..Len(kstack[current_task[c]])
          BY <5>1, EmptySeq
        <5>3. \E g \in Frames(current_task[c]) : g.op = "syscall"
          BY <4>1, <5>1, <5>2 DEF Frames, Top
        <5>4. current_task[c] \in UserTask
          BY <1>0, <5>3 DEF RInv, OnlyUsersCall
        <5> QED BY <5>4, ContextAssumption
      <4> QED BY <3>2, <4>1, ContextAssumption DEF Task
    <3>4. (\E nxt : SwitchesTo(c, nxt, s)) /\ UNCHANGED kstack /\ LockFree
      BY <3>1, <3>2, BlockSwitches
    <3>5. QuietFrames(current_task[c])
      BY <3>4 DEF QuietFrames
    <3> QED BY <3>2, <3>3, <3>4, <3>5, SwitchRInv DEF cleanVars
  <2>9. CASE reaper_block(c)
    <3>1. /\ current_task[c] = reaper /\ scheduler_block_current_wait(c, "BLOCKED")
          /\ cleanup_count = 0 /\ reaper_waits' = TRUE /\ UNCHANGED <<queueVars, cleanup_count>>
      BY <2>9 DEF reaper_block, Cur
    <3>2. (\E nxt : SwitchesTo(c, nxt, "BLOCKED")) /\ UNCHANGED kstack /\ LockFree
      BY <1>0, <3>1, BlockSwitches
    <3>3. QuietFrames(current_task[c])
      BY <3>2 DEF QuietFrames
    <3> QED BY <3>1, <3>2, <3>3, SwitchRInv
  <2>10. CASE task_exit(c)
    <3>1. /\ current_task[c] \in KernelTask \cup UserTask /\ UNCHANGED <<handVars, cleanVars>>
          /\ state' = [state EXCEPT ![current_task[c]] = "ZOMBIE"]
          /\ kstack' = Push(current_task[c], F("dying"))
      BY <2>10 DEF task_exit, Cur
    <3>2. QuietFrames(current_task[c])
      BY <2>1, <3>1 DEF QuietFrames
    <3>3. \A u \in Task : state'[u] = state[u]
                          \/ (state'[u] = "ZOMBIE" /\ u = current_task[c] /\ u # reaper)
      BY <1>0, <3>1, ContextAssumption DEF IInv, TypeOK
    <3> QED BY <3>1, <3>2, <3>3, QuietRInv
  <2>11. CASE reaper_destroy(c)
    BY <2>11, ReaperRInv
  <2>12. CASE \E t \in KernelTask \cup UserTask : Call(c, t)
    BY <2>12, CallRInv
  <2> QED BY <2>0, <2>3, <2>4, <2>5, <2>6, <2>7, <2>8, <2>9, <2>10, <2>11, <2>12
          DEF Interrupt, Program
<1> QED BY <1>1, <1>2

-----------------------------------------------------------------------------
(* The theorems                                                            *)

\* Every step preserves the invariant.
LEMMA NextIInv == IInv /\ [Next]_vars => IInv'
<1> SUFFICES ASSUME IInv, [Next]_vars PROVE IInv'
  OBVIOUS
<1>0. kstack \in KStacks /\ \A c \in CPU : /\ current_task[c] \in Ctx
                                           /\ preempt_restore_flags[c] \in Flags
  BY DEF IInv, TypeOK, KStacks
<1>1. CASE UNCHANGED vars
  BY <1>1, SMTT(30) DEF vars, runVars, flagVars, handVars, cpuVars, cleanVars, queueVars, IInv, TypeOK,
              RunQueueConsistent, HandoffExact, CurrentExact
<1>2. CASE Next
  <2>1. PICK c \in CPU : \/ Switching(c) \/ FinishTail(c) \/ Interrupt(c) \/ Program(c)
                         \/ \E t \in KernelTask \cup UserTask : Call(c, t)
                         \/ lapic_reschedule_handler(c)
    BY <1>2 DEF Next, Step
  <2>2. CASE Switching(c)
    BY <2>2, ContextSwitchIInv, FinishSwitchIInv DEF Switching
  <2>3. CASE FinishTail(c)
    <3>1. CASE scheduler_wake_reaper(c)
      <4>1. Top(current_task[c]) = "wake" /\ WakeEffect(c, TopTask(current_task[c]))
            /\ kstack' = Pop(current_task[c])
        BY <3>1 DEF scheduler_wake_reaper, Cur
      <4>2. TopTask(current_task[c]) = reaper /\ reaper \in Task /\ kstack' \in KStacks
        BY <1>0, <4>1, TopFrame, PopType DEF Task
      <4> QED BY <4>1, <4>2, WakeIInv
    <3> QED BY <2>3, <3>1, QuietIInv DEF FinishTail
  <2>4. CASE Interrupt(c)
    <3>1. CASE safe_preemption_point(c)
      <4>1. Become(current_task[c], F("iret")) \in KStacks /\ phase[c] = "run"
        BY <1>0, <3>1, PlainFrames, BecomeType DEF safe_preemption_point, Cur, Executing
      <4>2. CASE preemption_enabled[c] /\ reschedule_pending[c]
        <5>1. PICK ks \in KStacks : scheduler_schedule(c, irqsave(c), "if1", ks)
          BY <3>1, <4>1, <4>2 DEF safe_preemption_point, Cur
        <5>2. "if1" \in Flags /\ irqsave(c) \in {"if0", "if1"}
          BY DEF Flags, irqsave
        <5> QED BY <4>1, <5>1, <5>2, ScheduleIInv
      <4>3. CASE ~(preemption_enabled[c] /\ reschedule_pending[c])
        <5>1. kstack' \in KStacks /\ UNCHANGED <<runVars, flagVars, handVars, cpuVars, intr,
                                                 cleanVars>>
          BY <3>1, <4>1, <4>3 DEF safe_preemption_point, Cur
        <5>2. TypeOK' /\ RunQueueConsistent' /\ Calm
          BY <5>1 DEF IInv, TypeOK, KStacks, RunQueueConsistent, Calm, runVars, flagVars,
                      handVars, cpuVars, cleanVars, queueVars
        <5> QED BY <5>2, CalmIInv
      <4> QED BY <4>2, <4>3
    <3> QED BY <2>4, <3>1, QuietIInv DEF Interrupt
  <2>5. CASE Program(c)
    <3>1. CASE scheduler_yield(c) \/ task_exit_schedule(c)
      <4>1. PICK ks \in KStacks :
               phase[c] = "run" /\ scheduler_schedule(c, irqsave(c), preempt_restore_flags[c], ks)
        BY <1>0, <3>1, PopType DEF scheduler_yield, task_exit_schedule, InKernel, Executing, Cur
      <4>2. irqsave(c) \in {"if0", "if1"}
        BY DEF irqsave
      <4> QED BY <1>0, <4>1, <4>2, ScheduleIInv
    <3>2. CASE block(c)
      <4>1. PICK s \in {"BLOCKED", "SLEEPING"} : scheduler_block_current_wait(c, s)
        BY <3>2 DEF block
      <4>2. /\ phase[c] = "run" /\ current_task[c] \in Task
            /\ QueueTypes' /\ cleanup_count' \in Nat /\ reaper_waits' \in BOOLEAN
        BY <3>2, QueueTypesKept DEF block, InKernel, Executing, Cur, cleanVars, IInv, TypeOK
      <4> QED BY <4>1, <4>2, BlockIInv
    <3>3. CASE reaper_block(c)
      <4>1. scheduler_block_current_wait(c, "BLOCKED") /\ reaper_waits' = TRUE
            /\ UNCHANGED <<queueVars, cleanup_count>> /\ phase[c] = "run" /\ current_task[c] \in Task
        BY <3>3 DEF reaper_block, Executing, Cur, Task
      <4>2. QueueTypes' /\ cleanup_count' \in Nat
        BY <4>1, QueueTypesKept DEF IInv, TypeOK
      <4>3. reaper_waits' \in BOOLEAN
        BY <4>1, Zenon
      <4> QED BY <4>1, <4>2, <4>3, BlockIInv
    <3>4. CASE task_exit(c)
      <4>1. current_task[c] \in Task /\ 1 \in Policy
        BY <3>4, BoundAssumption DEF task_exit, Cur, Task, Policy
      <4> QED BY <3>4, <4>1, TaskLifeIInv
    <3>5. CASE reaper_destroy(c)
      <4>1. reaper \in Task /\ 1 \in Policy
        BY BoundAssumption DEF Task, Policy
      <4> QED BY <3>5, <4>1, TaskLifeIInv
    <3> QED BY <2>5, <3>1, <3>2, <3>3, <3>4, <3>5, QuietIInv DEF Program
  <2>6. CASE \E t \in KernelTask \cup UserTask : Call(c, t)
    <3>1. PICK t \in KernelTask \cup UserTask : Call(c, t)
      BY <2>6
    <3>2. t \in Task /\ 1 \in Policy
      BY BoundAssumption DEF Task, Policy
    <3>3. CASE scheduler_wake(c, t)
      BY <1>0, <3>2, <3>3, WakeIInv DEF scheduler_wake
    <3>4. CASE scheduler_make_ready(c, t) \/ destroy_unpublished_task(c, t)
      BY <3>2, <3>4, TaskLifeIInv
    <3>5. CASE scheduler_remove(c, t)
      BY <3>2, <3>5, RequeueIInv
    <3>6. CASE \E p \in Policy : allocate_task(c, t, p) \/ scheduler_set_policy(c, t, p)
      BY <3>2, <3>6, TaskLifeIInv, RequeueIInv
    <3> QED BY <3>1, <3>3, <3>4, <3>5, <3>6 DEF Call
  <2>7. CASE lapic_reschedule_handler(c)
    BY <2>7, QuietIInv
  <2> QED BY <2>1, <2>2, <2>3, <2>4, <2>5, <2>6, <2>7
<1> QED BY <1>1, <1>2

\* The invariant holds in every reachable state.
LEMMA SpecIInv == Spec => []IInv
  BY InitIInv, NextIInv, PTL DEF Spec

\* The variables keep their types.
THEOREM TypeCorrect == Spec => []TypeOK
<1>1. IInv => TypeOK
  BY DEF IInv
<1> QED BY <1>1, SpecIInv, PTL

\* For any number of CPUs, tasks and bands: a task is READY exactly when it is
\* in the run queue of its policy, once, whatever yields, blocks, wake-ups,
\* preemptions, removals and policy changes are interleaved.
THEOREM RunQueueSafe == Spec => []RunQueueConsistent
<1>1. IInv => RunQueueConsistent
  BY DEF IInv
<1> QED BY <1>1, SpecIInv, PTL

\* For any number of CPUs: the hand-over fields a switch leaves in cpu_t are in
\* use exactly while that CPU holds scheduler_lock across the switch.
THEOREM HandoffSafe == Spec => []HandoffExact
<1>1. IInv => HandoffExact
  BY DEF IInv
<1> QED BY <1>1, SpecIInv, PTL

\* For any number of CPUs: a CPU's current_task is its own, and current on no
\* other CPU.
THEOREM CurrentSafe == Spec => []CurrentExact
<1>1. IInv => CurrentExact
  BY DEF IInv
<1> QED BY <1>1, SpecIInv, PTL

\* For any number of CPUs: no two of them ever execute on one kernel stack.
THEOREM StackExclusion == Spec => []StackExclusive
<1>1. IInv => StackExclusive
  <2> SUFFICES ASSUME IInv, NEW c \in CPU, NEW d \in CPU, c # d PROVE stack[c] # stack[d]
    BY DEF StackExclusive
  <2>1. ~(phase[c] = "switch" /\ phase[d] = "switch")
    BY DEF IInv, HandoffExact
  <2> QED BY <2>1 DEF IInv, CurrentExact
<1> QED BY <1>1, SpecIInv, PTL

\* For any number of CPUs: a switch hands over exactly its own fields and a stack
\* that nobody else is on.
THEOREM SwitchSafe == Spec => []SwitchExact
  BY HandoffSafe, StackExclusion, PTL DEF SwitchExact
\* For any number of CPUs and tasks: a task that has called task_exit is never made
\* runnable again, by the scheduler_schedule it leaves through, by a wake-up that
\* comes late, by a policy change or by anything else.
THEOREM DeadNeverRun == Spec => DeadStaysDead
<1>1. IInv /\ [Next]_vars =>
        [\A t \in Task : state[t] = "ZOMBIE" => state'[t] \in {"ZOMBIE", "FREED"}]_vars
  BY DeadStep
<1> QED BY <1>1, SpecIInv, PTL DEF Spec, DeadStaysDead

\* For any number of CPUs and tasks, any nesting of interrupts: between task_exit and
\* its destruction a zombie is current, being left, in a finish_switch still to run or
\* linked into the cleanup queue, unless a second push of a zombie before it cut it off;
\* the permits of cleanup_semaphore, counting the signals preempted switches still owe,
\* never fall short of the queued zombies, match them while none was pushed twice and
\* never exceed the pending ones; and the reaper sleeps only without a permit, or with
\* its wake-up under way.
THEOREM ReaperHearsOfAll == Spec => []ReaperSeesAll
<1>1. Init => RInv /\ OnlyTasksDie
  BY InitRInv, OnlyTasksDieStep
<1>2. IInv /\ RInv /\ OnlyTasksDie /\ [Next]_vars => RInv' /\ OnlyTasksDie'
  BY NextRInv, OnlyTasksDieStep
<1>3. IInv /\ RInv => ReaperSeesAll
  <2> SUFFICES ASSUME IInv, RInv PROVE ReaperSeesAll
    OBVIOUS
  <2>0. PICK n \in Nat : \E f \in [1..n -> Task] : Chain(n, f) /\ Balance(n, f)
    BY DEF RInv, QueueHeld
  <2>1. PICK f \in [1..n -> Task] : Chain(n, f) /\ Balance(n, f)
    BY <2>0
  <2>2. Cardinality(Queued) = n
    BY <2>1, ChainQueued
  <2>3. /\ n + Extra(n, f) <= Permits /\ Permits <= cleanup_pending /\ Extra(n, f) \in Nat
        /\ ~requeued => n = Permits
    BY <2>1 DEF Balance, Extra
  <2>4. Permits \in Nat
    BY FS_CardinalityType DEF RInv, QueueHeld, Permits, IInv, TypeOK
  <2>5. /\ Cardinality(Queued) <= Permits /\ Permits <= cleanup_pending
        /\ ~requeued => Cardinality(Queued) = Permits
    BY <2>2, <2>3, <2>4
  <2>6. ZombieTracked
    BY DEF RInv, ZombiesHeld, QueueHeld, ZombieTracked
  <2> QED BY <2>5, <2>6 DEF RInv, ReaperSleeps, ReaperSeesAll, ReaperPermits
<1> QED BY <1>1, <1>2, <1>3, SpecIInv, PTL DEF Spec

=============================================================================
