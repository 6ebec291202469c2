--------------------------- MODULE ProcessProofs ---------------------------
(***************************************************************************)
(* Proofs about Process for any number of user tasks, spawners, process    *)
(* ids, statuses and stack slots.                                          *)
(***************************************************************************)
EXTENDS Process, FiniteSetTheorems, TLAPS

-----------------------------------------------------------------------------
(* The inductive invariant.                                                *)

\* How often a frame of one of the kinds ops, for one of the processes ps, is in a list
\* of at most eight frames.
Ind(s, i, ps, ops) == IF i <= Len(s) /\ s[i].p \in ps /\ s[i].op \in ops THEN 1 ELSE 0
Num(s, ps, ops) ==
    Ind(s, 1, ps, ops) + (Ind(s, 2, ps, ops) + (Ind(s, 3, ps, ops) + (Ind(s, 4, ps, ops)
    + (Ind(s, 5, ps, ops) + (Ind(s, 6, ps, ops) + (Ind(s, 7, ps, ops) + Ind(s, 8, ps, ops)))))))

RefOps   == {"acquire", "task", "release", "add", "attach"}
SpaceOps == {"acquire", "task", "space"}
BuildOps == {"acquire", "task", "bind", "attach"}
DetachOps == {"detach"}
FreeOps  == {"free"}
FirstOps == {"load", "create", "acquire", "retain", "add", "bind", "attach", "exit", "detach"}
LastOps  == {"load", "create", "acquire", "task", "context", "publish", "exit", "reaped"}
BadPanic == {"reference-count underflow", "live-process count underflow",
             "thread-count underflow", "failed releasing address space", "failed binding"}

Links(p)  == Cardinality({q \in Pid : p \in children[q]})
Spaces(p) == Cardinality({t \in Task : tspace[t] = p})
Threaded(a, p) == a \in Task /\ tstate[a] = "ALIVE" /\ tproc[a] = p

\* Types.  A last release makes two frames of one, so a list has room for its releases.
VarTypes ==
    /\ state \in [Pid -> {"UNBORN", "NEW", "RUNNING", "EXITING", "ZOMBIE", "DEAD", "FREED"}]
    /\ reference_count \in [Pid -> Nat] /\ live_threads \in [Pid -> Nat]
    /\ parent_id \in [Pid -> 0..MaxPid] /\ children \in [Pid -> SUBSET Pid]
    /\ exit_status \in [Pid -> Status]
    /\ next_process_id \in 2..(MaxPid + 1) /\ live_processes \in Nat
    /\ space_refs \in [Pid -> Nat] /\ stack_slots \in [Pid -> 0..Slots]
    /\ tstate \in [Task -> {"UNUSED", "NEW", "ALIVE", "ZOMBIE"}]
    /\ tproc \in [Task -> 0..MaxPid] /\ tspace \in [Task -> 0..MaxPid]
ListTypes ==
    /\ todo \in [Actor -> Seq(Frame)]
    /\ \A a \in Actor : Len(todo[a]) + Num(todo[a], Pid, {"release"}) <= 8

\* Which frames may stand where in the list s of a.
Shape(a, s) ==
    /\ a \in Task => tstate[a] = "ALIVE"
    /\ a = reaper => s[Len(s)].op = "reaped"
    /\ \A i \in 1..Len(s) : /\ s[i].op \in FirstOps => i = 1
                            /\ s[i].op \in LastOps => i = Len(s)
    /\ s[1].op \in {"retain", "add"} =>
          Len(s) = 3 /\ s[2] = F("release", parent_id[s[1].p]) /\ s[3] = F("task", s[1].p)
    /\ s[1].op = "detach" => Len(s) = 4 /\ s[3] = F("release", s[1].p)
    /\ s[1].op \in {"bind", "attach"} =>
          /\ s[Len(s)] = FT("publish", s[1].p, s[1].t) /\ tproc[s[1].t] = 0
          /\ Threaded(a, s[1].p) \/ (Len(s) = 4 /\ s[2] = F("release", s[1].p))
    /\ s[Len(s)].op = "publish" /\ s[1].op \notin {"bind", "attach"} =>
          tproc[s[Len(s)].t] = s[Len(s)].p
Shapes == \A a \in Actor : todo[a] # <<>> => Shape(a, todo[a])

\* What holds of the process and the task that a frame f of a names.
FrameOK(a, f) ==
    /\ f.p < next_process_id
    /\ f.op \in {"load", "create"} => f.p = kernel_process
    /\ f.op \notin {"load", "create", "release"} => f.p # kernel_process
    /\ f.op \in {"acquire", "retain", "add", "task"} =>
          state[f.p] = "NEW" /\ parent_id[f.p] \in 1..(next_process_id - 1)
    /\ f.op \in {"bind", "attach"} => Threaded(a, f.p) \/ state[f.p] = "NEW"
    /\ f.op \in {"bind", "attach", "publish"} =>
          f.t \in Task /\ tstate[f.t] = "NEW" /\ tspace[f.t] = f.p
    /\ f.op = "exit" => a \in Task /\ tproc[a] = f.p
    /\ f.op = "detach" => a = reaper
    /\ f.op = "reaped" => a = reaper /\ f.t \in Task /\ tstate[f.t] = "ZOMBIE"
                          /\ tproc[f.t] = 0 /\ tspace[f.t] = 0
ListOK(a, s) == \A i \in 1..Len(s) : FrameOK(a, s[i])
FramesOK == \A a \in Actor : ListOK(a, todo[a])

\* Nobody else is about to publish the same task.
PublishOnce ==
    \A a, b \in Actor : \A i \in 1..Len(todo[a]), j \in 1..Len(todo[b]) :
        todo[a][i].op = "publish" /\ todo[b][j].op = "publish" /\ todo[a][i].t = todo[b][j].t
            => a = b

\* task->process and task->address_space in each state of a task.
Being(t) == tproc[t] = tspace[t] /\ tproc[t] \in 2..(next_process_id - 1)
Reaping(t) == /\ tproc[t] = 0 /\ tspace[t] = 0 /\ todo[reaper] # <<>>
              /\ todo[reaper][Len(todo[reaper])].t = t
TaskOK(t) ==
    /\ tstate[t] = "UNUSED" => tproc[t] = 0 /\ tspace[t] = 0
    /\ tstate[t] = "NEW" => tspace[t] \in 2..(next_process_id - 1) /\ tproc[t] \in {0, tspace[t]}
    /\ tstate[t] = "ALIVE" => Being(t)
    /\ tstate[t] = "ZOMBIE" => Being(t) \/ Reaping(t)
TasksOK == \A t \in Task : TaskOK(t)

\* Ids are handed out in order; the kernel process is never touched.
ProcessesOK ==
    /\ state[kernel_process] = "RUNNING"
    /\ \A p \in Pid : state[p] = "UNBORN" <=> p >= next_process_id
    /\ \A p, q \in Pid : p \in children[q] => p < next_process_id
    /\ \A p \in Pid \ {kernel_process} : reference_count[p] > 0 <=> Registered(p)
    /\ live_processes = Cardinality({p \in Pid : Registered(p)})

\* The counts.  A process that is being made has one maker.
CountOK(p) ==
    /\ reference_count[p] = Links(p) + (Threads(p) + Carried(p, RefOps))
    /\ space_refs[p] = (IF Registered(p) THEN 1 ELSE 0) + (Spaces(p) + Carried(p, SpaceOps))
    /\ live_threads[p] = Threads(p) + Carried(p, DetachOps)
    /\ state[p] = "RUNNING" <=> live_threads[p] > 0
    /\ Carried(p, FreeOps) <= (IF state[p] = "DEAD" THEN 1 ELSE 0)
    /\ state[p] = "NEW" => Carried(p, BuildOps) <= 1
CountsOK == \A p \in Pid \ {kernel_process} : CountOK(p)

\* What a caller holds is what the end of its list gives back or passes on, and a new task
\* holds its launch context until it runs.
KeepOps == {"create", "acquire", "task", "context"}
Keeps(s) == IF s = <<>> THEN {}
            ELSE IF s[Len(s)].op = "create" THEN {"directory", "context"}
            ELSE IF s[Len(s)].op \in KeepOps THEN {"context"} ELSE {}
Keeping(a) == held[a] = Keeps(todo[a]) /\ (a \in Task => tstate[a] # "NEW")
Launching(a) == /\ held[a] = {"launch"} /\ todo[a] = <<>>
                /\ a \in Task /\ tstate[a] \in {"NEW", "ALIVE"}
HeldOK == DOMAIN held = Actor /\ \A a \in Actor : Keeping(a) \/ Launching(a)

NoBadPanic == panic \notin BadPanic

PInv == /\ VarTypes /\ ListTypes /\ Shapes /\ FramesOK /\ PublishOnce /\ TasksOK /\ ProcessesOK /\ CountsOK
        /\ NoBadPanic
-----------------------------------------------------------------------------
(* Counting.                                                               *)

\* A count x becomes y: n are added and o taken away.
Changed(x, y, n, o) == x \in Nat /\ y \in Nat /\ y = (x + n) - o

\* What one element more or less does to the size of a set.
LEMMA CardStep ==
    ASSUME NEW R, NEW S, NEW x, IsFiniteSet(R), R \ {x} = S \ {x}
    PROVE  /\ IsFiniteSet(S) /\ Cardinality(R) \in Nat /\ Cardinality(S) \in Nat
           /\ Cardinality(S) = (Cardinality(R) + (IF x \in S THEN 1 ELSE 0))
                               - (IF x \in R THEN 1 ELSE 0)
<1>1. Cardinality(R) \in Nat
  BY FS_CardinalityType
<1>2. CASE (x \in R) = (x \in S)
  <2>1. R = S
    BY <1>2
  <2> QED BY <1>1, <2>1
<1>3. CASE x \in S /\ x \notin R
  <2>1. S = R \cup {x}
    BY <1>3
  <2>2. IsFiniteSet(S) /\ Cardinality(S) = Cardinality(R) + 1
    BY <1>3, <2>1, FS_AddElement
  <2> QED BY <1>1, <1>3, <2>2
<1>4. CASE x \in R /\ x \notin S
  <2>1. S = R \ {x}
    BY <1>4
  <2>2. IsFiniteSet(S) /\ Cardinality(S) = Cardinality(R) - 1
    BY <1>4, <2>1, FS_RemoveElement
  <2>3. Cardinality(S) \in Nat
    BY <2>2, FS_CardinalityType
  <2> QED BY <1>1, <1>4, <2>2, <2>3
<1> QED BY <1>2, <1>3, <1>4

\* The elements of a finite set that a function maps to r: what changing the function at
\* one place does to their number.
Preimage(D, f, r) == {x \in D : f[x] = r}
LEMMA PreimageStep ==
    ASSUME NEW D, IsFiniteSet(D), NEW f, NEW d \in D, NEW v, NEW r, DOMAIN f = D,
           NEW g, g = [f EXCEPT ![d] = v]
    PROVE  Changed(Cardinality(Preimage(D, f, r)), Cardinality(Preimage(D, g, r)),
                   IF v = r THEN 1 ELSE 0, IF f[d] = r THEN 1 ELSE 0)
<1> DEFINE R == {x \in D : f[x] = r}
           S == {x \in D : g[x] = r}
<1>1. IsFiniteSet(R)
  BY FS_Subset
<1>2. /\ R \ {d} = S \ {d}
      /\ d \in S <=> v = r
      /\ d \in R <=> f[d] = r
  OBVIOUS
<1> HIDE DEF R, S
<1>3. /\ Cardinality(R) \in Nat /\ Cardinality(S) \in Nat
      /\ Cardinality(S) = (Cardinality(R) + (IF v = r THEN 1 ELSE 0))
                          - (IF f[d] = r THEN 1 ELSE 0)
  BY <1>1, <1>2, CardStep
<1> QED BY <1>3 DEF R, S, Changed, Preimage

\* The constants are finite.
LEMMA Finite == IsFiniteSet(Task) /\ IsFiniteSet(Actor) /\ IsFiniteSet(Pid)
                /\ IsFiniteSet(Actor \X (1..8))
<1>1. IsFiniteSet(Task) /\ IsFiniteSet(Pid) /\ IsFiniteSet(1..8)
  <2>1. 1 \in Int /\ 8 \in Int /\ MaxPid \in Int
    BY ProcessAssumption
  <2> QED BY <2>1, ProcessAssumption, FS_Interval DEF Pid
<1>2. IsFiniteSet(Actor)
  BY ProcessAssumption, FS_Union, FS_Singleton DEF Actor
<1> QED BY <1>1, <1>2, FS_Product

\* A number of frames is a natural number.
LEMMA NumType ==
    ASSUME NEW s, NEW ps, NEW ops
    PROVE  Num(s, ps, ops) \in Nat /\ \A i : Ind(s, i, ps, ops) \in {0, 1}
BY DEF Num, Ind

\* The places of the frames Carried counts.
Places(h, p, ops) == {x \in Actor \X (1..8) : /\ x[2] <= Len(h[x[1]])
                                              /\ h[x[1]][x[2]].p = p /\ h[x[1]][x[2]].op \in ops}

\* Replacing the list of one caller changes the number by what the two lists hold.
LEMMA PlacesStep ==
    ASSUME NEW h, DOMAIN h = Actor, NEW a \in Actor, NEW s, NEW p, NEW ops,
           NEW g, g = [h EXCEPT ![a] = s], Len(s) \in Nat, Len(h[a]) \in Nat
    PROVE  Changed(Cardinality(Places(h, p, ops)), Cardinality(Places(g, p, ops)),
                   Num(s, {p}, ops), Num(h[a], {p}, ops))
<1> DEFINE In(f, x) == /\ x[2] <= Len(f[x[1]]) /\ f[x[1]][x[2]].p = p /\ f[x[1]][x[2]].op \in ops
           Mid(k) == {x \in Actor \X (1..8) : IF x[1] = a /\ x[2] <= k THEN In(g, x) ELSE In(h, x)}
           N(k) == Ind(s, k, {p}, ops)
           O(k) == Ind(h[a], k, {p}, ops)
<1>1. Mid(0) = Places(h, p, ops)
  BY DEF Places
<1>2. Mid(8) = Places(g, p, ops)
  BY DEF Places
<1>3. IsFiniteSet(Mid(0)) /\ Cardinality(Mid(0)) \in Nat
  <2>1. Mid(0) \subseteq Actor \X (1..8)
    OBVIOUS
  <2> QED BY <2>1, Finite, FS_Subset, FS_CardinalityType
<1>4. ASSUME NEW k \in 1..8, IsFiniteSet(Mid(k - 1))
      PROVE  /\ IsFiniteSet(Mid(k)) /\ Cardinality(Mid(k)) \in Nat
             /\ Cardinality(Mid(k)) = (Cardinality(Mid(k - 1)) + N(k)) - O(k)
  <2> DEFINE y == <<a, k>>
  <2>1. Mid(k - 1) \ {y} = Mid(k) \ {y}
    <3>1. ASSUME NEW x \in Actor \X (1..8), x # y
          PROVE  x[1] = a /\ x[2] <= k - 1 <=> x[1] = a /\ x[2] <= k
      BY <3>1
    <3> QED BY <3>1
  <2>2. y \in Actor \X (1..8) /\ y[1] = a /\ y[2] = k
    OBVIOUS
  <2>3. y \in Mid(k) <=> k <= Len(s) /\ s[k].p = p /\ s[k].op \in ops
    BY <2>2
  <2>4. y \in Mid(k - 1) <=> k <= Len(h[a]) /\ h[a][k].p = p /\ h[a][k].op \in ops
    BY <2>2
  <2>5. (IF y \in Mid(k) THEN 1 ELSE 0) = N(k) /\ (IF y \in Mid(k - 1) THEN 1 ELSE 0) = O(k)
    BY <2>3, <2>4 DEF Ind
  <2> HIDE DEF Mid, N, O, y
  <2> QED BY <1>4, <2>1, <2>5, CardStep
<1>5. \A k \in 1..8 : N(k) \in {0, 1} /\ O(k) \in {0, 1}
  BY NumType
<1>6. /\ Num(s, {p}, ops) = N(1) + (N(2) + (N(3) + (N(4) + (N(5) + (N(6) + (N(7) + N(8)))))))
      /\ Num(h[a], {p}, ops) =
            O(1) + (O(2) + (O(3) + (O(4) + (O(5) + (O(6) + (O(7) + O(8)))))))
  BY DEF Num
<1> HIDE DEF Mid, N, O
<1>7. /\ IsFiniteSet(Mid(1)) /\ Cardinality(Mid(1)) \in Nat
      /\ Cardinality(Mid(1)) = (Cardinality(Mid(0)) + N(1)) - O(1)
  BY <1>3, <1>4, 1 \in 1..8, 1 - 1 = 0
<1>8. /\ IsFiniteSet(Mid(2)) /\ Cardinality(Mid(2)) \in Nat
      /\ Cardinality(Mid(2)) = (Cardinality(Mid(1)) + N(2)) - O(2)
  BY <1>7, <1>4, 2 \in 1..8, 2 - 1 = 1
<1>9. /\ IsFiniteSet(Mid(3)) /\ Cardinality(Mid(3)) \in Nat
      /\ Cardinality(Mid(3)) = (Cardinality(Mid(2)) + N(3)) - O(3)
  BY <1>8, <1>4, 3 \in 1..8, 3 - 1 = 2
<1>10. /\ IsFiniteSet(Mid(4)) /\ Cardinality(Mid(4)) \in Nat
       /\ Cardinality(Mid(4)) = (Cardinality(Mid(3)) + N(4)) - O(4)
  BY <1>9, <1>4, 4 \in 1..8, 4 - 1 = 3
<1>11. /\ IsFiniteSet(Mid(5)) /\ Cardinality(Mid(5)) \in Nat
       /\ Cardinality(Mid(5)) = (Cardinality(Mid(4)) + N(5)) - O(5)
  BY <1>10, <1>4, 5 \in 1..8, 5 - 1 = 4
<1>12. /\ IsFiniteSet(Mid(6)) /\ Cardinality(Mid(6)) \in Nat
       /\ Cardinality(Mid(6)) = (Cardinality(Mid(5)) + N(6)) - O(6)
  BY <1>11, <1>4, 6 \in 1..8, 6 - 1 = 5
<1>13. /\ IsFiniteSet(Mid(7)) /\ Cardinality(Mid(7)) \in Nat
       /\ Cardinality(Mid(7)) = (Cardinality(Mid(6)) + N(7)) - O(7)
  BY <1>12, <1>4, 7 \in 1..8, 7 - 1 = 6
<1>14. /\ IsFiniteSet(Mid(8)) /\ Cardinality(Mid(8)) \in Nat
       /\ Cardinality(Mid(8)) = (Cardinality(Mid(7)) + N(8)) - O(8)
  BY <1>13, <1>4, 8 \in 1..8, 8 - 1 = 7
<1>15. Cardinality(Mid(8)) = (Cardinality(Mid(0)) + Num(s, {p}, ops)) - Num(h[a], {p}, ops)
  <2>1. /\ N(1) \in Int /\ N(2) \in Int /\ N(3) \in Int /\ N(4) \in Int
        /\ N(5) \in Int /\ N(6) \in Int /\ N(7) \in Int /\ N(8) \in Int
        /\ O(1) \in Int /\ O(2) \in Int /\ O(3) \in Int /\ O(4) \in Int
        /\ O(5) \in Int /\ O(6) \in Int /\ O(7) \in Int /\ O(8) \in Int
    BY <1>5
  <2>2. Cardinality(Mid(0)) \in Int
    BY <1>3
  <2>3. Cardinality(Mid(8)) =
           (Cardinality(Mid(0))
            + (N(1) + (N(2) + (N(3) + (N(4) + (N(5) + (N(6) + (N(7) + N(8)))))))))
           - (O(1) + (O(2) + (O(3) + (O(4) + (O(5) + (O(6) + (O(7) + O(8))))))))
    <3>1. PICK n1 \in Int, n2 \in Int, n3 \in Int, n4 \in Int, n5 \in Int, n6 \in Int,
               n7 \in Int, n8 \in Int : /\ n1 = N(1) /\ n2 = N(2) /\ n3 = N(3) /\ n4 = N(4)
                                        /\ n5 = N(5) /\ n6 = N(6) /\ n7 = N(7) /\ n8 = N(8)
      BY <2>1
    <3>2. PICK o1 \in Int, o2 \in Int, o3 \in Int, o4 \in Int, o5 \in Int, o6 \in Int,
               o7 \in Int, o8 \in Int : /\ o1 = O(1) /\ o2 = O(2) /\ o3 = O(3) /\ o4 = O(4)
                                        /\ o5 = O(5) /\ o6 = O(6) /\ o7 = O(7) /\ o8 = O(8)
      BY <2>1
    <3>3. PICK c0 \in Int, c1 \in Int, c2 \in Int, c3 \in Int, c4 \in Int, c5 \in Int,
               c6 \in Int, c7 \in Int, c8 \in Int :
             /\ c0 = Cardinality(Mid(0)) /\ c1 = Cardinality(Mid(1)) /\ c2 = Cardinality(Mid(2))
             /\ c3 = Cardinality(Mid(3)) /\ c4 = Cardinality(Mid(4)) /\ c5 = Cardinality(Mid(5))
             /\ c6 = Cardinality(Mid(6)) /\ c7 = Cardinality(Mid(7)) /\ c8 = Cardinality(Mid(8))
      <4>1. /\ Cardinality(Mid(0)) \in Int /\ Cardinality(Mid(1)) \in Int
            /\ Cardinality(Mid(2)) \in Int /\ Cardinality(Mid(3)) \in Int
            /\ Cardinality(Mid(4)) \in Int /\ Cardinality(Mid(5)) \in Int
            /\ Cardinality(Mid(6)) \in Int /\ Cardinality(Mid(7)) \in Int
            /\ Cardinality(Mid(8)) \in Int
        BY <1>3, <1>7, <1>8, <1>9, <1>10, <1>11, <1>12, <1>13, <1>14
      <4> QED BY <4>1, Zenon
    <3>4. /\ c1 = (c0 + n1) - o1 /\ c2 = (c1 + n2) - o2 /\ c3 = (c2 + n3) - o3
          /\ c4 = (c3 + n4) - o4 /\ c5 = (c4 + n5) - o5 /\ c6 = (c5 + n6) - o6
          /\ c7 = (c6 + n7) - o7 /\ c8 = (c7 + n8) - o8
      BY <1>7, <1>8, <1>9, <1>10, <1>11, <1>12, <1>13, <1>14, <3>1, <3>2, <3>3
    <3>5. c8 = (c0 + (n1 + (n2 + (n3 + (n4 + (n5 + (n6 + (n7 + n8))))))))
               - (o1 + (o2 + (o3 + (o4 + (o5 + (o6 + (o7 + o8)))))))
      BY <3>4
    <3> QED BY <3>1, <3>2, <3>3, <3>5
  <2> QED BY <1>6, <2>3
<1> QED BY <1>1, <1>2, <1>3, <1>14, <1>15 DEF Changed

-----------------------------------------------------------------------------
(* Lists of frames.                                                        *)

One(f, ps, ops) == IF f.p \in ps /\ f.op \in ops THEN 1 ELSE 0

\* The list after its first frame is done, is replaced by one, or by two.
LEMMA ListView ==
    ASSUME NEW s \in Seq(Frame), s # <<>>, NEW f \in Frame, NEW g \in Frame
    PROVE  /\ Len(s) \in Nat /\ Len(s) >= 1 /\ Head(s) = s[1] /\ \A i \in 1..Len(s) : s[i] \in Frame
           /\ <<>> \o Tail(s) \in Seq(Frame) /\ Len(<<>> \o Tail(s)) = Len(s) - 1
           /\ \A i \in 1..(Len(s) - 1) : (<<>> \o Tail(s))[i] = s[i + 1]
           /\ <<f>> \o Tail(s) \in Seq(Frame) /\ Len(<<f>> \o Tail(s)) = Len(s)
           /\ (<<f>> \o Tail(s))[1] = f
           /\ \A i \in 2..Len(s) : (<<f>> \o Tail(s))[i] = s[i]
           /\ <<f, g>> \o Tail(s) \in Seq(Frame) /\ Len(<<f, g>> \o Tail(s)) = Len(s) + 1
           /\ (<<f, g>> \o Tail(s))[1] = f /\ (<<f, g>> \o Tail(s))[2] = g
           /\ \A i \in 3..(Len(s) + 1) : (<<f, g>> \o Tail(s))[i] = s[i - 1]
OBVIOUS

\* Counting in such a list.
LEMMA PopNum ==
    ASSUME NEW s \in Seq(Frame), s # <<>>, Len(s) <= 8, NEW ps, NEW ops
    PROVE  Num(<<>> \o Tail(s), ps, ops) = Num(s, ps, ops) - One(s[1], ps, ops)
<1> DEFINE t == <<>> \o Tail(s)
           I(k) == Ind(s, k, ps, ops)
           J(k) == Ind(t, k, ps, ops)
<1>1. /\ Len(s) \in Nat /\ Len(s) >= 1 /\ Len(t) = Len(s) - 1
      /\ \A i \in 1..(Len(s) - 1) : t[i] = s[i + 1]
  OBVIOUS
<1> HIDE DEF t
<1>2. ASSUME NEW k \in 1..7 PROVE J(k) = I(k + 1)
  BY <1>1 DEF Ind
<1>3. I(1) = One(s[1], ps, ops) /\ J(8) = 0
  BY <1>1 DEF Ind, One
<1>4. Num(t, ps, ops) = J(1) + (J(2) + (J(3) + (J(4) + (J(5) + (J(6) + (J(7) + J(8)))))))
  BY DEF Num
<1>5. Num(s, ps, ops) = I(1) + (I(2) + (I(3) + (I(4) + (I(5) + (I(6) + (I(7) + I(8)))))))
  BY DEF Num
<1>6. J(1) = I(2) /\ J(2) = I(3) /\ J(3) = I(4) /\ J(4) = I(5) /\ J(5) = I(6) /\ J(6) = I(7)
      /\ J(7) = I(8)
  BY <1>2
<1>7. PICK i1 \in Int, i2 \in Int, i3 \in Int, i4 \in Int, i5 \in Int, i6 \in Int, i7 \in Int,
           i8 \in Int : /\ i1 = I(1) /\ i2 = I(2) /\ i3 = I(3) /\ i4 = I(4)
                        /\ i5 = I(5) /\ i6 = I(6) /\ i7 = I(7) /\ i8 = I(8)
  <2>1. \A k : I(k) \in Int
    BY DEF Ind
  <2> HIDE DEF I
  <2> QED BY <2>1, Zenon
<1> HIDE DEF I, J
<1>8. Num(t, ps, ops) = i2 + (i3 + (i4 + (i5 + (i6 + (i7 + (i8 + 0))))))
  BY <1>3, <1>4, <1>6, <1>7
<1>9. Num(s, ps, ops) = i1 + (i2 + (i3 + (i4 + (i5 + (i6 + (i7 + i8))))))
  BY <1>5, <1>7
<1>10. Num(t, ps, ops) = Num(s, ps, ops) - i1
  BY <1>8, <1>9
<1> QED BY <1>3, <1>7, <1>10 DEF t

\* The same, with one frame put in front.
LEMMA PushNum ==
    ASSUME NEW s \in Seq(Frame), Len(s) <= 7, NEW f \in Frame, NEW ps, NEW ops
    PROVE  Num(<<f>> \o s, ps, ops) = Num(s, ps, ops) + One(f, ps, ops)
<1> DEFINE t == <<f>> \o s
<1>1. t \in Seq(Frame) /\ t # <<>> /\ Len(t) = Len(s) + 1 /\ t[1] = f /\ <<>> \o Tail(t) = s
  OBVIOUS
<1> HIDE DEF t
<1>2. Num(s, ps, ops) = Num(t, ps, ops) - One(f, ps, ops)
  <2>1. Len(t) <= 8
    BY <1>1
  <2>2. Num(<<>> \o Tail(t), ps, ops) = Num(t, ps, ops) - One(t[1], ps, ops)
    BY <1>1, <2>1, PopNum
  <2> QED BY <1>1, <2>2
<1>3. Num(t, ps, ops) \in Nat /\ One(f, ps, ops) \in Int
  BY NumType DEF One
<1> QED BY <1>2, <1>3 DEF t

\* A list written out.
LEMMA Num0 ==
    ASSUME NEW ps, NEW ops PROVE Num(<<>>, ps, ops) = 0
BY DEF Num, Ind

\* A list of one frame.
LEMMA Num1 ==
    ASSUME NEW ps, NEW ops, NEW e \in Frame
    PROVE  Num(<<e>>, ps, ops) =
               One(e, ps, ops)
BY DEF Num, Ind, One

\* A list of two frames.
LEMMA Num2 ==
    ASSUME NEW ps, NEW ops, NEW e \in Frame, NEW f \in Frame
    PROVE  Num(<<e, f>>, ps, ops) =
               One(e, ps, ops) + One(f, ps, ops)
BY DEF Num, Ind, One

\* A list of three frames.
LEMMA Num3 ==
    ASSUME NEW ps, NEW ops, NEW e \in Frame, NEW f \in Frame, NEW g \in Frame
    PROVE  Num(<<e, f, g>>, ps, ops) =
               One(e, ps, ops) + (One(f, ps, ops) + One(g, ps, ops))
BY DEF Num, Ind, One

\* A list of four frames.
LEMMA Num4 ==
    ASSUME NEW ps, NEW ops, NEW e \in Frame, NEW f \in Frame, NEW g \in Frame, NEW h \in Frame
    PROVE  Num(<<e, f, g, h>>, ps, ops) =
               One(e, ps, ops) + (One(f, ps, ops) + (One(g, ps, ops) + One(h, ps, ops)))
BY DEF Num, Ind, One

\* A list of five frames.
LEMMA Num5 ==
    ASSUME NEW ps, NEW ops,
           NEW e \in Frame, NEW f \in Frame, NEW g \in Frame, NEW h \in Frame, NEW k \in Frame
    PROVE  Num(<<e, f, g, h, k>>, ps, ops) =
               One(e, ps, ops) + (One(f, ps, ops) + (One(g, ps, ops)
               + (One(h, ps, ops) + One(k, ps, ops))))
BY DEF Num, Ind, One

-----------------------------------------------------------------------------
(* The frames in flight.                                                   *)

\* The types that Process states.
LEMMA TypesOK == VarTypes /\ ListTypes /\ realtime \in SUBSET Task => TypeOK
<1> SUFFICES ASSUME VarTypes, ListTypes, realtime \in SUBSET Task
             PROVE  \A a \in Actor : Len(todo[a]) <= 8
                                     /\ \A i \in 1..Len(todo[a]) : todo[a][i] \in Frame
  BY DEF VarTypes, TypeOK
<1> TAKE a \in Actor
<1>1. todo[a] \in Seq(Frame) /\ Len(todo[a]) + Num(todo[a], Pid, {"release"}) <= 8
  BY DEF ListTypes
<1>2. Num(todo[a], Pid, {"release"}) \in Nat /\ Len(todo[a]) \in Nat
  BY <1>1, NumType
<1> QED BY <1>1, <1>2

\* A new list in the place of an old one.
LEMMA ListStep ==
    ASSUME ListTypes, NEW a \in Actor, NEW s \in Seq(Frame), todo' = [todo EXCEPT ![a] = s],
           Len(s) + Num(s, Pid, {"release"}) <= 8
    PROVE  ListTypes'
<1>1. todo' \in [Actor -> Seq(Frame)]
  BY DEF ListTypes
<1>2. ASSUME NEW b \in Actor
      PROVE  Len(todo'[b]) + Num(todo'[b], Pid, {"release"}) <= 8
  <2>1. CASE b = a
    <3>1. todo'[b] = s
      BY <2>1 DEF ListTypes
    <3> QED BY <3>1
  <2>2. CASE b # a
    <3>1. todo'[b] = todo[b]
      BY <2>2 DEF ListTypes
    <3> QED BY <3>1 DEF ListTypes
  <2> QED BY <2>1, <2>2
<1> QED BY <1>1, <1>2 DEF ListTypes

\* What it changes in the number of frames of a kind for a process.
LEMMA CarriedStep ==
    ASSUME ListTypes, NEW a \in Actor, NEW s \in Seq(Frame), todo' = [todo EXCEPT ![a] = s],
           NEW p, NEW ops
    PROVE  Changed(Carried(p, ops), Carried(p, ops)', Num(s, {p}, ops), Num(todo[a], {p}, ops))
<1>1. DOMAIN todo = Actor /\ Len(todo[a]) \in Nat /\ Len(s) \in Nat
  BY DEF ListTypes
<1>2. Changed(Cardinality(Places(todo, p, ops)), Cardinality(Places(todo', p, ops)),
              Num(s, {p}, ops), Num(todo[a], {p}, ops))
  BY <1>1, PlacesStep
<1>3. Carried(p, ops) = Cardinality(Places(todo, p, ops))
  BY DEF Carried, Places
<1>4. Carried(p, ops)' = Cardinality(Places(todo', p, ops))
  BY DEF Carried, Places
<1> QED BY <1>2, <1>3, <1>4

\* What is known of a list that is not empty.
LEMMA ListFacts ==
    ASSUME ListTypes, NEW a \in Actor, todo[a] # <<>>
    PROVE  /\ todo[a] \in Seq(Frame) /\ Len(todo[a]) \in Nat /\ Len(todo[a]) >= 1
           /\ Len(todo[a]) <= 8 /\ todo[a][1] \in Frame /\ Head(todo[a]) = todo[a][1]
           /\ todo[a][1].op = "release" => Len(todo[a]) <= 7
<1>1. /\ todo[a] \in Seq(Frame) /\ Len(todo[a]) \in Nat /\ Len(todo[a]) >= 1
      /\ todo[a][1] \in Frame /\ Head(todo[a]) = todo[a][1]
  BY ListView DEF ListTypes
<1>2. Num(todo[a], Pid, {"release"}) \in Nat
      /\ Len(todo[a]) + Num(todo[a], Pid, {"release"}) <= 8
  BY NumType DEF ListTypes
<1>3. ASSUME todo[a][1].op = "release" PROVE Num(todo[a], Pid, {"release"}) >= 1
  <2> DEFINE n == Num(<<>> \o Tail(todo[a]), Pid, {"release"})
  <2>1. Len(todo[a]) <= 8
    BY <1>1, <1>2
  <2>2. n = Num(todo[a], Pid, {"release"}) - One(todo[a][1], Pid, {"release"})
    BY <1>1, <2>1, PopNum
  <2>3. One(todo[a][1], Pid, {"release"}) = 1
    BY <1>1, <1>3 DEF One, Frame
  <2>4. n \in Nat
    BY NumType
  <2> QED BY <1>2, <2>2, <2>3, <2>4
<1> QED BY <1>1, <1>2, <1>3

\* The first frame is done.
LEMMA CarriedPop ==
    ASSUME ListTypes, NEW a \in Actor, todo[a] # <<>>,
           todo' = [todo EXCEPT ![a] = <<>> \o Tail(@)]
    PROVE  /\ ListTypes'
           /\ \A p, ops : Changed(Carried(p, ops), Carried(p, ops)', 0, One(todo[a][1], {p}, ops))
<1> DEFINE s == todo[a]
           t == <<>> \o Tail(s)
<1>1. s \in Seq(Frame) /\ Len(s) \in Nat /\ Len(s) <= 8
  BY ListFacts
<1>2. t \in Seq(Frame) /\ Len(t) = Len(s) - 1 /\ todo' = [todo EXCEPT ![a] = t]
  BY <1>1, ListView DEF ListTypes
<1>3. \A ps, ops : Num(t, ps, ops) = Num(s, ps, ops) - One(s[1], ps, ops)
  BY <1>1, PopNum
<1>4. Len(s) + Num(s, Pid, {"release"}) <= 8
  BY DEF ListTypes
<1> HIDE DEF s, t
<1>5. \A ps, ops : One(s[1], ps, ops) \in Nat /\ Num(s, ps, ops) \in Nat
  BY NumType DEF One
<1>6. Len(t) + Num(t, Pid, {"release"}) <= 8
  BY <1>1, <1>2, <1>3, <1>4, <1>5
<1>7. ListTypes'
  BY <1>2, <1>6, ListStep
<1>8. ASSUME NEW p, NEW ops
      PROVE  Changed(Carried(p, ops), Carried(p, ops)', 0, One(todo[a][1], {p}, ops))
  <2>1. Changed(Carried(p, ops), Carried(p, ops)', Num(t, {p}, ops), Num(todo[a], {p}, ops))
    BY <1>2, CarriedStep
  <2>2. /\ Num(t, {p}, ops) = Num(s, {p}, ops) - One(s[1], {p}, ops)
        /\ Num(s, {p}, ops) \in Nat /\ One(s[1], {p}, ops) \in Nat
    BY <1>3, <1>5
  <2> QED BY <2>1, <2>2 DEF s, Changed
<1> QED BY <1>7, <1>8
\* The first frame is replaced by another, which is no release.
LEMMA CarriedSwap ==
    ASSUME ListTypes, NEW a \in Actor, todo[a] # <<>>, NEW f \in Frame, f.op # "release",
           todo' = [todo EXCEPT ![a] = <<f>> \o Tail(@)]
    PROVE  /\ ListTypes'
           /\ \A p, ops : Changed(Carried(p, ops), Carried(p, ops)', One(f, {p}, ops),
                                  One(todo[a][1], {p}, ops))
<1> DEFINE s == todo[a]
           r == <<>> \o Tail(s)
           t == <<f>> \o r
<1>1. s \in Seq(Frame) /\ Len(s) \in Nat /\ Len(s) >= 1 /\ Len(s) <= 8
  BY ListFacts
<1>2. r \in Seq(Frame) /\ Len(r) = Len(s) - 1
  BY <1>1, ListView
<1>3. t \in Seq(Frame) /\ Len(t) = Len(s) /\ todo' = [todo EXCEPT ![a] = t]
  <2>1. <<>> \o Tail(s) = Tail(s)
    BY <1>1
  <2>2. todo' = [todo EXCEPT ![a] = <<f>> \o Tail(s)]
    BY DEF ListTypes
  <2> QED BY <1>1, <2>1, <2>2, ListView
<1>4. \A ps, ops : Num(r, ps, ops) = Num(s, ps, ops) - One(s[1], ps, ops)
  BY <1>1, PopNum
<1>5. Len(r) <= 7
  BY <1>1, <1>2
<1>6. \A ps, ops : Num(t, ps, ops) = Num(r, ps, ops) + One(f, ps, ops)
  <2> HIDE DEF r
  <2> QED BY <1>2, <1>5, PushNum
<1>7. Len(s) + Num(s, Pid, {"release"}) <= 8
  BY DEF ListTypes
<1> HIDE DEF s, r, t
<1>8. \A ps, ops : One(s[1], ps, ops) \in Nat /\ Num(s, ps, ops) \in Nat /\ One(f, ps, ops) \in Nat
  BY NumType DEF One
<1>9. Len(t) + Num(t, Pid, {"release"}) <= 8
  <2>1. One(f, Pid, {"release"}) = 0
    BY DEF One
  <2>2. Num(t, Pid, {"release"}) = Num(r, Pid, {"release"}) + 0
    BY <1>6, <2>1
  <2>3. Num(r, Pid, {"release"}) = Num(s, Pid, {"release"}) - One(s[1], Pid, {"release"})
    BY <1>4
  <2> QED BY <1>1, <1>3, <1>7, <1>8, <2>2, <2>3
<1>10. ListTypes'
  BY <1>3, <1>9, ListStep
<1>11. ASSUME NEW p, NEW ops
       PROVE  Changed(Carried(p, ops), Carried(p, ops)', One(f, {p}, ops),
                      One(todo[a][1], {p}, ops))
  <2>1. Changed(Carried(p, ops), Carried(p, ops)', Num(t, {p}, ops), Num(todo[a], {p}, ops))
    BY <1>3, CarriedStep
  <2>2. /\ Num(r, {p}, ops) = Num(s, {p}, ops) - One(s[1], {p}, ops)
        /\ Num(t, {p}, ops) = Num(r, {p}, ops) + One(f, {p}, ops)
        /\ Num(s, {p}, ops) \in Nat /\ One(s[1], {p}, ops) \in Nat /\ One(f, {p}, ops) \in Nat
    BY <1>4, <1>6, <1>8
  <2> QED BY <2>1, <2>2 DEF s, Changed
<1> QED BY <1>10, <1>11

\* The release of the last reference is replaced by two frames that are no releases.
LEMMA CarriedSplit ==
    ASSUME ListTypes, NEW a \in Actor, todo[a] # <<>>, todo[a][1].op = "release",
           NEW f \in Frame, f.op # "release", NEW g \in Frame, g.op # "release",
           todo' = [todo EXCEPT ![a] = <<f, g>> \o Tail(@)]
    PROVE  /\ ListTypes'
           /\ \A p, ops : Changed(Carried(p, ops), Carried(p, ops)',
                                  One(f, {p}, ops) + One(g, {p}, ops), One(todo[a][1], {p}, ops))
<1> DEFINE s == todo[a]
           r == <<>> \o Tail(s)
           u == <<g>> \o r
           t == <<f>> \o u
<1>1. s \in Seq(Frame) /\ Len(s) \in Nat /\ Len(s) >= 1 /\ Len(s) <= 7 /\ s[1] \in Frame
  BY ListFacts
<1>2. r \in Seq(Frame) /\ Len(r) = Len(s) - 1
  BY <1>1, ListView
<1>3. u \in Seq(Frame) /\ Len(u) = Len(s)
  BY <1>1, <1>2
<1>4. t \in Seq(Frame) /\ Len(t) = Len(s) + 1 /\ todo' = [todo EXCEPT ![a] = t]
  <2>1. <<f, g>> \o Tail(s) = t
    BY <1>1
  <2>2. todo' = [todo EXCEPT ![a] = <<f, g>> \o Tail(s)]
    BY DEF ListTypes
  <2>3. t \in Seq(Frame) /\ Len(t) = Len(u) + 1
    <3> HIDE DEF u
    <3> QED BY <1>3
  <2> HIDE DEF t, u
  <2> QED BY <1>3, <2>1, <2>2, <2>3
<1>5. \A ps, ops : Num(r, ps, ops) = Num(s, ps, ops) - One(s[1], ps, ops)
  <2>1. Len(s) <= 8
    BY <1>1
  <2> QED BY <1>1, <2>1, PopNum
<1>6. Len(r) <= 7 /\ Len(u) <= 7
  BY <1>1, <1>2, <1>3
<1>7. \A ps, ops : Num(u, ps, ops) = Num(r, ps, ops) + One(g, ps, ops)
  <2> HIDE DEF r
  <2> QED BY <1>2, <1>6, PushNum
<1>8. \A ps, ops : Num(t, ps, ops) = Num(u, ps, ops) + One(f, ps, ops)
  <2> HIDE DEF u
  <2> QED BY <1>3, <1>6, PushNum
<1>9. Len(s) + Num(s, Pid, {"release"}) <= 8
  BY DEF ListTypes
<1>10. One(s[1], Pid, {"release"}) = 1
  BY <1>1 DEF One, Frame
<1> HIDE DEF s, r, u, t
<1>11. \A ps, ops : /\ One(s[1], ps, ops) \in Nat /\ Num(s, ps, ops) \in Nat
                    /\ One(f, ps, ops) \in Nat /\ One(g, ps, ops) \in Nat
  BY NumType DEF One
<1>12. Len(t) + Num(t, Pid, {"release"}) <= 8
  <2>1. One(f, Pid, {"release"}) = 0 /\ One(g, Pid, {"release"}) = 0
    BY DEF One
  <2>2. /\ Num(t, Pid, {"release"}) = Num(u, Pid, {"release"}) + 0
        /\ Num(u, Pid, {"release"}) = Num(r, Pid, {"release"}) + 0
        /\ Num(r, Pid, {"release"}) = Num(s, Pid, {"release"}) - 1
        /\ Num(s, Pid, {"release"}) \in Nat
    BY <1>5, <1>7, <1>8, <1>10, <1>11, <2>1
  <2> QED BY <1>1, <1>4, <1>9, <2>2
<1>13. ListTypes'
  BY <1>4, <1>12, ListStep
<1>14. ASSUME NEW p, NEW ops
       PROVE  Changed(Carried(p, ops), Carried(p, ops)',
                      One(f, {p}, ops) + One(g, {p}, ops), One(todo[a][1], {p}, ops))
  <2>1. Changed(Carried(p, ops), Carried(p, ops)', Num(t, {p}, ops), Num(todo[a], {p}, ops))
    BY <1>4, CarriedStep
  <2>2. /\ Num(r, {p}, ops) = Num(s, {p}, ops) - One(s[1], {p}, ops)
        /\ Num(u, {p}, ops) = Num(r, {p}, ops) + One(g, {p}, ops)
        /\ Num(t, {p}, ops) = Num(u, {p}, ops) + One(f, {p}, ops)
        /\ Num(s, {p}, ops) \in Nat /\ One(s[1], {p}, ops) \in Nat
        /\ One(f, {p}, ops) \in Nat /\ One(g, {p}, ops) \in Nat
    BY <1>5, <1>7, <1>8, <1>11
  <2> QED BY <2>1, <2>2 DEF s, Changed
<1> QED BY <1>13, <1>14

\* Frames that are there are counted.
LEMMA CarriedType ==
    ASSUME NEW p, NEW ops
    PROVE  /\ Carried(p, ops) \in Nat /\ IsFiniteSet(Places(todo, p, ops))
           /\ Carried(p, ops) = Cardinality(Places(todo, p, ops))
<1>1. Places(todo, p, ops) \subseteq Actor \X (1..8)
  BY DEF Places
<1>2. IsFiniteSet(Places(todo, p, ops))
  BY <1>1, Finite, FS_Subset
<1>3. Carried(p, ops) = Cardinality(Places(todo, p, ops))
  BY DEF Carried, Places
<1> QED BY <1>2, <1>3, FS_CardinalityType

\* One frame counts for one.
LEMMA CarriedSome ==
    ASSUME ListTypes, NEW a \in Actor, NEW i \in 1..Len(todo[a]), NEW p, NEW ops,
           todo[a][i].p = p, todo[a][i].op \in ops
    PROVE  Carried(p, ops) >= 1
<1>1. todo[a] # <<>>
  OBVIOUS
<1>2. <<a, i>> \in Places(todo, p, ops)
  BY <1>1, ListFacts DEF Places
<1>3. Cardinality(Places(todo, p, ops)) # 0
  BY <1>2, CarriedType, FS_EmptySet
<1> QED BY <1>3, CarriedType

\* Two frames in two places count for two.
LEMMA CarriedTwo ==
    ASSUME ListTypes, NEW p, NEW ops,
           NEW a \in Actor, NEW i \in 1..Len(todo[a]), todo[a][i].p = p, todo[a][i].op \in ops,
           NEW b \in Actor, NEW j \in 1..Len(todo[b]), todo[b][j].p = p, todo[b][j].op \in ops,
           a # b \/ i # j
    PROVE  Carried(p, ops) >= 2
<1> DEFINE S == Places(todo, p, ops)
           x == <<a, i>>
           y == <<b, j>>
<1>1. todo[a] # <<>> /\ todo[b] # <<>>
  OBVIOUS
<1>2. x \in S /\ y \in S /\ x # y
  BY <1>1, ListFacts, SMTT(30) DEF Places
<1>3. IsFiniteSet(S) /\ Carried(p, ops) = Cardinality(S) /\ Carried(p, ops) \in Nat
  BY CarriedType
<1> HIDE DEF S, x, y
<1>4. IsFiniteSet(S \ {x}) /\ Cardinality(S \ {x}) = Cardinality(S) - 1
  BY <1>2, <1>3, FS_RemoveElement
<1>5. Cardinality(S \ {x}) # 0 /\ Cardinality(S \ {x}) \in Nat
  <2>1. S \ {x} # {}
    BY <1>2
  <2> QED BY <1>4, <2>1, FS_EmptySet, FS_CardinalityType
<1> QED BY <1>3, <1>4, <1>5

\* Without such a frame the count is zero.
LEMMA CarriedNone ==
    ASSUME NEW p, NEW ops,
           \A a \in Actor : \A i \in 1..Len(todo[a]) : todo[a][i].p = p => todo[a][i].op \notin ops,
           ListTypes
    PROVE  Carried(p, ops) = 0
<1>1. Places(todo, p, ops) = {}
  <2> SUFFICES ASSUME NEW x \in Places(todo, p, ops) PROVE FALSE
    OBVIOUS
  <2>1. x[1] \in Actor /\ x[2] \in 1..8 /\ x[2] <= Len(todo[x[1]])
        /\ todo[x[1]][x[2]].p = p /\ todo[x[1]][x[2]].op \in ops
    BY DEF Places
  <2>2. x[2] \in 1..Len(todo[x[1]])
    BY <2>1 DEF ListTypes
  <2> QED BY <2>1, <2>2
<1> QED BY <1>1, CarriedType, FS_EmptySet

-----------------------------------------------------------------------------
(* Steps of one caller and the lists of the others.                        *)

MakeOps == {"acquire", "retain", "add", "task", "bind", "attach"}

\* The shapes and the frames, list by list.
LEMMA ListsStep ==
    ASSUME ListTypes, Shapes, FramesOK, NEW a \in Actor, NEW s \in Seq(Frame),
           todo' = [todo EXCEPT ![a] = s],
           s # <<>> => Shape(a, s)', ListOK(a, s)',
           \A b \in Actor \ {a} : \A r \in Seq(Frame) :
              r = todo[b] /\ r # <<>> /\ Shape(b, r) /\ ListOK(b, r) => Shape(b, r)' /\ ListOK(b, r)'
    PROVE  Shapes' /\ FramesOK'
<1> SUFFICES ASSUME NEW b \in Actor, NEW r \in Seq(Frame), r = todo'[b]
             PROVE  (r # <<>> => Shape(b, r)') /\ ListOK(b, r)'
  <2>1. \A b \in Actor : todo'[b] \in Seq(Frame)
    BY DEF ListTypes
  <2> QED BY <2>1 DEF Shapes, FramesOK
<1>1. CASE b = a
  <2>1. r = s
    BY <1>1 DEF ListTypes
  <2> QED BY <1>1, <2>1
<1>2. CASE b # a
  <2>1. r = todo[b]
    BY <1>2 DEF ListTypes
  <2>2. CASE r = <<>>
    BY <2>2 DEF ListOK
  <2>3. CASE r # <<>>
    BY <1>2, <2>1, <2>3 DEF Shapes, FramesOK
  <2> QED BY <2>2, <2>3
<1> QED BY <1>1, <1>2

\* No list takes over a publication that another has.
LEMMA PublishStep ==
    ASSUME ListTypes, PublishOnce, NEW a \in Actor, NEW s \in Seq(Frame),
           todo' = [todo EXCEPT ![a] = s],
           \A i \in 1..Len(s) : \A b \in Actor \ {a} : \A j \in 1..Len(todo[b]) :
              s[i].op = "publish" /\ todo[b][j].op = "publish" => todo[b][j].t # s[i].t
    PROVE  PublishOnce'
<1> SUFFICES ASSUME NEW b \in Actor, NEW c \in Actor, NEW i \in 1..Len(todo'[b]),
                    NEW j \in 1..Len(todo'[c]), todo'[b][i].op = "publish",
                    todo'[c][j].op = "publish", todo'[b][i].t = todo'[c][j].t, b # c
             PROVE  FALSE
  BY DEF PublishOnce
<1>1. todo'[a] = s /\ \A d \in Actor \ {a} : todo'[d] = todo[d]
  BY DEF ListTypes
<1>2. CASE b = a
  BY <1>1, <1>2
<1>3. CASE c = a
  BY <1>1, <1>3
<1>4. CASE b # a /\ c # a
  BY <1>1, <1>4 DEF PublishOnce
<1> QED BY <1>2, <1>3, <1>4

\* The publications of s are publications of the old list of a.
Inherits(a, s) ==
    \A i \in 1..Len(s) : s[i].op = "publish" =>
        \E j \in 1..Len(todo[a]) : todo[a][j].op = "publish" /\ todo[a][j].t = s[i].t

\* A step that leaves the tasks alone, and the makers of a process with a new one.
LEMMA QuietStep ==
    ASSUME PInv, NEW a \in Actor, NEW s \in Seq(Frame), todo' = [todo EXCEPT ![a] = s],
           UNCHANGED <<parent_id, next_process_id, tstate, tproc, tspace>>,
           s # <<>> => Shape(a, s), ListOK(a, s), Inherits(a, s),
           a = reaper => /\ s # <<>> /\ todo[a] # <<>>
                         /\ s[Len(s)].t = todo[a][Len(todo[a])].t,
           \A b \in Actor : \A i \in 1..Len(todo'[b]) :
              todo'[b][i].op \in MakeOps /\ state[todo'[b][i].p] = "NEW"
                 => state'[todo'[b][i].p] = "NEW"
    PROVE  Shapes' /\ FramesOK' /\ PublishOnce' /\ TasksOK'
<1>1. ListTypes /\ Shapes /\ FramesOK /\ PublishOnce /\ TasksOK
  BY DEF PInv
<1>2. todo'[a] = s /\ \A b \in Actor \ {a} : todo'[b] = todo[b]
  BY <1>1 DEF ListTypes
<1>3. ASSUME NEW b \in Actor, NEW r, Shape(b, r)
      PROVE  Shape(b, r)'
  BY <1>3 DEF Shape, Threaded
<1>4. ASSUME NEW b \in Actor, NEW r, r = todo'[b], ListOK(b, r)
      PROVE  ListOK(b, r)'
  <2> SUFFICES ASSUME NEW i \in 1..Len(r) PROVE FrameOK(b, r[i])'
    BY DEF ListOK
  <2>1. FrameOK(b, r[i])
    BY <1>4 DEF ListOK
  <2>2. r[i].op \in MakeOps /\ state[r[i].p] = "NEW" => state'[r[i].p] = "NEW"
    BY <1>4
  <2> QED BY <2>1, <2>2 DEF FrameOK, Threaded, MakeOps
<1>5. Shapes' /\ FramesOK'
  <2>1. s # <<>> => Shape(a, s)'
    BY <1>3
  <2>2. ListOK(a, s)'
    BY <1>2, <1>4
  <2>3. \A b \in Actor \ {a} : \A r \in Seq(Frame) :
           r = todo[b] /\ r # <<>> /\ Shape(b, r) /\ ListOK(b, r) => Shape(b, r)' /\ ListOK(b, r)'
    BY <1>2, <1>3, <1>4
  <2> QED BY <1>1, <2>1, <2>2, <2>3, ListsStep
<1>6. PublishOnce'
  <2>1. ASSUME NEW i \in 1..Len(s), NEW b \in Actor \ {a}, NEW j \in 1..Len(todo[b]),
               s[i].op = "publish", todo[b][j].op = "publish"
        PROVE  todo[b][j].t # s[i].t
    <3>1. PICK k \in 1..Len(todo[a]) : todo[a][k].op = "publish" /\ todo[a][k].t = s[i].t
      BY <2>1 DEF Inherits
    <3> QED BY <1>1, <2>1, <3>1 DEF PublishOnce
  <2> QED BY <1>1, <2>1, PublishStep, ZenonT(60)
<1>7. TasksOK'
  <2> SUFFICES ASSUME NEW t \in Task PROVE TaskOK(t)'
    BY DEF TasksOK
  <2>1. TaskOK(t)
    BY <1>1 DEF TasksOK
  <2>2. Reaping(t) => Reaping(t)'
    <3>1. CASE a = reaper
      BY <1>2, <3>1 DEF Reaping
    <3>2. CASE a # reaper
      <4>1. todo'[reaper] = todo[reaper]
        BY <1>2, <3>2 DEF Actor
      <4> QED BY <4>1 DEF Reaping
    <3> QED BY <3>1, <3>2
  <2>3. Being(t)' <=> Being(t)
    BY DEF Being
  <2> QED BY <2>1, <2>2, <2>3 DEF TaskOK
<1> QED BY <1>5, <1>6, <1>7

\* A list without its first frame, or with that of a last release replaced, is in order.
Poppable == {"add", "release", "space", "free", "detach"}
Popped(a, s) ==
    /\ s \in Seq(Frame) /\ (s # <<>> => Shape(a, s)) /\ ListOK(a, s) /\ Inherits(a, s)
    /\ a = reaper => s # <<>> /\ s[Len(s)].t = todo[a][Len(todo[a])].t
    /\ \A i \in 1..Len(s) : s[i] = todo[a][i + 1] /\ i + 1 \in 1..Len(todo[a])
LEMMA PopList ==
    ASSUME PInv, NEW a \in Actor, todo[a] # <<>>, todo[a][1].op \in Poppable
    PROVE  Popped(a, <<>> \o Tail(todo[a]))
<1> DEFINE r == todo[a]
           s == <<>> \o Tail(r)
<1>1. ListTypes /\ Shape(a, r) /\ ListOK(a, r)
  BY DEF PInv, Shapes, FramesOK
<1>2. /\ r \in Seq(Frame) /\ Len(r) \in Nat /\ Len(r) >= 1 /\ r[1] \in Frame
  BY <1>1, ListFacts
<1>3. s \in Seq(Frame) /\ Len(s) = Len(r) - 1 /\ \A i \in 1..(Len(r) - 1) : s[i] = r[i + 1]
  BY <1>2, ListView
<1> HIDE DEF s, r
<1>4. s # <<>> <=> Len(s) > 0
  <2>1. s \in Seq(Frame)
    BY <1>3
  <2> QED BY <2>1
<1>5. \A i \in 1..Len(s) : s[i] = r[i + 1] /\ i + 1 \in 1..Len(r)
  BY <1>2, <1>3
<1>6. \A i \in 1..Len(s) : s[i].op \notin FirstOps
  BY <1>1, <1>2, <1>5 DEF Shape
<1>7. s # <<>> => Len(s) \in 1..Len(s) /\ 1 \in 1..Len(s) /\ s[Len(s)] = r[Len(r)]
  BY <1>2, <1>3, <1>4
<1>8. a = reaper => s # <<>> /\ s[Len(s)].t = r[Len(r)].t
  <2> SUFFICES ASSUME a = reaper PROVE Len(r) # 1
    BY <1>2, <1>3, <1>4, <1>7
  <2>1. r[Len(r)].op = "reaped"
    BY <1>1 DEF Shape
  <2> QED BY <2>1 DEF Poppable, r
<1>9. s # <<>> => Shape(a, s)
  <2> SUFFICES ASSUME s # <<>> PROVE Shape(a, s)
    OBVIOUS
  <2>1. /\ a \in Task => tstate[a] = "ALIVE"
        /\ a = reaper => s[Len(s)].op = "reaped"
    BY <1>1, <1>7 DEF Shape
  <2>2. \A i \in 1..Len(s) : /\ s[i].op \in FirstOps => i = 1
                             /\ s[i].op \in LastOps => i = Len(s)
    <3> SUFFICES ASSUME NEW i \in 1..Len(s), s[i].op \in LastOps PROVE i = Len(s)
      BY <1>6
    <3>1. r[i + 1].op \in LastOps /\ i + 1 \in 1..Len(r)
      BY <1>5
    <3>2. i + 1 = Len(r)
      BY <1>1, <3>1 DEF Shape
    <3> QED BY <1>2, <1>3, <3>2
  <2>3. s[1].op \notin FirstOps
    BY <1>6, <1>7
  <2>4. s[Len(s)].op = "publish" => tproc[s[Len(s)].t] = s[Len(s)].p
    <3>1. r[1].op \notin {"bind", "attach"}
      BY DEF Poppable, r
    <3> QED BY <1>1, <1>7, <3>1 DEF Shape
  <2> QED BY <2>1, <2>2, <2>3, <2>4 DEF Shape, FirstOps
<1>10. ListOK(a, s) /\ Inherits(a, s)
  <2>1. ListOK(a, s)
    BY <1>1, <1>5 DEF ListOK
  <2>2. Inherits(a, s)
    BY <1>5 DEF Inherits, r
  <2> QED BY <2>1, <2>2
<1> QED BY <1>3, <1>5, <1>8, <1>9, <1>10 DEF s, r, Popped

\* An empty list, and what comes before one.
LEMMA NoFrames ==
    ASSUME NEW s \in Seq(Frame)
    PROVE  (Len(s) = 0 => s = <<>>) /\ s \o <<>> = s
OBVIOUS

\* What is known where a caller is about to take a step.
LEMMA HeadFacts ==
    ASSUME PInv, NEW a \in Actor, NEW op, At(a, op)
    PROVE  /\ todo[a] # <<>> /\ todo[a] \in Seq(Frame) /\ todo[a][1].op = op
           /\ P(a) = todo[a][1].p /\ P(a) \in Pid /\ T(a) = todo[a][1].t
           /\ todo[a][1] \in Frame /\ FrameOK(a, todo[a][1]) /\ Shape(a, todo[a])
           /\ 1 \in 1..Len(todo[a]) /\ panic = "none"
           /\ op \in LastOps => /\ Len(todo[a]) = 1 /\ todo[a] = <<todo[a][1]>>
                                /\ \A fs \in Seq(Frame) : fs \o Tail(todo[a]) = fs
<1>1. ListTypes /\ Shapes /\ FramesOK /\ todo[a] # <<>> /\ panic = "none"
  BY DEF PInv, At, Running
<1>2. /\ todo[a] \in Seq(Frame) /\ Len(todo[a]) \in Nat /\ Len(todo[a]) >= 1
      /\ todo[a][1] \in Frame /\ Head(todo[a]) = todo[a][1]
  BY <1>1, ListFacts
<1>3. todo[a][1].op = op /\ P(a) = todo[a][1].p /\ P(a) \in Pid /\ T(a) = todo[a][1].t
  BY <1>2 DEF At, P, T, Frame
<1>4. 1 \in 1..Len(todo[a])
  BY <1>2
<1>5. FrameOK(a, todo[a][1]) /\ Shape(a, todo[a])
  BY <1>1, <1>4 DEF FramesOK, ListOK, Shapes
<1>6. ASSUME op \in LastOps
      PROVE  /\ Len(todo[a]) = 1 /\ todo[a] = <<todo[a][1]>>
             /\ \A fs \in Seq(Frame) : fs \o Tail(todo[a]) = fs
  <2>1. Len(todo[a]) = 1
    BY <1>3, <1>4, <1>5, <1>6 DEF Shape
  <2>2. todo[a] = <<todo[a][1]>>
    BY <1>2, <2>1
  <2>3. Tail(todo[a]) = <<>>
    <3>1. Tail(todo[a]) \in Seq(Frame) /\ Len(Tail(todo[a])) = 0
      BY <1>1, <1>2, <2>1
    <3> QED BY <3>1, NoFrames
  <2> QED BY <2>1, <2>2, <2>3, NoFrames
<1> QED BY <1>1, <1>2, <1>3, <1>4, <1>5, <1>6

\* Frames made by F and FT, and how they count.
LEMMA FrameFacts ==
    ASSUME NEW q \in Pid
    PROVE  /\ \A op \in {"load", "create", "context", "acquire", "retain", "add", "release",
                         "space", "free", "task", "exit", "detach"} :
                 F(op, q) \in Frame /\ F(op, q).op = op /\ F(op, q).p = q
           /\ \A op \in {"bind", "attach", "publish", "reaped"} : \A t \in Task :
                 FT(op, q, t) \in Frame /\ FT(op, q, t).op = op /\ FT(op, q, t).p = q
                 /\ FT(op, q, t).t = t
BY DEF F, FT, Frame

\* The numbers of links, threads and spaces.
LEMMA CountTypes ==
    ASSUME NEW p
    PROVE  /\ Links(p) \in Nat /\ Threads(p) \in Nat /\ Spaces(p) \in Nat
           /\ Links(p)' \in Nat /\ Threads(p)' \in Nat /\ Spaces(p)' \in Nat
<1>1. \A S : S \subseteq Pid \/ S \subseteq Task => Cardinality(S) \in Nat
  BY Finite, FS_Subset, FS_CardinalityType
<1> QED BY <1>1 DEF Links, Threads, Spaces

\* Counts that keep all their parts.
LEMMA SameCounts ==
    ASSUME CountsOK,
           UNCHANGED <<state, reference_count, live_threads, children, space_refs, tproc, tspace>>,
           \A p \in Pid \ {kernel_process} :
              /\ Carried(p, RefOps)' = Carried(p, RefOps)
              /\ Carried(p, SpaceOps)' = Carried(p, SpaceOps)
              /\ Carried(p, DetachOps)' = Carried(p, DetachOps)
              /\ Carried(p, FreeOps)' = Carried(p, FreeOps)
              /\ Carried(p, BuildOps)' = Carried(p, BuildOps)
    PROVE  CountsOK'
<1> SUFFICES ASSUME NEW p \in Pid \ {kernel_process} PROVE CountOK(p)'
  BY DEF CountsOK
<1>1. CountOK(p)
  BY DEF CountsOK
<1>2. Links(p)' = Links(p) /\ Threads(p)' = Threads(p) /\ Spaces(p)' = Spaces(p)
      /\ (Registered(p)' <=> Registered(p))
  BY DEF Links, Threads, Spaces, Registered
<1> QED BY <1>1, <1>2 DEF CountOK

\* Processes of which nothing changes.
LEMMA SameProcesses ==
    ASSUME ProcessesOK,
           UNCHANGED <<state, reference_count, children, next_process_id, live_processes>>
    PROVE  ProcessesOK'
BY DEF ProcessesOK, Registered

-----------------------------------------------------------------------------
(* Each operation keeps the invariant.                                     *)

\* A step that only replaces the list of its caller, by one that carries as much.
OpSets == {RefOps, SpaceOps, DetachOps, FreeOps, BuildOps}
LEMMA PlainStep ==
    ASSUME PInv, NEW a \in Actor, NEW s \in Seq(Frame), todo' = [todo EXCEPT ![a] = s],
           UNCHANGED <<state, reference_count, live_threads, parent_id, children,
                       regVars, spaceVars, taskVars, panic>>,
           exit_status' \in [Pid -> Status],
           \A p, ops : ops \in OpSets => Num(s, {p}, ops) = Num(todo[a], {p}, ops),
           Len(s) + Num(s, Pid, {"release"}) <= 8,
           s # <<>> => Shape(a, s), ListOK(a, s), Inherits(a, s),
           a = reaper => /\ s # <<>> /\ todo[a] # <<>>
                         /\ s[Len(s)].t = todo[a][Len(todo[a])].t
    PROVE  PInv'
<1>1. VarTypes /\ ListTypes /\ CountsOK /\ ProcessesOK /\ NoBadPanic
  BY DEF PInv
<1>2. ListTypes'
  BY <1>1, ListStep
<1>3. \A p, ops : ops \in OpSets => Carried(p, ops)' = Carried(p, ops)
  <2> TAKE p, ops
  <2> HAVE ops \in OpSets
  <2>1. Changed(Carried(p, ops), Carried(p, ops)', Num(s, {p}, ops), Num(todo[a], {p}, ops))
    BY <1>1, CarriedStep
  <2>2. Num(s, {p}, ops) = Num(todo[a], {p}, ops) /\ Num(s, {p}, ops) \in Nat
    BY NumType
  <2> QED BY <2>1, <2>2 DEF Changed
<1>4. CountsOK'
  <2>1. RefOps \in OpSets /\ SpaceOps \in OpSets /\ DetachOps \in OpSets /\ FreeOps \in OpSets
        /\ BuildOps \in OpSets
    BY DEF OpSets
  <2> QED BY <1>1, <1>3, <2>1, SameCounts DEF spaceVars, taskVars
<1>5. ProcessesOK'
  BY <1>1, SameProcesses DEF regVars
<1>6. Shapes' /\ FramesOK' /\ PublishOnce' /\ TasksOK'
  BY QuietStep DEF regVars, taskVars
<1>7. VarTypes' /\ NoBadPanic'
  BY <1>1 DEF VarTypes, NoBadPanic, regVars, spaceVars, taskVars
<1> QED BY <1>2, <1>4, <1>5, <1>6, <1>7 DEF PInv

\* Frames that carry nothing.
LEMMA PlainFrames ==
    ASSUME NEW f \in Frame, f.op \in {"load", "create", "context", "exit", "publish", "reaped"}
    PROVE  \A ps, ops : ops \in OpSets \cup {{"release"}} =>
              /\ One(f, ps, ops) = 0 /\ Num(<<f>>, ps, ops) = 0 /\ Num(<<>>, ps, ops) = 0
<1> TAKE ps, ops
<1> HAVE ops \in OpSets \cup {{"release"}}
<1>1. f.op \notin ops
  BY DEF OpSets, RefOps, SpaceOps, BuildOps, DetachOps, FreeOps
<1>2. One(f, ps, ops) = 0
  BY <1>1 DEF One
<1>3. Num(<<f>>, ps, ops) = One(f, ps, ops) /\ Num(<<>>, ps, ops) = 0
  BY Num0, Num1
<1> QED BY <1>2, <1>3

\* A list of one such frame, or an empty one.
LEMMA PlainList ==
    ASSUME PInv, NEW a \in Actor, a # reaper, NEW s \in Seq(Frame),
           todo' = [todo EXCEPT ![a] = s],
           UNCHANGED <<state, reference_count, live_threads, parent_id, children,
                       regVars, spaceVars, taskVars, panic>>,
           exit_status' \in [Pid -> Status],
           \/ todo[a] = <<>> /\ (a \in Task => tstate[a] = "ALIVE")
           \/ \E f \in Frame : todo[a] = <<f>> /\ f.op \in {"load", "context"},
           \/ s = <<>>
           \/ \E f \in Frame : /\ s = <<f>> /\ f.op \in {"load", "create", "exit"}
                               /\ FrameOK(a, f)
    PROVE  PInv'
<1>1. a \in Task /\ s # <<>> => tstate[a] = "ALIVE"
  BY DEF PInv, Shapes, Shape
<1>2. \A ps, ops : ops \in OpSets \cup {{"release"}} => Num(s, ps, ops) = 0
  <2>1. CASE s = <<>>
    BY <2>1, Num0
  <2>2. CASE s # <<>>
    <3>1. PICK f \in Frame : s = <<f>> /\ f.op \in {"load", "create", "exit"}
      BY <2>2
    <3>2. \A ps, ops : ops \in OpSets \cup {{"release"}} => Num(<<f>>, ps, ops) = 0
      BY <3>1, PlainFrames
    <3> QED BY <3>1, <3>2
  <2> QED BY <2>1, <2>2
<1>3. \A ps, ops : ops \in OpSets \cup {{"release"}} => Num(todo[a], ps, ops) = 0
  <2>1. CASE todo[a] = <<>>
    BY <2>1, Num0
  <2>2. CASE \E f \in Frame : todo[a] = <<f>> /\ f.op \in {"load", "context"}
    <3>1. PICK f \in Frame : todo[a] = <<f>> /\ f.op \in {"load", "context"}
      BY <2>2
    <3>2. \A ps, ops : ops \in OpSets \cup {{"release"}} => Num(<<f>>, ps, ops) = 0
      BY <3>1, PlainFrames
    <3> QED BY <3>1, <3>2
  <2> QED BY <2>1, <2>2
<1>4. Len(s) + Num(s, Pid, {"release"}) <= 8
  <2>1. Num(s, Pid, {"release"}) = 0
    BY <1>2
  <2>2. PICK n \in Nat : n = Len(s) /\ n <= 1
    <3>1. CASE s = <<>>
      <4>1. Len(s) = 0
        BY <3>1
      <4> QED BY <4>1
    <3>2. CASE s # <<>>
      <4>1. Len(s) = 1
        BY <3>2
      <4> QED BY <4>1
    <3> QED BY <3>1, <3>2
  <2>3. n + 0 <= 8
    BY <2>2
  <2> QED BY <2>1, <2>2, <2>3
<1>5. (s # <<>> => Shape(a, s)) /\ ListOK(a, s) /\ Inherits(a, s)
  <2>1. CASE s = <<>>
    BY <2>1 DEF ListOK, Inherits
  <2>2. CASE s # <<>>
    <3>1. PICK f \in Frame : s = <<f>> /\ f.op \in {"load", "create", "exit"} /\ FrameOK(a, f)
      BY <2>2
    <3>2. Len(s) = 1 /\ s[1] = f
      BY <3>1
    <3>3. Shape(a, s)
      BY <1>1, <2>2, <3>1, <3>2 DEF Shape, LastOps, FirstOps
    <3> QED BY <3>1, <3>2, <3>3 DEF ListOK, Inherits
  <2> QED BY <2>1, <2>2
<1>6. \A p, ops : ops \in OpSets => Num(s, {p}, ops) = Num(todo[a], {p}, ops)
  BY <1>2, <1>3
<1> QED BY <1>4, <1>5, <1>6, PlainStep

\* process_spawn_user, the stages of loading, the freeing of the context.
LEMMA SpawnUserInv ==
    ASSUME PInv, NEW a \in Actor, process_spawn_user(a) PROVE PInv'
<1>1. /\ VarTypes /\ 1 < next_process_id /\ kernel_process \in Pid
  <2>1. VarTypes /\ next_process_id \in 2..(MaxPid + 1)
    BY DEF PInv, VarTypes
  <2>2. MaxPid \in Nat /\ MaxPid # 0
    BY ProcessAssumption
  <2> QED BY <2>1, <2>2 DEF Pid, kernel_process
<1>2. /\ a # reaper /\ todo[a] = <<>> /\ (a \in Task => tstate[a] = "ALIVE")
      /\ todo' = [todo EXCEPT ![a] = <<F("load", kernel_process)>>]
      /\ UNCHANGED <<procVars, regVars, spaceVars, taskVars, held, panic>>
  BY ProcessAssumption DEF process_spawn_user, Ready
<1>3. F("load", kernel_process) \in Frame /\ F("load", kernel_process).op = "load"
  BY <1>1, FrameFacts
<1>4. FrameOK(a, F("load", kernel_process))
  BY <1>1 DEF FrameOK, F, kernel_process
<1> DEFINE s == <<F("load", kernel_process)>>
<1>5. s \in Seq(Frame)
  BY <1>3
<1>6. \E f \in Frame : s = <<f>> /\ f.op \in {"load", "create", "exit"} /\ FrameOK(a, f)
  BY <1>3, <1>4
<1> HIDE DEF s
<1>7. todo' = [todo EXCEPT ![a] = s]
  BY <1>2 DEF s
<1>8. exit_status' \in [Pid -> Status]
  BY <1>1, <1>2 DEF VarTypes, procVars
<1> QED BY <1>2, <1>5, <1>6, <1>7, <1>8, PlainList DEF procVars

\* The stages of spawn before there is a process.
LEMMA LoadInv ==
    ASSUME PInv, NEW a \in Actor, spawn_load(a) PROVE PInv'
<1>1. At(a, "load") /\ UNCHANGED <<procVars, regVars, spaceVars, taskVars, panic>>
  BY DEF spawn_load
<1>2. /\ VarTypes /\ kernel_process \in Pid /\ 1 < next_process_id
  <2>1. VarTypes /\ next_process_id \in 2..(MaxPid + 1)
    BY DEF PInv, VarTypes
  <2>2. MaxPid \in Nat /\ MaxPid # 0
    BY ProcessAssumption
  <2> QED BY <2>1, <2>2 DEF Pid, kernel_process
<1>3. /\ todo[a] = <<todo[a][1]>> /\ todo[a][1] \in Frame /\ todo[a][1].op = "load"
      /\ \A fs \in Seq(Frame) : fs \o Tail(todo[a]) = fs
      /\ Shape(a, todo[a]) /\ Len(todo[a]) = 1
  BY <1>1, HeadFacts DEF LastOps
<1>4. a # reaper
  BY <1>3 DEF Shape
<1>5. /\ F("create", kernel_process) \in Frame /\ F("create", kernel_process).op = "create"
      /\ FrameOK(a, F("create", kernel_process))
  BY <1>2, FrameFacts DEF FrameOK, F, kernel_process
<1>6. PICK s \in Seq(Frame) :
         /\ todo' = [todo EXCEPT ![a] = s]
         /\ \/ s = <<>>
            \/ \E f \in Frame : s = <<f>> /\ f.op \in {"load", "create", "exit"} /\ FrameOK(a, f)
  <2> DEFINE c == <<F("create", kernel_process)>>
  <2>1. c \in Seq(Frame) /\ <<>> \in Seq(Frame)
    BY <1>5
  <2>2. todo' = [todo EXCEPT ![a] = c] \/ todo' = [todo EXCEPT ![a] = <<>>]
    BY <1>3, <2>1 DEF spawn_load, Then
  <2>3. \E f \in Frame : c = <<f>> /\ f.op \in {"load", "create", "exit"} /\ FrameOK(a, f)
    BY <1>5
  <2> HIDE DEF c
  <2> QED BY <2>1, <2>2, <2>3
<1>7. exit_status' \in [Pid -> Status]
  BY <1>1, <1>2 DEF VarTypes, procVars
<1>8. \E f \in Frame : todo[a] = <<f>> /\ f.op \in {"load", "context"}
  BY <1>3
<1> QED BY <1>1, <1>4, <1>6, <1>7, <1>8, PlainList DEF procVars

\* Spawn frees the context it had made.
LEMMA ContextInv ==
    ASSUME PInv, NEW a \in Actor, free_context(a) PROVE PInv'
<1>1. At(a, "context") /\ UNCHANGED <<procVars, regVars, spaceVars, taskVars, panic>>
  BY DEF free_context
<1>2. VarTypes
  BY DEF PInv
<1>3. /\ todo[a] = <<todo[a][1]>> /\ todo[a][1] \in Frame /\ todo[a][1].op = "context"
      /\ \A fs \in Seq(Frame) : fs \o Tail(todo[a]) = fs
      /\ Shape(a, todo[a]) /\ Len(todo[a]) = 1
  BY <1>1, HeadFacts DEF LastOps
<1>4. a # reaper
  BY <1>3 DEF Shape
<1>5. <<>> \in Seq(Frame) /\ todo' = [todo EXCEPT ![a] = <<>>]
  <2>1. <<>> \in Seq(Frame)
    OBVIOUS
  <2> QED BY <1>3, <2>1 DEF free_context, Then
<1>6. exit_status' \in [Pid -> Status]
  BY <1>1, <1>2 DEF VarTypes, procVars
<1>7. \E f \in Frame : todo[a] = <<f>> /\ f.op \in {"load", "context"}
  BY <1>3
<1> QED BY <1>1, <1>4, <1>5, <1>6, <1>7, PlainList DEF procVars

\* A thread stores its exit status and is about to exit.
LEMMA ExitStatusInv ==
    ASSUME PInv, NEW a \in Task, NEW c \in Status, process_set_exit_status(a, c) PROVE PInv'
<1> DEFINE f == F("exit", tproc[a])
<1>1. /\ VarTypes /\ TasksOK /\ todo[a] = <<>> /\ tstate[a] = "ALIVE"
      /\ exit_status' = [exit_status EXCEPT ![tproc[a]] = c]
      /\ todo' = [todo EXCEPT ![a] = <<f>>]
      /\ UNCHANGED <<state, reference_count, live_threads, parent_id, children,
                     regVars, spaceVars, taskVars, panic>>
  BY DEF PInv, process_set_exit_status, Ready
<1>2. a \in Actor /\ a # reaper
  BY ProcessAssumption DEF Actor
<1>3. tproc[a] \in 2..(next_process_id - 1) /\ tproc[a] \in Pid /\ tproc[a] < next_process_id
      /\ tproc[a] # kernel_process
  <2>1. tproc[a] \in 2..(next_process_id - 1) /\ tproc[a] \in 0..MaxPid
        /\ next_process_id \in 2..(MaxPid + 1)
    BY <1>1 DEF TasksOK, TaskOK, Being, VarTypes
  <2> QED BY <2>1, ProcessAssumption DEF Pid, kernel_process
<1>4. f \in Frame /\ f.op = "exit" /\ FrameOK(a, f)
  BY <1>3, FrameFacts DEF FrameOK, F
<1>5. exit_status' \in [Pid -> Status]
  BY <1>1, <1>3 DEF VarTypes
<1> HIDE DEF f
<1> DEFINE s == <<f>>
<1>6. s \in Seq(Frame)
  BY <1>4
<1>7. \E g \in Frame : s = <<g>> /\ g.op \in {"load", "create", "exit"} /\ FrameOK(a, g)
  BY <1>4
<1>8. todo' = [todo EXCEPT ![a] = s]
  BY <1>1
<1> HIDE DEF s
<1> QED BY <1>1, <1>2, <1>5, <1>6, <1>7, <1>8, PlainList

\* Which frames carry what.
LEMMA OpTable ==
    /\ "load" \notin RefOps /\ "create" \notin RefOps /\ "context" \notin RefOps
    /\ "acquire" \in RefOps /\ "retain" \notin RefOps /\ "add" \in RefOps /\ "release" \in RefOps
    /\ "space" \notin RefOps /\ "free" \notin RefOps /\ "task" \in RefOps
    /\ "bind" \notin RefOps /\ "attach" \in RefOps /\ "publish" \notin RefOps
    /\ "exit" \notin RefOps /\ "detach" \notin RefOps /\ "reaped" \notin RefOps
    /\ "load" \notin SpaceOps /\ "create" \notin SpaceOps /\ "context" \notin SpaceOps
    /\ "acquire" \in SpaceOps /\ "retain" \notin SpaceOps /\ "add" \notin SpaceOps
    /\ "release" \notin SpaceOps /\ "space" \in SpaceOps /\ "free" \notin SpaceOps
    /\ "task" \in SpaceOps /\ "bind" \notin SpaceOps /\ "attach" \notin SpaceOps
    /\ "publish" \notin SpaceOps /\ "exit" \notin SpaceOps /\ "detach" \notin SpaceOps
    /\ "reaped" \notin SpaceOps
    /\ "load" \notin BuildOps /\ "create" \notin BuildOps /\ "context" \notin BuildOps
    /\ "acquire" \in BuildOps /\ "retain" \notin BuildOps /\ "add" \notin BuildOps
    /\ "release" \notin BuildOps /\ "space" \notin BuildOps /\ "free" \notin BuildOps
    /\ "task" \in BuildOps /\ "bind" \in BuildOps /\ "attach" \in BuildOps
    /\ "publish" \notin BuildOps /\ "exit" \notin BuildOps /\ "detach" \notin BuildOps
    /\ "reaped" \notin BuildOps
    /\ "load" \notin DetachOps /\ "create" \notin DetachOps /\ "context" \notin DetachOps
    /\ "acquire" \notin DetachOps /\ "retain" \notin DetachOps /\ "add" \notin DetachOps
    /\ "release" \notin DetachOps /\ "space" \notin DetachOps /\ "free" \notin DetachOps
    /\ "task" \notin DetachOps /\ "bind" \notin DetachOps /\ "attach" \notin DetachOps
    /\ "publish" \notin DetachOps /\ "exit" \notin DetachOps /\ "detach" \in DetachOps
    /\ "reaped" \notin DetachOps
    /\ "load" \notin FreeOps /\ "create" \notin FreeOps /\ "context" \notin FreeOps
    /\ "acquire" \notin FreeOps /\ "retain" \notin FreeOps /\ "add" \notin FreeOps
    /\ "release" \notin FreeOps /\ "space" \notin FreeOps /\ "free" \in FreeOps
    /\ "task" \notin FreeOps /\ "bind" \notin FreeOps /\ "attach" \notin FreeOps
    /\ "publish" \notin FreeOps /\ "exit" \notin FreeOps /\ "detach" \notin FreeOps
    /\ "reaped" \notin FreeOps
BY DEF RefOps, SpaceOps, BuildOps, DetachOps, FreeOps

\* How a frame counts.
LEMMA OneIs ==
    ASSUME NEW op, NEW q, NEW p, NEW ops
    PROVE  /\ One(F(op, q), {p}, ops) = IF q = p /\ op \in ops THEN 1 ELSE 0
           /\ \A t : One(FT(op, q, t), {p}, ops) = IF q = p /\ op \in ops THEN 1 ELSE 0
BY DEF One, F, FT

\* The first frame, likewise.
LEMMA HeadOne ==
    ASSUME NEW f, NEW p, NEW ops
    PROVE  One(f, {p}, ops) = IF f.p = p /\ f.op \in ops THEN 1 ELSE 0
BY DEF One

\* A list of one frame is replaced.
LEMMA LoneStep ==
    ASSUME ListTypes, NEW a \in Actor, NEW f \in Frame, todo[a] = <<f>>, NEW s \in Seq(Frame),
           todo' = [todo EXCEPT ![a] = s], NEW p, NEW ops
    PROVE  Changed(Carried(p, ops), Carried(p, ops)', Num(s, {p}, ops), One(f, {p}, ops))
<1>1. Changed(Carried(p, ops), Carried(p, ops)', Num(s, {p}, ops), Num(todo[a], {p}, ops))
  BY CarriedStep
<1>2. Num(todo[a], {p}, ops) = One(f, {p}, ops)
  BY Num1
<1> QED BY <1>1, <1>2

\* What spawn gives up: the list, its frames and what it carries.
LEMMA UndoFacts ==
    ASSUME NEW q \in Pid
    PROVE  /\ Undo(q) \in Seq(Frame) /\ Len(Undo(q)) = 3 /\ Undo(q)[1] = F("release", q)
           /\ Undo(q)[2] = F("space", q) /\ Undo(q)[3] = F("context", q)
           /\ \A p, ops : Num(Undo(q), {p}, ops) =
                 One(F("release", q), {p}, ops)
                 + (One(F("space", q), {p}, ops) + One(F("context", q), {p}, ops))
           /\ Num(Undo(q), Pid, {"release"}) = 1
<1>1. F("release", q) \in Frame /\ F("space", q) \in Frame /\ F("context", q) \in Frame
  BY FrameFacts
<1>2. \A ps, ops : Num(Undo(q), ps, ops) =
         One(F("release", q), ps, ops)
         + (One(F("space", q), ps, ops) + One(F("context", q), ps, ops))
  BY <1>1, Num3 DEF Undo
<1>3. /\ One(F("release", q), Pid, {"release"}) = 1 /\ One(F("space", q), Pid, {"release"}) = 0
      /\ One(F("context", q), Pid, {"release"}) = 0
  BY DEF One, F
<1>4. Num(Undo(q), Pid, {"release"}) = 1 + (0 + 0)
  BY <1>2, <1>3
<1>5. /\ Undo(q) \in Seq(Frame) /\ Len(Undo(q)) = 3 /\ Undo(q)[1] = F("release", q)
      /\ Undo(q)[2] = F("space", q) /\ Undo(q)[3] = F("context", q)
  BY <1>1 DEF Undo
<1> QED BY <1>2, <1>4, <1>5

\* The list Undo(q) is in order, for any caller but the reaper.
LEMMA UndoOK ==
    ASSUME NEW a \in Actor, a # reaper, a \in Task => tstate[a] = "ALIVE",
           NEW q \in Pid, q # kernel_process, q < next_process_id
    PROVE  Shape(a, Undo(q)) /\ ListOK(a, Undo(q)) /\ Inherits(a, Undo(q)) /\ Undo(q) # <<>>
<1>1. /\ Len(Undo(q)) = 3 /\ Undo(q)[1] = F("release", q)
      /\ Undo(q)[2] = F("space", q) /\ Undo(q)[3] = F("context", q)
  BY UndoFacts
<1>2. \A i \in 1..Len(Undo(q)) : i = 1 \/ i = 2 \/ i = 3
  BY <1>1
<1>3. Shape(a, Undo(q))
  BY <1>1, <1>2 DEF Shape, F, FirstOps, LastOps
<1>4. ListOK(a, Undo(q)) /\ Inherits(a, Undo(q))
  BY <1>1, <1>2 DEF ListOK, Inherits, FrameOK, F
<1> QED BY <1>1, <1>3, <1>4

\* process_acquire_by_id finds the parent or gives up.
LEMMA AcquireInv ==
    ASSUME PInv, NEW a \in Actor, process_acquire_by_id(a) PROVE PInv'
<1> DEFINE q == P(a)
           r == parent_id[q]
           f == todo[a][1]
<1>1. /\ At(a, "acquire")
      /\ UNCHANGED <<state, live_threads, parent_id, children, exit_status, regVars, held,
                     spaceVars, taskVars, panic>>
  BY DEF process_acquire_by_id
<1>2. VarTypes /\ ListTypes /\ CountsOK /\ ProcessesOK /\ NoBadPanic
  BY DEF PInv
<1>3. /\ todo[a] = <<f>> /\ f \in Frame /\ f.op = "acquire" /\ f.p = q /\ q \in Pid
      /\ FrameOK(a, f) /\ Shape(a, todo[a]) /\ Len(todo[a]) = 1 /\ todo[a] # <<>>
  BY <1>1, HeadFacts DEF LastOps
<1>4. a # reaper /\ (a \in Task => tstate[a] = "ALIVE")
  BY <1>3 DEF Shape
<1>5. /\ q # kernel_process /\ q < next_process_id /\ state[q] = "NEW"
      /\ r \in 1..(next_process_id - 1)
  BY <1>3 DEF FrameOK
<1>6. r \in Pid /\ r < next_process_id
  <2>1. next_process_id \in 2..(MaxPid + 1) /\ MaxPid \in Nat
    BY <1>2, ProcessAssumption DEF VarTypes
  <2> QED BY <1>5, <2>1 DEF Pid
<1>7. VarTypes' /\ NoBadPanic'
  <2>1. reference_count' \in [Pid -> Nat]
    BY <1>2, <1>6 DEF process_acquire_by_id, VarTypes
  <2> QED BY <1>1, <1>2, <2>1 DEF VarTypes, NoBadPanic, regVars, spaceVars, taskVars
<1> HIDE DEF q, r, f
<1>8. CASE ~Registered(r)
  <2> DEFINE s == Undo(q)
  <2>1. todo' = [todo EXCEPT ![a] = s] /\ reference_count' = reference_count
    BY <1>8 DEF process_acquire_by_id, Instead, q, r
  <2>2. /\ s \in Seq(Frame) /\ Len(s) = 3 /\ Num(s, Pid, {"release"}) = 1
        /\ \A p, ops : Num(s, {p}, ops) =
              One(F("release", q), {p}, ops)
              + (One(F("space", q), {p}, ops) + One(F("context", q), {p}, ops))
    BY <1>3, UndoFacts
  <2>3. Shape(a, s) /\ ListOK(a, s) /\ Inherits(a, s) /\ s # <<>>
    BY <1>3, <1>4, <1>5, UndoOK
  <2> HIDE DEF s
  <2>4. ListTypes'
    <3>1. Len(s) + Num(s, Pid, {"release"}) <= 8
      BY <2>2
    <3> QED BY <1>2, <2>1, <2>2, <3>1, ListStep
  <2>5. Shapes' /\ FramesOK' /\ PublishOnce' /\ TasksOK'
    BY <1>1, <1>4, <2>1, <2>2, <2>3, QuietStep DEF regVars, taskVars
  <2>6. ProcessesOK'
    BY <1>1, <1>2, <2>1, SameProcesses DEF regVars
  <2>7. CountsOK'
    <3> SUFFICES ASSUME NEW p \in Pid \ {kernel_process} PROVE CountOK(p)'
      BY DEF CountsOK
    <3>1. CountOK(p)
      BY <1>2 DEF CountsOK
    <3>2. \A ops : Changed(Carried(p, ops), Carried(p, ops)', Num(s, {p}, ops), One(f, {p}, ops))
      BY <1>2, <1>3, <2>1, <2>2, LoneStep
    <3>3. \A ops : One(f, {p}, ops) = IF q = p /\ "acquire" \in ops THEN 1 ELSE 0
      BY <1>3, HeadOne
    <3>4. \A ops : Num(s, {p}, ops) = (IF q = p /\ "release" \in ops THEN 1 ELSE 0)
              + ((IF q = p /\ "space" \in ops THEN 1 ELSE 0)
                 + (IF q = p /\ "context" \in ops THEN 1 ELSE 0))
      BY <2>2 DEF One, F
    <3>5. /\ Carried(p, RefOps)' = Carried(p, RefOps)
          /\ Carried(p, SpaceOps)' = Carried(p, SpaceOps)
          /\ Carried(p, DetachOps)' = Carried(p, DetachOps)
          /\ Carried(p, FreeOps)' = Carried(p, FreeOps)
          /\ Carried(p, BuildOps)' <= Carried(p, BuildOps)
          /\ Carried(p, BuildOps)' \in Nat /\ Carried(p, BuildOps) \in Nat
      <4>1. /\ Changed(Carried(p, RefOps), Carried(p, RefOps)', Num(s, {p}, RefOps), One(f, {p}, RefOps))
            /\ Changed(Carried(p, SpaceOps), Carried(p, SpaceOps)', Num(s, {p}, SpaceOps), One(f, {p}, SpaceOps))
            /\ Changed(Carried(p, DetachOps), Carried(p, DetachOps)', Num(s, {p}, DetachOps), One(f, {p}, DetachOps))
            /\ Changed(Carried(p, FreeOps), Carried(p, FreeOps)', Num(s, {p}, FreeOps), One(f, {p}, FreeOps))
            /\ Changed(Carried(p, BuildOps), Carried(p, BuildOps)', Num(s, {p}, BuildOps), One(f, {p}, BuildOps))
        BY <3>2
      <4>2. /\ Num(s, {p}, RefOps) = (IF q = p THEN 1 ELSE 0) + (0 + 0) /\ One(f, {p}, RefOps) = (IF q = p THEN 1 ELSE 0)
            /\ Num(s, {p}, SpaceOps) = 0 + ((IF q = p THEN 1 ELSE 0) + 0) /\ One(f, {p}, SpaceOps) = (IF q = p THEN 1 ELSE 0)
            /\ Num(s, {p}, DetachOps) = 0 + (0 + 0) /\ One(f, {p}, DetachOps) = 0
            /\ Num(s, {p}, FreeOps) = 0 + (0 + 0) /\ One(f, {p}, FreeOps) = 0
            /\ Num(s, {p}, BuildOps) = 0 + (0 + 0) /\ One(f, {p}, BuildOps) = (IF q = p THEN 1 ELSE 0)
        BY <3>3, <3>4, OpTable
      <4> QED BY <4>1, <4>2 DEF Changed
    <3>6. Links(p)' = Links(p) /\ Threads(p)' = Threads(p) /\ Spaces(p)' = Spaces(p)
          /\ (Registered(p)' <=> Registered(p))
      BY <1>1 DEF Links, Threads, Spaces, Registered, taskVars
    <3>7. UNCHANGED <<state, reference_count, live_threads, space_refs>>
      BY <1>1, <2>1 DEF spaceVars
    <3> QED BY <3>1, <3>5, <3>6, <3>7 DEF CountOK
  <2> QED BY <1>7, <2>4, <2>5, <2>6, <2>7 DEF PInv
<1>9. CASE Registered(r)
  <2> DEFINE s == <<F("retain", q), F("release", r), F("task", q)>>
  <2>1. /\ todo' = [todo EXCEPT ![a] = s]
        /\ reference_count' = IF r = kernel_process THEN reference_count
                              ELSE [reference_count EXCEPT ![r] = @ + 1]
    BY <1>9 DEF process_acquire_by_id, Instead, q, r
  <2>2. F("retain", q) \in Frame /\ F("release", r) \in Frame /\ F("task", q) \in Frame
    BY <1>3, <1>6, FrameFacts
  <2>3. /\ s \in Seq(Frame) /\ s # <<>> /\ Len(s) = 3 /\ s[1] = F("retain", q)
        /\ s[2] = F("release", r) /\ s[3] = F("task", q)
    BY <2>2
  <2>4. \A ps, ops : Num(s, ps, ops) =
           One(F("retain", q), ps, ops) + (One(F("release", r), ps, ops) + One(F("task", q), ps, ops))
    BY <2>2, Num3
  <2> HIDE DEF s
  <2>5. \A i \in 1..Len(s) : i = 1 \/ i = 2 \/ i = 3
    BY <2>3
  <2>6. Shape(a, s)
    <3>1. F("retain", q).p = q /\ r = parent_id[q]
      BY DEF F, r
    <3> QED BY <1>4, <2>3, <2>5, <3>1 DEF Shape, F, FirstOps, LastOps
  <2>7. ListOK(a, s)
    <3>1. FrameOK(a, F("retain", q)) /\ FrameOK(a, F("task", q)) /\ FrameOK(a, F("release", r))
      BY <1>5, <1>6 DEF FrameOK, F, r
    <3> QED BY <2>3, <2>5, <3>1 DEF ListOK
  <2>8. Inherits(a, s)
    BY <2>3, <2>5 DEF Inherits, F
  <2>9. ListTypes'
    <3>1. /\ One(F("retain", q), Pid, {"release"}) = 0 /\ One(F("task", q), Pid, {"release"}) = 0
          /\ One(F("release", r), Pid, {"release"}) = 1
      BY <1>6 DEF One, F
    <3>2. Num(s, Pid, {"release"}) = 0 + (1 + 0)
      BY <2>4, <3>1
    <3>3. Len(s) + Num(s, Pid, {"release"}) <= 8
      BY <2>3, <3>2
    <3> QED BY <1>2, <2>1, <2>3, <3>3, ListStep
  <2>10. Shapes' /\ FramesOK' /\ PublishOnce' /\ TasksOK'
    BY <1>1, <1>4, <2>1, <2>3, <2>6, <2>7, <2>8, QuietStep DEF regVars, taskVars
  <2>11. ProcessesOK'
    <3>1. \A p \in Pid \ {kernel_process} : reference_count'[p] > 0 <=> Registered(p)
      <4> TAKE p \in Pid \ {kernel_process}
      <4>1. reference_count[p] > 0 <=> Registered(p)
        BY <1>2 DEF ProcessesOK
      <4>2. reference_count[p] \in Nat /\ reference_count \in [Pid -> Nat]
        BY <1>2 DEF VarTypes
      <4>3. CASE p = r
        <5>1. reference_count'[p] = reference_count[p] + 1
          BY <2>1, <4>2, <4>3
        <5> QED BY <1>9, <4>2, <4>3, <5>1
      <4>4. CASE p # r
        BY <2>1, <4>1, <4>2, <4>4
      <4> QED BY <4>3, <4>4
    <3> QED BY <1>1, <1>2, <3>1 DEF ProcessesOK, Registered, regVars
  <2>12. CountsOK'
    <3> SUFFICES ASSUME NEW p \in Pid \ {kernel_process} PROVE CountOK(p)'
      BY DEF CountsOK
    <3>1. CountOK(p)
      BY <1>2 DEF CountsOK
    <3>2. \A ops : Changed(Carried(p, ops), Carried(p, ops)', Num(s, {p}, ops), One(f, {p}, ops))
      BY <1>2, <1>3, <2>1, <2>3, LoneStep
    <3>3. \A ops : One(f, {p}, ops) = IF q = p /\ "acquire" \in ops THEN 1 ELSE 0
      BY <1>3, HeadOne
    <3>4. \A ops : Num(s, {p}, ops) = (IF q = p /\ "retain" \in ops THEN 1 ELSE 0)
              + ((IF r = p /\ "release" \in ops THEN 1 ELSE 0)
                 + (IF q = p /\ "task" \in ops THEN 1 ELSE 0))
      BY <2>4 DEF One, F
    <3>5. /\ Carried(p, RefOps)' = Carried(p, RefOps) + (IF r = p THEN 1 ELSE 0)
          /\ Carried(p, RefOps) \in Nat
          /\ Carried(p, SpaceOps)' = Carried(p, SpaceOps)
          /\ Carried(p, DetachOps)' = Carried(p, DetachOps)
          /\ Carried(p, FreeOps)' = Carried(p, FreeOps)
          /\ Carried(p, BuildOps)' = Carried(p, BuildOps)
      <4>1. /\ Changed(Carried(p, RefOps), Carried(p, RefOps)', Num(s, {p}, RefOps), One(f, {p}, RefOps))
            /\ Changed(Carried(p, SpaceOps), Carried(p, SpaceOps)', Num(s, {p}, SpaceOps), One(f, {p}, SpaceOps))
            /\ Changed(Carried(p, DetachOps), Carried(p, DetachOps)', Num(s, {p}, DetachOps), One(f, {p}, DetachOps))
            /\ Changed(Carried(p, FreeOps), Carried(p, FreeOps)', Num(s, {p}, FreeOps), One(f, {p}, FreeOps))
            /\ Changed(Carried(p, BuildOps), Carried(p, BuildOps)', Num(s, {p}, BuildOps), One(f, {p}, BuildOps))
        BY <3>2
      <4>2. /\ Num(s, {p}, RefOps) = 0 + ((IF r = p THEN 1 ELSE 0) + (IF q = p THEN 1 ELSE 0)) /\ One(f, {p}, RefOps) = (IF q = p THEN 1 ELSE 0)
            /\ Num(s, {p}, SpaceOps) = 0 + (0 + (IF q = p THEN 1 ELSE 0)) /\ One(f, {p}, SpaceOps) = (IF q = p THEN 1 ELSE 0)
            /\ Num(s, {p}, DetachOps) = 0 + (0 + 0) /\ One(f, {p}, DetachOps) = 0
            /\ Num(s, {p}, FreeOps) = 0 + (0 + 0) /\ One(f, {p}, FreeOps) = 0
            /\ Num(s, {p}, BuildOps) = 0 + (0 + (IF q = p THEN 1 ELSE 0)) /\ One(f, {p}, BuildOps) = (IF q = p THEN 1 ELSE 0)
        BY <3>3, <3>4, OpTable
      <4> QED BY <4>1, <4>2 DEF Changed
    <3>6. Links(p)' = Links(p) /\ Threads(p)' = Threads(p) /\ Spaces(p)' = Spaces(p)
          /\ (Registered(p)' <=> Registered(p))
      BY <1>1 DEF Links, Threads, Spaces, Registered, taskVars
    <3>7. UNCHANGED <<state, live_threads, space_refs>>
      BY <1>1 DEF spaceVars
    <3>8. reference_count'[p] = reference_count[p] + (IF r = p THEN 1 ELSE 0)
          /\ reference_count[p] \in Nat
      <4>1. reference_count \in [Pid -> Nat]
        BY <1>2 DEF VarTypes
      <4> QED BY <1>6, <2>1, <4>1
    <3>9. Links(p) \in Nat /\ Threads(p) \in Nat
      BY CountTypes
    <3>10. reference_count'[p] = Links(p)' + (Threads(p)' + Carried(p, RefOps)')
      BY <3>1, <3>5, <3>6, <3>8, <3>9 DEF CountOK
    <3> QED BY <3>1, <3>5, <3>6, <3>7, <3>10 DEF CountOK
  <2> QED BY <1>7, <2>9, <2>10, <2>11, <2>12 DEF PInv
<1> QED BY <1>8, <1>9

\* Lists put together.
LEMMA Joined4 ==
    ASSUME NEW e \in Frame, NEW f \in Frame, NEW g \in Frame, NEW h \in Frame
    PROVE  <<e>> \o <<f, g, h>> = <<e, f, g, h>>
<1> DEFINE x == <<e>> \o <<f, g, h>>
<1>1. x \in Seq(Frame) /\ Len(x) = 4 /\ x[1] = e /\ x[2] = f /\ x[3] = g /\ x[4] = h
  OBVIOUS
<1> HIDE DEF x
<1>2. x = <<e, f, g, h>>
  BY <1>1
<1> QED BY <1>2 DEF x

\* The same, for five frames.
LEMMA Joined5 ==
    ASSUME NEW e \in Frame, NEW f \in Frame, NEW g \in Frame, NEW h \in Frame, NEW k \in Frame
    PROVE  <<e, f>> \o <<g, h, k>> = <<e, f, g, h, k>>
<1> DEFINE x == <<e, f>> \o <<g, h, k>>
<1>1. x \in Seq(Frame) /\ Len(x) = 5 /\ x[1] = e /\ x[2] = f /\ x[3] = g /\ x[4] = h /\ x[5] = k
  OBVIOUS
<1> HIDE DEF x
<1>2. x = <<e, f, g, h, k>>
  BY <1>1
<1> QED BY <1>2 DEF x

\* What process_add_child gives up.
LEMMA UndoJoin ==
    ASSUME NEW q \in Pid, NEW r \in Pid
    PROVE  <<F("release", q), F("release", r)>> \o Undo(q) =
               <<F("release", q), F("release", r), F("release", q), F("space", q), F("context", q)>>
<1> DEFINE e == F("release", q)
           f == F("release", r)
           g == F("space", q)
           h == F("context", q)
<1>1. e \in Frame /\ f \in Frame /\ g \in Frame /\ h \in Frame
  BY FrameFacts
<1>2. Undo(q) = <<e, g, h>>
  BY DEF Undo
<1> HIDE DEF e, f, g, h
<1>3. <<e, f>> \o <<e, g, h>> = <<e, f, e, g, h>>
  BY <1>1, Joined5
<1>4. <<e, f>> \o Undo(q) = <<e, f, e, g, h>>
  BY <1>2, <1>3, Zenon
<1> QED BY <1>4, Zenon DEF e, f, g, h

\* A list of three frames, counted.
LEMMA ThreeNum ==
    ASSUME NEW s \in Seq(Frame), Len(s) = 3, NEW ps, NEW ops
    PROVE  Num(s, ps, ops) = One(s[1], ps, ops) + (One(s[2], ps, ops) + One(s[3], ps, ops))
BY DEF Num, Ind, One

\* A new link in the list of children of r.
LEMMA LinkStep ==
    ASSUME children \in [Pid -> SUBSET Pid], NEW q \in Pid, NEW r \in Pid, q \notin children[r],
           children' = [children EXCEPT ![r] = @ \cup {q}]
    PROVE  \A p \in Pid : Links(p)' = Links(p) + (IF q = p THEN 1 ELSE 0)
<1> TAKE p \in Pid
<1> DEFINE R == {x \in Pid : p \in children[x]}
           S == {x \in Pid : p \in children'[x]}
<1>1. IsFiniteSet(R) /\ R \ {r} = S \ {r}
  BY Finite, FS_Subset
<1>2. (q = p => r \in S /\ r \notin R) /\ (q # p => (r \in S <=> r \in R))
  OBVIOUS
<1>3. Links(p) = Cardinality(R) /\ Links(p)' = Cardinality(S)
  BY DEF Links
<1> HIDE DEF R, S
<1>4. /\ Cardinality(R) \in Nat /\ Cardinality(S) \in Nat
      /\ Cardinality(S) = (Cardinality(R) + (IF r \in S THEN 1 ELSE 0))
                          - (IF r \in R THEN 1 ELSE 0)
  BY <1>1, CardStep
<1> QED BY <1>2, <1>3, <1>4

\* A link that is taken out.
LEMMA UnlinkStep ==
    ASSUME children \in [Pid -> SUBSET Pid], NEW q \in Pid, NEW r \in Pid, q \in children[r],
           children' = [children EXCEPT ![r] = @ \ {q}]
    PROVE  \A p \in Pid : Links(p)' = Links(p) - (IF q = p THEN 1 ELSE 0)
<1> TAKE p \in Pid
<1> DEFINE R == {x \in Pid : p \in children[x]}
           S == {x \in Pid : p \in children'[x]}
<1>1. IsFiniteSet(R) /\ R \ {r} = S \ {r}
  BY Finite, FS_Subset
<1>2. (q = p => r \in R /\ r \notin S) /\ (q # p => (r \in S <=> r \in R))
  OBVIOUS
<1>3. Links(p) = Cardinality(R) /\ Links(p)' = Cardinality(S)
  BY DEF Links
<1> HIDE DEF R, S
<1>4. /\ Cardinality(R) \in Nat /\ Cardinality(S) \in Nat
      /\ Cardinality(S) = (Cardinality(R) + (IF r \in S THEN 1 ELSE 0))
                          - (IF r \in R THEN 1 ELSE 0)
  BY <1>1, CardStep
<1> QED BY <1>2, <1>3, <1>4

\* A process that a task runs in has a thread and a reference, and is running.
LEMMA ThreadRuns ==
    ASSUME PInv, NEW t \in Task, NEW p \in Pid \ {kernel_process}, tproc[t] = p
    PROVE  /\ Threads(p) >= 1 /\ live_threads[p] >= 1 /\ state[p] = "RUNNING"
           /\ Registered(p) /\ reference_count[p] >= 1
<1> DEFINE S == {x \in Task : tproc[x] = p}
<1>1. IsFiniteSet(S) /\ t \in S
  BY Finite, FS_Subset
<1>2. Threads(p) = Cardinality(S)
  BY DEF Threads
<1> HIDE DEF S
<1>3. Cardinality(S) # 0 /\ Cardinality(S) \in Nat
  BY <1>1, FS_EmptySet, FS_CardinalityType
<1>4. Threads(p) >= 1 /\ Threads(p) \in Nat
  BY <1>2, <1>3
<1>5. CountOK(p) /\ live_threads[p] \in Nat /\ reference_count[p] \in Nat
  BY DEF PInv, CountsOK, VarTypes
<1>6. Carried(p, DetachOps) \in Nat /\ Carried(p, RefOps) \in Nat /\ Links(p) \in Nat
  BY CarriedType, CountTypes
<1>7. live_threads[p] >= 1 /\ reference_count[p] >= 1
  BY <1>4, <1>5, <1>6 DEF CountOK
<1>8. state[p] = "RUNNING"
  BY <1>5, <1>7 DEF CountOK
<1> QED BY <1>4, <1>7, <1>8 DEF Registered

\* One more reference to a process that is there.
LEMMA RetainProcesses ==
    ASSUME ProcessesOK, VarTypes, NEW q \in Pid, Registered(q),
           reference_count' = [reference_count EXCEPT ![q] = @ + 1],
           UNCHANGED <<state, children, next_process_id, live_processes>>
    PROVE  /\ ProcessesOK' /\ reference_count' \in [Pid -> Nat]
           /\ \A p \in Pid : /\ reference_count'[p] = reference_count[p] + (IF q = p THEN 1 ELSE 0)
                             /\ reference_count[p] \in Nat
<1>1. reference_count \in [Pid -> Nat]
  BY DEF VarTypes
<1>2. \A p \in Pid : /\ reference_count'[p] = reference_count[p] + (IF q = p THEN 1 ELSE 0)
                     /\ reference_count[p] \in Nat
  BY <1>1
<1>3. reference_count' \in [Pid -> Nat]
  BY <1>1
<1>4. \A p \in Pid \ {kernel_process} : reference_count'[p] > 0 <=> Registered(p)
  <2> TAKE p \in Pid \ {kernel_process}
  <2>1. reference_count[p] > 0 <=> Registered(p)
    BY DEF ProcessesOK
  <2>2. CASE p = q
    BY <1>2, <2>2
  <2>3. CASE p # q
    <3>1. reference_count'[p] = reference_count[p]
      BY <1>1, <2>3
    <3> QED BY <2>1, <3>1
  <2> QED BY <2>2, <2>3
<1>5. ProcessesOK'
  BY <1>4 DEF ProcessesOK, Registered
<1> QED BY <1>2, <1>3, <1>5

\* process_add_child retains the child, or has no memory for the link.
LEMMA RetainInv ==
    ASSUME PInv, NEW a \in Actor, process_retain_child(a) PROVE PInv'
<1> DEFINE q == P(a)
           r == parent_id[q]
           f == todo[a][1]
<1>1. /\ At(a, "retain")
      /\ UNCHANGED <<state, live_threads, parent_id, children, exit_status, regVars, held,
                     spaceVars, taskVars, panic>>
  BY DEF process_retain_child
<1>2. VarTypes /\ ListTypes /\ CountsOK /\ ProcessesOK /\ NoBadPanic
  BY DEF PInv
<1>3. /\ f \in Frame /\ f.op = "retain" /\ f.p = q /\ q \in Pid /\ todo[a] \in Seq(Frame)
      /\ FrameOK(a, f) /\ Shape(a, todo[a]) /\ todo[a] # <<>>
  BY <1>1, HeadFacts
<1>4. /\ Len(todo[a]) = 3 /\ todo[a][2] = F("release", r) /\ todo[a][3] = F("task", q)
      /\ (a \in Task => tstate[a] = "ALIVE")
  BY <1>3 DEF Shape
<1>5. a # reaper
  BY <1>3, <1>4 DEF Shape, F
<1>6. /\ q # kernel_process /\ q < next_process_id /\ state[q] = "NEW"
      /\ r \in 1..(next_process_id - 1) /\ Registered(q)
  BY <1>3 DEF FrameOK, Registered
<1>7. r \in Pid /\ r < next_process_id
  <2>1. next_process_id \in 2..(MaxPid + 1) /\ MaxPid \in Nat
    BY <1>2, ProcessAssumption DEF VarTypes
  <2> QED BY <1>6, <2>1 DEF Pid
<1>8. \A ps, ops : Num(todo[a], ps, ops) =
         One(f, ps, ops) + (One(F("release", r), ps, ops) + One(F("task", q), ps, ops))
  BY <1>3, <1>4, ThreeNum
<1> HIDE DEF q, r, f
<1>9. CASE reference_count' = Retained(q) /\ Then(a, <<F("add", q)>>)
  <2> DEFINE g == F("add", q)
             s == <<g>> \o Tail(todo[a])
  <2>1. /\ todo' = [todo EXCEPT ![a] = <<g>> \o Tail(@)]
        /\ reference_count' = [reference_count EXCEPT ![q] = @ + 1]
    BY <1>9 DEF Then, Retained
  <2>2. g \in Frame /\ g.op = "add" /\ g.p = q
    BY <1>3, FrameFacts
  <2>3. /\ s \in Seq(Frame) /\ s # <<>> /\ Len(s) = 3 /\ s[1] = g
        /\ s[2] = F("release", r) /\ s[3] = F("task", q)
    <3> HIDE DEF g
    <3>1. s \in Seq(Frame) /\ Len(s) = Len(todo[a]) /\ s[1] = g
          /\ \A i \in 2..Len(todo[a]) : s[i] = todo[a][i]
      BY <1>3, <2>2, ListView
    <3> QED BY <1>4, <3>1
  <2>4. todo' = [todo EXCEPT ![a] = s]
    BY <1>2, <2>1 DEF ListTypes
  <2>5. /\ ListTypes'
        /\ \A p, ops : Changed(Carried(p, ops), Carried(p, ops)', One(g, {p}, ops), One(f, {p}, ops))
    <3> HIDE DEF g
    <3> QED BY <1>2, <1>3, <2>1, <2>2, CarriedSwap DEF f
  <2> HIDE DEF s
  <2>6. \A i \in 1..Len(s) : i = 1 \/ i = 2 \/ i = 3
    BY <2>3
  <2>7. Shape(a, s)
    <3>1. r = parent_id[q]
      BY DEF r
    <3> QED BY <1>4, <1>5, <2>3, <2>6, <3>1 DEF Shape, F, FirstOps, LastOps
  <2>8. ListOK(a, s) /\ Inherits(a, s)
    <3>1. FrameOK(a, F("add", q)) /\ FrameOK(a, F("task", q)) /\ FrameOK(a, F("release", r))
      BY <1>6, <1>7 DEF FrameOK, F, r
    <3> QED BY <2>3, <2>6, <3>1 DEF ListOK, Inherits, F
  <2>9. Shapes' /\ FramesOK' /\ PublishOnce' /\ TasksOK'
    BY <1>1, <1>5, <2>3, <2>4, <2>7, <2>8, QuietStep DEF regVars, taskVars
  <2>10. /\ ProcessesOK' /\ reference_count' \in [Pid -> Nat]
         /\ \A p \in Pid : /\ reference_count'[p] = reference_count[p] + (IF q = p THEN 1 ELSE 0)
                           /\ reference_count[p] \in Nat
    BY <1>1, <1>2, <1>3, <1>6, <2>1, RetainProcesses DEF regVars
  <2>11. VarTypes' /\ NoBadPanic'
    BY <1>1, <1>2, <2>10 DEF VarTypes, NoBadPanic, regVars, spaceVars, taskVars
  <2>12. CountsOK'
    <3> SUFFICES ASSUME NEW p \in Pid \ {kernel_process} PROVE CountOK(p)'
      BY DEF CountsOK
    <3>1. CountOK(p)
      BY <1>2 DEF CountsOK
    <3>2. \A ops : /\ One(f, {p}, ops) = IF q = p /\ "retain" \in ops THEN 1 ELSE 0
                   /\ One(g, {p}, ops) = IF q = p /\ "add" \in ops THEN 1 ELSE 0
      BY <1>3 DEF One, F
    <3>3. /\ Carried(p, RefOps)' = Carried(p, RefOps) + (IF q = p THEN 1 ELSE 0)
          /\ Carried(p, RefOps) \in Nat
          /\ Carried(p, SpaceOps)' = Carried(p, SpaceOps)
          /\ Carried(p, DetachOps)' = Carried(p, DetachOps)
          /\ Carried(p, FreeOps)' = Carried(p, FreeOps)
          /\ Carried(p, BuildOps)' = Carried(p, BuildOps)
      <4>1. /\ Changed(Carried(p, RefOps), Carried(p, RefOps)', One(g, {p}, RefOps), One(f, {p}, RefOps))
            /\ Changed(Carried(p, SpaceOps), Carried(p, SpaceOps)', One(g, {p}, SpaceOps), One(f, {p}, SpaceOps))
            /\ Changed(Carried(p, DetachOps), Carried(p, DetachOps)', One(g, {p}, DetachOps), One(f, {p}, DetachOps))
            /\ Changed(Carried(p, FreeOps), Carried(p, FreeOps)', One(g, {p}, FreeOps), One(f, {p}, FreeOps))
            /\ Changed(Carried(p, BuildOps), Carried(p, BuildOps)', One(g, {p}, BuildOps), One(f, {p}, BuildOps))
        BY <2>5
      <4>2. /\ One(g, {p}, RefOps) = (IF q = p THEN 1 ELSE 0) /\ One(f, {p}, RefOps) = 0
            /\ One(g, {p}, SpaceOps) = 0 /\ One(f, {p}, SpaceOps) = 0
            /\ One(g, {p}, DetachOps) = 0 /\ One(f, {p}, DetachOps) = 0
            /\ One(g, {p}, FreeOps) = 0 /\ One(f, {p}, FreeOps) = 0
            /\ One(g, {p}, BuildOps) = 0 /\ One(f, {p}, BuildOps) = 0
        BY <3>2, OpTable
      <4> QED BY <4>1, <4>2 DEF Changed
    <3>4. Links(p)' = Links(p) /\ Threads(p)' = Threads(p) /\ Spaces(p)' = Spaces(p)
          /\ (Registered(p)' <=> Registered(p))
      BY <1>1 DEF Links, Threads, Spaces, Registered, taskVars
    <3>5. UNCHANGED <<state, live_threads, space_refs>>
      BY <1>1 DEF spaceVars
    <3>6. Links(p) \in Nat /\ Threads(p) \in Nat
      BY CountTypes
    <3>7. reference_count'[p] = Links(p)' + (Threads(p)' + Carried(p, RefOps)')
      BY <2>10, <3>1, <3>3, <3>4, <3>6 DEF CountOK
    <3> QED BY <3>1, <3>3, <3>4, <3>5, <3>7 DEF CountOK
  <2> QED BY <2>5, <2>9, <2>10, <2>11, <2>12 DEF PInv
<1>10. CASE UNCHANGED reference_count /\ Instead(a, <<F("release", r)>> \o Undo(q))
  <2> DEFINE s == <<F("release", r), F("release", q), F("space", q), F("context", q)>>
  <2>1. todo' = [todo EXCEPT ![a] = s] /\ reference_count' = reference_count
    <3>1. <<F("release", r)>> \o Undo(q) = s
      <4>1. F("release", r) \in Frame /\ F("release", q) \in Frame /\ F("space", q) \in Frame
            /\ F("context", q) \in Frame
        BY <1>3, <1>7, FrameFacts
      <4> QED BY <4>1, Joined4, ZenonT(40) DEF Undo
    <3> QED BY <1>10, <3>1 DEF Instead
  <2>2. F("release", r) \in Frame /\ F("release", q) \in Frame /\ F("space", q) \in Frame
        /\ F("context", q) \in Frame
    BY <1>3, <1>7, FrameFacts
  <2>3. /\ s \in Seq(Frame) /\ s # <<>> /\ Len(s) = 4 /\ s[1] = F("release", r)
        /\ s[2] = F("release", q) /\ s[3] = F("space", q) /\ s[4] = F("context", q)
    BY <2>2
  <2>4. \A ps, ops : Num(s, ps, ops) =
           One(F("release", r), ps, ops) + (One(F("release", q), ps, ops)
           + (One(F("space", q), ps, ops) + One(F("context", q), ps, ops)))
    BY <2>2, Num4
  <2> HIDE DEF s
  <2>5. \A i \in 1..Len(s) : i = 1 \/ i = 2 \/ i = 3 \/ i = 4
    BY <2>3
  <2>6. Shape(a, s)
    BY <1>4, <1>5, <2>3, <2>5 DEF Shape, F, FirstOps, LastOps
  <2>7. ListOK(a, s) /\ Inherits(a, s)
    <3>1. FrameOK(a, F("release", r)) /\ FrameOK(a, F("release", q)) /\ FrameOK(a, F("space", q))
          /\ FrameOK(a, F("context", q))
      BY <1>6, <1>7 DEF FrameOK, F
    <3> QED BY <2>3, <2>5, <3>1 DEF ListOK, Inherits, F
  <2>8. ListTypes'
    <3>1. /\ One(F("release", r), Pid, {"release"}) = 1 /\ One(F("release", q), Pid, {"release"}) = 1
          /\ One(F("space", q), Pid, {"release"}) = 0 /\ One(F("context", q), Pid, {"release"}) = 0
      BY <1>3, <1>7 DEF One, F
    <3>2. Num(s, Pid, {"release"}) = 1 + (1 + (0 + 0))
      BY <2>4, <3>1
    <3>3. Len(s) + Num(s, Pid, {"release"}) <= 8
      BY <2>3, <3>2
    <3> QED BY <1>2, <2>1, <2>3, <3>3, ListStep
  <2>9. Shapes' /\ FramesOK' /\ PublishOnce' /\ TasksOK'
    BY <1>1, <1>5, <2>1, <2>3, <2>6, <2>7, QuietStep DEF regVars, taskVars
  <2>10. ProcessesOK'
    BY <1>1, <1>2, <2>1, SameProcesses DEF regVars
  <2>11. VarTypes' /\ NoBadPanic'
    BY <1>1, <1>2, <2>1 DEF VarTypes, NoBadPanic, regVars, spaceVars, taskVars
  <2>12. CountsOK'
    <3> SUFFICES ASSUME NEW p \in Pid \ {kernel_process} PROVE CountOK(p)'
      BY DEF CountsOK
    <3>1. CountOK(p)
      BY <1>2 DEF CountsOK
    <3>2. \A ops : Changed(Carried(p, ops), Carried(p, ops)', Num(s, {p}, ops), Num(todo[a], {p}, ops))
      BY <1>2, <2>1, <2>3, CarriedStep
    <3>3. \A ops : One(f, {p}, ops) = IF q = p /\ "retain" \in ops THEN 1 ELSE 0
      BY <1>3, HeadOne
    <3>4. \A ops : Num(s, {p}, ops) = (IF r = p /\ "release" \in ops THEN 1 ELSE 0)
              + ((IF q = p /\ "release" \in ops THEN 1 ELSE 0)
                 + ((IF q = p /\ "space" \in ops THEN 1 ELSE 0)
                    + (IF q = p /\ "context" \in ops THEN 1 ELSE 0)))
      BY <2>4 DEF One, F
    <3>5. \A ops : Num(todo[a], {p}, ops) = (IF q = p /\ "retain" \in ops THEN 1 ELSE 0)
              + ((IF r = p /\ "release" \in ops THEN 1 ELSE 0)
                 + (IF q = p /\ "task" \in ops THEN 1 ELSE 0))
      BY <1>8, <3>3 DEF One, F
    <3>6. /\ Carried(p, RefOps)' = Carried(p, RefOps)
          /\ Carried(p, SpaceOps)' = Carried(p, SpaceOps)
          /\ Carried(p, DetachOps)' = Carried(p, DetachOps)
          /\ Carried(p, FreeOps)' = Carried(p, FreeOps)
          /\ Carried(p, BuildOps)' <= Carried(p, BuildOps)
          /\ Carried(p, BuildOps)' \in Nat /\ Carried(p, BuildOps) \in Nat
      <4>1. /\ Changed(Carried(p, RefOps), Carried(p, RefOps)', Num(s, {p}, RefOps), Num(todo[a], {p}, RefOps))
            /\ Changed(Carried(p, SpaceOps), Carried(p, SpaceOps)', Num(s, {p}, SpaceOps), Num(todo[a], {p}, SpaceOps))
            /\ Changed(Carried(p, DetachOps), Carried(p, DetachOps)', Num(s, {p}, DetachOps), Num(todo[a], {p}, DetachOps))
            /\ Changed(Carried(p, FreeOps), Carried(p, FreeOps)', Num(s, {p}, FreeOps), Num(todo[a], {p}, FreeOps))
            /\ Changed(Carried(p, BuildOps), Carried(p, BuildOps)', Num(s, {p}, BuildOps), Num(todo[a], {p}, BuildOps))
        BY <3>2
      <4>2. /\ Num(s, {p}, RefOps) = (IF r = p THEN 1 ELSE 0) + ((IF q = p THEN 1 ELSE 0) + (0 + 0)) /\ Num(todo[a], {p}, RefOps) = 0 + ((IF r = p THEN 1 ELSE 0) + (IF q = p THEN 1 ELSE 0))
            /\ Num(s, {p}, SpaceOps) = 0 + (0 + ((IF q = p THEN 1 ELSE 0) + 0)) /\ Num(todo[a], {p}, SpaceOps) = 0 + (0 + (IF q = p THEN 1 ELSE 0))
            /\ Num(s, {p}, DetachOps) = 0 + (0 + (0 + 0)) /\ Num(todo[a], {p}, DetachOps) = 0 + (0 + 0)
            /\ Num(s, {p}, FreeOps) = 0 + (0 + (0 + 0)) /\ Num(todo[a], {p}, FreeOps) = 0 + (0 + 0)
            /\ Num(s, {p}, BuildOps) = 0 + (0 + (0 + 0)) /\ Num(todo[a], {p}, BuildOps) = 0 + (0 + (IF q = p THEN 1 ELSE 0))
        BY <3>4, <3>5, OpTable
      <4> QED BY <4>1, <4>2 DEF Changed
    <3>7. Links(p)' = Links(p) /\ Threads(p)' = Threads(p) /\ Spaces(p)' = Spaces(p)
          /\ (Registered(p)' <=> Registered(p))
      BY <1>1 DEF Links, Threads, Spaces, Registered, taskVars
    <3>8. UNCHANGED <<state, reference_count, live_threads, space_refs>>
      BY <1>1, <2>1 DEF spaceVars
    <3> QED BY <3>1, <3>6, <3>7, <3>8 DEF CountOK
  <2> QED BY <2>8, <2>9, <2>10, <2>11, <2>12 DEF PInv
<1> QED BY <1>9, <1>10 DEF process_retain_child, q, r

\* The rest of process_add_child: the child is linked, or everything is given up.
LEMMA AddInv ==
    ASSUME PInv, NEW a \in Actor, process_add_child(a) PROVE PInv'
<1> DEFINE q == P(a)
           r == parent_id[q]
           f == todo[a][1]
<1>1. /\ At(a, "add")
      /\ UNCHANGED <<state, reference_count, live_threads, parent_id, exit_status, regVars, held,
                     spaceVars, taskVars, panic>>
  BY DEF process_add_child
<1>2. VarTypes /\ ListTypes /\ CountsOK /\ ProcessesOK /\ NoBadPanic
  BY DEF PInv
<1>3. /\ f \in Frame /\ f.op = "add" /\ f.p = q /\ q \in Pid /\ todo[a] \in Seq(Frame)
      /\ FrameOK(a, f) /\ Shape(a, todo[a]) /\ todo[a] # <<>>
  BY <1>1, HeadFacts
<1>4. /\ Len(todo[a]) = 3 /\ todo[a][2] = F("release", r) /\ todo[a][3] = F("task", q)
      /\ (a \in Task => tstate[a] = "ALIVE")
  BY <1>3 DEF Shape
<1>5. a # reaper
  BY <1>3, <1>4 DEF Shape, F
<1>6. /\ q # kernel_process /\ q < next_process_id /\ state[q] = "NEW"
      /\ r \in 1..(next_process_id - 1) /\ Registered(q)
  BY <1>3 DEF FrameOK, Registered
<1>7. r \in Pid /\ r < next_process_id
  <2>1. next_process_id \in 2..(MaxPid + 1) /\ MaxPid \in Nat
    BY <1>2, ProcessAssumption DEF VarTypes
  <2> QED BY <1>6, <2>1 DEF Pid
<1>8. \A ps, ops : Num(todo[a], ps, ops) =
         One(f, ps, ops) + (One(F("release", r), ps, ops) + One(F("task", q), ps, ops))
  BY <1>3, <1>4, ThreeNum
<1> DEFINE full == state[r] \in {"EXITING", "ZOMBIE", "DEAD"} \/ q \in children[r]
<1>9. IF full THEN Instead(a, <<F("release", q), F("release", r)>> \o Undo(q)) /\ UNCHANGED children
      ELSE Then(a, <<>>) /\ children' = [children EXCEPT ![r] = @ \cup {q}]
  BY DEF process_add_child
<1> HIDE DEF q, r, f
<1>10. CASE ~full
  <2> DEFINE s == <<>> \o Tail(todo[a])
  <2>1. /\ todo' = [todo EXCEPT ![a] = <<>> \o Tail(@)] /\ q \notin children[r]
        /\ children' = [children EXCEPT ![r] = @ \cup {q}]
    BY <1>9, <1>10 DEF Then
  <2>2. todo' = [todo EXCEPT ![a] = s]
    BY <1>2, <2>1 DEF ListTypes
  <2>3. /\ ListTypes'
        /\ \A p, ops : Changed(Carried(p, ops), Carried(p, ops)', 0, One(f, {p}, ops))
    BY <1>2, <1>3, <2>1, CarriedPop DEF f
  <2>4. Popped(a, s)
    BY <1>3, PopList DEF Poppable, f
  <2> HIDE DEF s
  <2>5. Shapes' /\ FramesOK' /\ PublishOnce' /\ TasksOK'
    BY <1>1, <1>3, <2>2, <2>4, QuietStep DEF regVars, taskVars, Popped
  <2>6. children \in [Pid -> SUBSET Pid] /\ children' \in [Pid -> SUBSET Pid]
    BY <1>2, <1>3, <1>7, <2>1 DEF VarTypes
  <2>7. VarTypes' /\ NoBadPanic'
    BY <1>1, <1>2, <2>6 DEF VarTypes, NoBadPanic, regVars, spaceVars, taskVars
  <2>8. ProcessesOK'
    <3>1. \A p, x \in Pid : p \in children'[x] => p < next_process_id
      BY <1>2, <1>6, <1>7, <2>1, <2>6 DEF ProcessesOK
    <3> QED BY <1>1, <1>2, <3>1 DEF ProcessesOK, Registered, regVars
  <2>9. \A p \in Pid : Links(p)' = Links(p) + (IF q = p THEN 1 ELSE 0)
    BY <1>3, <1>7, <2>1, <2>6, LinkStep
  <2>10. CountsOK'
    <3> SUFFICES ASSUME NEW p \in Pid \ {kernel_process} PROVE CountOK(p)'
      BY DEF CountsOK
    <3>1. CountOK(p)
      BY <1>2 DEF CountsOK
    <3>2. \A ops : One(f, {p}, ops) = IF q = p /\ "add" \in ops THEN 1 ELSE 0
      BY <1>3, HeadOne
    <3>3. /\ Carried(p, RefOps)' = Carried(p, RefOps) - (IF q = p THEN 1 ELSE 0)
          /\ Carried(p, RefOps) \in Nat
          /\ Carried(p, SpaceOps)' = Carried(p, SpaceOps)
          /\ Carried(p, DetachOps)' = Carried(p, DetachOps)
          /\ Carried(p, FreeOps)' = Carried(p, FreeOps)
          /\ Carried(p, BuildOps)' = Carried(p, BuildOps)
      <4>1. /\ Changed(Carried(p, RefOps), Carried(p, RefOps)', 0, One(f, {p}, RefOps))
            /\ Changed(Carried(p, SpaceOps), Carried(p, SpaceOps)', 0, One(f, {p}, SpaceOps))
            /\ Changed(Carried(p, DetachOps), Carried(p, DetachOps)', 0, One(f, {p}, DetachOps))
            /\ Changed(Carried(p, FreeOps), Carried(p, FreeOps)', 0, One(f, {p}, FreeOps))
            /\ Changed(Carried(p, BuildOps), Carried(p, BuildOps)', 0, One(f, {p}, BuildOps))
        BY <2>3
      <4>2. /\ One(f, {p}, RefOps) = (IF q = p THEN 1 ELSE 0)
            /\ One(f, {p}, SpaceOps) = 0
            /\ One(f, {p}, DetachOps) = 0
            /\ One(f, {p}, FreeOps) = 0
            /\ One(f, {p}, BuildOps) = 0
        BY <3>2, OpTable
      <4> QED BY <4>1, <4>2 DEF Changed
    <3>4. Threads(p)' = Threads(p) /\ Spaces(p)' = Spaces(p)
          /\ (Registered(p)' <=> Registered(p))
      BY <1>1 DEF Threads, Spaces, Registered, taskVars
    <3>5. UNCHANGED <<state, reference_count, live_threads, space_refs>>
      BY <1>1 DEF spaceVars
    <3>6. Links(p) \in Nat /\ Threads(p) \in Nat
      BY CountTypes
    <3>7. reference_count'[p] = Links(p)' + (Threads(p)' + Carried(p, RefOps)')
      BY <2>9, <3>1, <3>3, <3>4, <3>5, <3>6 DEF CountOK
    <3> QED BY <3>1, <3>3, <3>4, <3>5, <3>7 DEF CountOK
  <2> QED BY <2>3, <2>5, <2>7, <2>8, <2>10 DEF PInv
<1>11. CASE full
  <2> DEFINE s == <<F("release", q), F("release", r), F("release", q), F("space", q),
                    F("context", q)>>
  <2>1. F("release", r) \in Frame /\ F("release", q) \in Frame /\ F("space", q) \in Frame
        /\ F("context", q) \in Frame
    BY <1>3, <1>7, FrameFacts
  <2>2. todo' = [todo EXCEPT ![a] = s] /\ children' = children
    <3>1. <<F("release", q), F("release", r)>> \o Undo(q) = s
      BY <1>3, <1>7, UndoJoin
    <3> QED BY <1>9, <1>11, <3>1 DEF Instead
  <2>3. /\ s \in Seq(Frame) /\ s # <<>> /\ Len(s) = 5 /\ s[1] = F("release", q)
        /\ s[2] = F("release", r) /\ s[3] = F("release", q) /\ s[4] = F("space", q)
        /\ s[5] = F("context", q)
    BY <2>1
  <2>4. \A ps, ops : Num(s, ps, ops) =
           One(F("release", q), ps, ops) + (One(F("release", r), ps, ops)
           + (One(F("release", q), ps, ops)
              + (One(F("space", q), ps, ops) + One(F("context", q), ps, ops))))
    BY <2>1, Num5
  <2> HIDE DEF s
  <2>5. \A i \in 1..Len(s) : i = 1 \/ i = 2 \/ i = 3 \/ i = 4 \/ i = 5
    BY <2>3
  <2>6. Shape(a, s)
    BY <1>4, <1>5, <2>3, <2>5 DEF Shape, F, FirstOps, LastOps
  <2>7. ListOK(a, s) /\ Inherits(a, s)
    <3>1. FrameOK(a, F("release", r)) /\ FrameOK(a, F("release", q)) /\ FrameOK(a, F("space", q))
          /\ FrameOK(a, F("context", q))
      BY <1>6, <1>7 DEF FrameOK, F
    <3> QED BY <2>3, <2>5, <3>1 DEF ListOK, Inherits, F
  <2>8. ListTypes'
    <3>1. /\ One(F("release", r), Pid, {"release"}) = 1 /\ One(F("release", q), Pid, {"release"}) = 1
          /\ One(F("space", q), Pid, {"release"}) = 0 /\ One(F("context", q), Pid, {"release"}) = 0
      BY <1>3, <1>7 DEF One, F
    <3>2. Num(s, Pid, {"release"}) = 1 + (1 + (1 + (0 + 0)))
      BY <2>4, <3>1
    <3>3. Len(s) + Num(s, Pid, {"release"}) <= 8
      BY <2>3, <3>2
    <3> QED BY <1>2, <2>2, <2>3, <3>3, ListStep
  <2>9. Shapes' /\ FramesOK' /\ PublishOnce' /\ TasksOK'
    BY <1>1, <1>5, <2>2, <2>3, <2>6, <2>7, QuietStep DEF regVars, taskVars
  <2>10. ProcessesOK'
    BY <1>1, <1>2, <2>2, SameProcesses DEF regVars
  <2>11. VarTypes' /\ NoBadPanic'
    BY <1>1, <1>2, <2>2 DEF VarTypes, NoBadPanic, regVars, spaceVars, taskVars
  <2>12. CountsOK'
    <3> SUFFICES ASSUME NEW p \in Pid \ {kernel_process} PROVE CountOK(p)'
      BY DEF CountsOK
    <3>1. CountOK(p)
      BY <1>2 DEF CountsOK
    <3>2. \A ops : Changed(Carried(p, ops), Carried(p, ops)', Num(s, {p}, ops), Num(todo[a], {p}, ops))
      BY <1>2, <2>2, <2>3, CarriedStep
    <3>3. \A ops : One(f, {p}, ops) = IF q = p /\ "add" \in ops THEN 1 ELSE 0
      BY <1>3, HeadOne
    <3>4. \A ops : Num(s, {p}, ops) = (IF q = p /\ "release" \in ops THEN 1 ELSE 0)
              + ((IF r = p /\ "release" \in ops THEN 1 ELSE 0)
                 + ((IF q = p /\ "release" \in ops THEN 1 ELSE 0)
                    + ((IF q = p /\ "space" \in ops THEN 1 ELSE 0)
                       + (IF q = p /\ "context" \in ops THEN 1 ELSE 0))))
      BY <2>4 DEF One, F
    <3>5. \A ops : Num(todo[a], {p}, ops) = (IF q = p /\ "add" \in ops THEN 1 ELSE 0)
              + ((IF r = p /\ "release" \in ops THEN 1 ELSE 0)
                 + (IF q = p /\ "task" \in ops THEN 1 ELSE 0))
      BY <1>8, <3>3 DEF One, F
    <3>6. /\ Carried(p, RefOps)' = Carried(p, RefOps)
          /\ Carried(p, SpaceOps)' = Carried(p, SpaceOps)
          /\ Carried(p, DetachOps)' = Carried(p, DetachOps)
          /\ Carried(p, FreeOps)' = Carried(p, FreeOps)
          /\ Carried(p, BuildOps)' <= Carried(p, BuildOps)
          /\ Carried(p, BuildOps)' \in Nat /\ Carried(p, BuildOps) \in Nat
      <4>1. /\ Changed(Carried(p, RefOps), Carried(p, RefOps)', Num(s, {p}, RefOps), Num(todo[a], {p}, RefOps))
            /\ Changed(Carried(p, SpaceOps), Carried(p, SpaceOps)', Num(s, {p}, SpaceOps), Num(todo[a], {p}, SpaceOps))
            /\ Changed(Carried(p, DetachOps), Carried(p, DetachOps)', Num(s, {p}, DetachOps), Num(todo[a], {p}, DetachOps))
            /\ Changed(Carried(p, FreeOps), Carried(p, FreeOps)', Num(s, {p}, FreeOps), Num(todo[a], {p}, FreeOps))
            /\ Changed(Carried(p, BuildOps), Carried(p, BuildOps)', Num(s, {p}, BuildOps), Num(todo[a], {p}, BuildOps))
        BY <3>2
      <4>2. /\ Num(s, {p}, RefOps) = (IF q = p THEN 1 ELSE 0) + ((IF r = p THEN 1 ELSE 0) + ((IF q = p THEN 1 ELSE 0) + (0 + 0))) /\ Num(todo[a], {p}, RefOps) = (IF q = p THEN 1 ELSE 0) + ((IF r = p THEN 1 ELSE 0) + (IF q = p THEN 1 ELSE 0))
            /\ Num(s, {p}, SpaceOps) = 0 + (0 + (0 + ((IF q = p THEN 1 ELSE 0) + 0))) /\ Num(todo[a], {p}, SpaceOps) = 0 + (0 + (IF q = p THEN 1 ELSE 0))
            /\ Num(s, {p}, DetachOps) = 0 + (0 + (0 + (0 + 0))) /\ Num(todo[a], {p}, DetachOps) = 0 + (0 + 0)
            /\ Num(s, {p}, FreeOps) = 0 + (0 + (0 + (0 + 0))) /\ Num(todo[a], {p}, FreeOps) = 0 + (0 + 0)
            /\ Num(s, {p}, BuildOps) = 0 + (0 + (0 + (0 + 0))) /\ Num(todo[a], {p}, BuildOps) = 0 + (0 + (IF q = p THEN 1 ELSE 0))
        BY <3>4, <3>5, OpTable
      <4> QED BY <4>1, <4>2 DEF Changed
    <3>7. Links(p)' = Links(p) /\ Threads(p)' = Threads(p) /\ Spaces(p)' = Spaces(p)
          /\ (Registered(p)' <=> Registered(p))
      BY <1>1, <2>2 DEF Links, Threads, Spaces, Registered, taskVars
    <3>8. UNCHANGED <<state, reference_count, live_threads, space_refs>>
      BY <1>1 DEF spaceVars
    <3> QED BY <3>1, <3>6, <3>7, <3>8 DEF CountOK
  <2> QED BY <2>8, <2>9, <2>10, <2>11, <2>12 DEF PInv
<1> QED BY <1>10, <1>11

\* task_bind_process retains the process.
LEMMA BindInv ==
    ASSUME PInv, NEW a \in Actor, task_bind_process(a) PROVE PInv'
<1> DEFINE q == P(a)
           f == todo[a][1]
           g == FT("attach", q, T(a))
           s == <<g>> \o Tail(todo[a])
<1>1. /\ At(a, "bind") /\ todo' = [todo EXCEPT ![a] = <<g>> \o Tail(@)]
      /\ reference_count' = [reference_count EXCEPT ![q] = @ + 1]
      /\ UNCHANGED <<state, live_threads, parent_id, children, exit_status, regVars, held,
                     spaceVars, taskVars, panic>>
  BY DEF task_bind_process, Then, Retained
<1>2. VarTypes /\ ListTypes /\ CountsOK /\ ProcessesOK /\ NoBadPanic
  BY DEF PInv
<1>3. /\ f \in Frame /\ f.op = "bind" /\ f.p = q /\ q \in Pid /\ todo[a] \in Seq(Frame)
      /\ FrameOK(a, f) /\ Shape(a, todo[a]) /\ todo[a] # <<>> /\ T(a) = f.t
  BY <1>1, HeadFacts
<1>4. T(a) \in Task /\ q # kernel_process /\ (Threaded(a, q) \/ state[q] = "NEW")
  BY <1>3 DEF FrameOK
<1>5. g \in Frame /\ g.op = "attach" /\ g.p = q /\ g.t = f.t
  BY <1>3, <1>4, FrameFacts
<1>6. Registered(q)
  <2>1. CASE Threaded(a, q)
    BY <1>3, <1>4, <2>1, ThreadRuns DEF Threaded
  <2>2. CASE state[q] = "NEW"
    BY <2>2 DEF Registered
  <2> QED BY <1>4, <2>1, <2>2
<1> HIDE DEF q, f, g
<1>7. /\ s \in Seq(Frame) /\ Len(s) = Len(todo[a]) /\ s[1] = g /\ Len(todo[a]) \in Nat
      /\ Len(todo[a]) >= 1 /\ \A i \in 2..Len(todo[a]) : s[i] = todo[a][i]
  BY <1>3, <1>5, ListView
<1>8. todo' = [todo EXCEPT ![a] = s]
  BY <1>1, <1>2 DEF ListTypes
<1>9. /\ ListTypes'
      /\ \A p, ops : Changed(Carried(p, ops), Carried(p, ops)', One(g, {p}, ops), One(f, {p}, ops))
  BY <1>1, <1>2, <1>3, <1>5, CarriedSwap DEF f
<1> HIDE DEF s
<1>10. s # <<>>
  BY <1>7
<1>11. \A i \in 1..Len(s) : i = 1 \/ (i \in 2..Len(s) /\ s[i] = todo[a][i])
  BY <1>7
<1>12. /\ Len(todo[a]) # 1 /\ todo[a][Len(todo[a])] = FT("publish", q, f.t) /\ tproc[f.t] = 0
       /\ Threaded(a, q) \/ (Len(todo[a]) = 4 /\ todo[a][2] = F("release", q))
  <2>1. /\ todo[a][Len(todo[a])] = FT("publish", q, f.t) /\ tproc[f.t] = 0
        /\ Threaded(a, q) \/ (Len(todo[a]) = 4 /\ todo[a][2] = F("release", q))
    BY <1>3 DEF Shape, f
  <2>2. FT("publish", q, f.t).op = "publish"
    BY DEF FT
  <2> QED BY <1>3, <2>1, <2>2 DEF f
<1>13. s[Len(s)] = todo[a][Len(todo[a])] /\ Len(s) \in 1..Len(s)
  <2>1. PICK n \in Nat : n = Len(todo[a]) /\ n >= 2
    <3>1. Len(todo[a]) \in Nat /\ Len(todo[a]) >= 1 /\ Len(todo[a]) # 1
      BY <1>7, <1>12
    <3>2. PICK n \in Nat : n = Len(todo[a])
      BY <3>1, Zenon
    <3>3. n >= 1 /\ n # 1
      BY <3>1, <3>2, Zenon
    <3>4. n >= 2
      BY <3>3
    <3> QED BY <3>2, <3>4
  <2>2. n \in 2..Len(todo[a]) /\ n \in 1..Len(s) /\ n = Len(s)
    BY <1>7, <2>1
  <2>3. s[n] = todo[a][n]
    BY <1>7, <2>2
  <2> QED BY <2>1, <2>2, <2>3
<1>14. Shape(a, s)
  <2>1. /\ a \in Task => tstate[a] = "ALIVE"
        /\ a = reaper => s[Len(s)].op = "reaped"
    BY <1>3, <1>13 DEF Shape
  <2>2. ASSUME NEW i \in 1..Len(s)
        PROVE  (s[i].op \in FirstOps => i = 1) /\ (s[i].op \in LastOps => i = Len(s))
    <3>1. CASE i = 1
      BY <1>5, <1>7, <3>1 DEF LastOps
    <3>2. CASE i # 1
      <4>1. s[i] = todo[a][i] /\ i \in 1..Len(todo[a])
        BY <1>7, <1>11, <3>2
      <4> QED BY <1>3, <1>7, <4>1 DEF Shape
    <3> QED BY <3>1, <3>2
  <2>3. Threaded(a, q) \/ (Len(s) = 4 /\ s[2] = F("release", q))
    BY <1>7, <1>12
  <2> QED BY <1>5, <1>7, <1>12, <1>13, <2>1, <2>2, <2>3 DEF Shape
<1>15. ListOK(a, s)
  <2> SUFFICES ASSUME NEW i \in 1..Len(s) PROVE FrameOK(a, s[i])
    BY DEF ListOK
  <2>1. CASE i = 1
    <3>1. FrameOK(a, g)
      BY <1>3, <1>5 DEF FrameOK
    <3> QED BY <1>7, <2>1, <3>1
  <2>2. CASE i # 1
    <3>1. s[i] = todo[a][i] /\ i \in 1..Len(todo[a])
      BY <1>7, <1>11, <2>2
    <3> QED BY <3>1 DEF PInv, FramesOK, ListOK
  <2> QED BY <2>1, <2>2
<1>16. Inherits(a, s)
  <2> SUFFICES ASSUME NEW i \in 1..Len(s), s[i].op = "publish"
               PROVE  \E j \in 1..Len(todo[a]) : todo[a][j].op = "publish" /\ todo[a][j].t = s[i].t
    BY DEF Inherits
  <2>1. s[i] = todo[a][i] /\ i \in 1..Len(todo[a])
    BY <1>5, <1>7, <1>11
  <2> QED BY <2>1
<1>17. Shapes' /\ FramesOK' /\ PublishOnce' /\ TasksOK'
  <2>1. a = reaper => s[Len(s)].t = todo[a][Len(todo[a])].t
    BY <1>13
  <2> QED BY <1>1, <1>3, <1>7, <1>8, <1>10, <1>14, <1>15, <1>16, <2>1, QuietStep DEF regVars, taskVars
<1>18. /\ ProcessesOK' /\ reference_count' \in [Pid -> Nat]
       /\ \A p \in Pid : /\ reference_count'[p] = reference_count[p] + (IF q = p THEN 1 ELSE 0)
                         /\ reference_count[p] \in Nat
  BY <1>1, <1>2, <1>3, <1>6, RetainProcesses DEF regVars
<1>19. VarTypes' /\ NoBadPanic'
  BY <1>1, <1>2, <1>18 DEF VarTypes, NoBadPanic, regVars, spaceVars, taskVars
<1>20. CountsOK'
  <2> SUFFICES ASSUME NEW p \in Pid \ {kernel_process} PROVE CountOK(p)'
    BY DEF CountsOK
  <2>1. CountOK(p)
    BY <1>2 DEF CountsOK
  <2>2. \A ops : /\ One(f, {p}, ops) = IF q = p /\ "bind" \in ops THEN 1 ELSE 0
                 /\ One(g, {p}, ops) = IF q = p /\ "attach" \in ops THEN 1 ELSE 0
    BY <1>3, <1>5 DEF One
  <2>3. /\ Carried(p, RefOps)' = Carried(p, RefOps) + (IF q = p THEN 1 ELSE 0)
        /\ Carried(p, RefOps) \in Nat
        /\ Carried(p, SpaceOps)' = Carried(p, SpaceOps)
        /\ Carried(p, DetachOps)' = Carried(p, DetachOps)
        /\ Carried(p, FreeOps)' = Carried(p, FreeOps)
        /\ Carried(p, BuildOps)' = Carried(p, BuildOps)
    <3>1. /\ Changed(Carried(p, RefOps), Carried(p, RefOps)', One(g, {p}, RefOps), One(f, {p}, RefOps))
          /\ Changed(Carried(p, SpaceOps), Carried(p, SpaceOps)', One(g, {p}, SpaceOps), One(f, {p}, SpaceOps))
          /\ Changed(Carried(p, DetachOps), Carried(p, DetachOps)', One(g, {p}, DetachOps), One(f, {p}, DetachOps))
          /\ Changed(Carried(p, FreeOps), Carried(p, FreeOps)', One(g, {p}, FreeOps), One(f, {p}, FreeOps))
          /\ Changed(Carried(p, BuildOps), Carried(p, BuildOps)', One(g, {p}, BuildOps), One(f, {p}, BuildOps))
      BY <1>9
    <3>2. /\ One(g, {p}, RefOps) = (IF q = p THEN 1 ELSE 0) /\ One(f, {p}, RefOps) = 0
          /\ One(g, {p}, SpaceOps) = 0 /\ One(f, {p}, SpaceOps) = 0
          /\ One(g, {p}, DetachOps) = 0 /\ One(f, {p}, DetachOps) = 0
          /\ One(g, {p}, FreeOps) = 0 /\ One(f, {p}, FreeOps) = 0
          /\ One(g, {p}, BuildOps) = (IF q = p THEN 1 ELSE 0) /\ One(f, {p}, BuildOps) = (IF q = p THEN 1 ELSE 0)
      BY <2>2, OpTable
    <3> QED BY <3>1, <3>2 DEF Changed
  <2>4. Links(p)' = Links(p) /\ Threads(p)' = Threads(p) /\ Spaces(p)' = Spaces(p)
        /\ (Registered(p)' <=> Registered(p))
    BY <1>1 DEF Links, Threads, Spaces, Registered, taskVars
  <2>5. UNCHANGED <<state, live_threads, space_refs>>
    BY <1>1 DEF spaceVars
  <2>6. Links(p) \in Nat /\ Threads(p) \in Nat
    BY CountTypes
  <2>7. reference_count'[p] = Links(p)' + (Threads(p)' + Carried(p, RefOps)')
    BY <1>18, <2>1, <2>3, <2>4, <2>6 DEF CountOK
  <2> QED BY <2>1, <2>3, <2>4, <2>5, <2>7 DEF CountOK
<1> QED BY <1>9, <1>17, <1>18, <1>19, <1>20 DEF PInv

\* What the frame q, op at the head of a list takes away when it is done.
Taken(p, q, op, ops) ==
    /\ Carried(p, ops)' = Carried(p, ops) - (IF q = p /\ op \in ops THEN 1 ELSE 0)
    /\ Carried(p, ops) \in Nat /\ Carried(p, ops)' \in Nat
LEMMA PopCounts ==
    ASSUME ListTypes, NEW a \in Actor, todo[a] # <<>>, NEW p, NEW q, NEW op,
           todo[a][1].p = q, todo[a][1].op = op,
           todo' = [todo EXCEPT ![a] = <<>> \o Tail(@)]
    PROVE  /\ Taken(p, q, op, RefOps) /\ Taken(p, q, op, SpaceOps) /\ Taken(p, q, op, DetachOps)
           /\ Taken(p, q, op, FreeOps) /\ Taken(p, q, op, BuildOps)
<1>1. ASSUME NEW ops PROVE Taken(p, q, op, ops)
  <2>1. Changed(Carried(p, ops), Carried(p, ops)', 0, One(todo[a][1], {p}, ops))
    BY CarriedPop
  <2>2. One(todo[a][1], {p}, ops) = IF q = p /\ op \in ops THEN 1 ELSE 0
    BY HeadOne
  <2> QED BY <2>1, <2>2 DEF Changed, Taken
<1> QED BY <1>1

\* A step that does the first frame of a list, and leaves the makers of a process with a
\* new one.
LEMMA PopStep ==
    ASSUME PInv, NEW a \in Actor, todo[a] # <<>>, todo[a][1].op \in Poppable,
           todo' = [todo EXCEPT ![a] = <<>> \o Tail(@)],
           UNCHANGED <<parent_id, next_process_id, tstate, tproc, tspace>>,
           \A b \in Actor : \A i \in 1..Len(todo[b]) :
              todo[b][i].op \in MakeOps /\ state[todo[b][i].p] = "NEW"
                 => state'[todo[b][i].p] = "NEW"
    PROVE  ListTypes' /\ Shapes' /\ FramesOK' /\ PublishOnce' /\ TasksOK'
<1> DEFINE s == <<>> \o Tail(todo[a])
<1>1. ListTypes /\ DOMAIN todo = Actor
  BY DEF PInv, ListTypes
<1>2. todo' = [todo EXCEPT ![a] = s]
  BY <1>1
<1>3. Popped(a, s)
  BY PopList
<1>4. ListTypes'
  BY <1>1, CarriedPop
<1> HIDE DEF s
<1>5. todo'[a] = s /\ \A b \in Actor \ {a} : todo'[b] = todo[b]
  BY <1>1, <1>2
<1>6. \A b \in Actor : \A i \in 1..Len(todo'[b]) :
         todo'[b][i].op \in MakeOps /\ state[todo'[b][i].p] = "NEW" => state'[todo'[b][i].p] = "NEW"
  <2> TAKE b \in Actor
  <2> TAKE i \in 1..Len(todo'[b])
  <2>1. PICK j \in 1..Len(todo[b]) : todo[b][j] = todo'[b][i]
    <3>1. CASE b = a
      BY <1>3, <1>5, <3>1 DEF Popped
    <3>2. CASE b # a
      BY <1>5, <3>2
    <3> QED BY <3>1, <3>2
  <2>2. todo[b][j].op \in MakeOps /\ state[todo[b][j].p] = "NEW" => state'[todo[b][j].p] = "NEW"
    OBVIOUS
  <2> QED BY <2>1, <2>2
<1> QED BY <1>2, <1>3, <1>4, <1>6, QuietStep DEF Popped

\* address_space_release: the space still has the reference that is dropped.
LEMMA SpaceInv ==
    ASSUME PInv, NEW a \in Actor, address_space_release(a) PROVE PInv'
<1> DEFINE q == P(a)
<1>1. /\ At(a, "space") /\ todo' = [todo EXCEPT ![a] = <<>> \o Tail(@)]
      /\ space_refs' = [space_refs EXCEPT ![q] = IF @ = 0 THEN 0 ELSE @ - 1]
      /\ panic' = IF space_refs[q] = 0 THEN "failed releasing address space" ELSE panic
      /\ UNCHANGED <<procVars, regVars, held, stack_slots, taskVars>>
  BY DEF address_space_release, Then
<1>2. VarTypes /\ ListTypes /\ CountsOK /\ ProcessesOK /\ NoBadPanic
  BY DEF PInv
<1>3. /\ todo[a] # <<>> /\ todo[a][1].op = "space" /\ todo[a][1].p = q /\ q \in Pid
      /\ FrameOK(a, todo[a][1]) /\ 1 \in 1..Len(todo[a])
  BY <1>1, HeadFacts
<1>4. q \in Pid \ {kernel_process}
  BY <1>3 DEF FrameOK
<1> HIDE DEF q
<1>5. space_refs \in [Pid -> Nat] /\ space_refs[q] \in Nat /\ space_refs[q] >= 1
  <2>1. Carried(q, SpaceOps) >= 1
    BY <1>2, <1>3, CarriedSome, OpTable
  <2>2. CountOK(q) /\ space_refs \in [Pid -> Nat]
    BY <1>2, <1>4 DEF CountsOK, VarTypes
  <2>3. Carried(q, SpaceOps) \in Nat /\ Spaces(q) \in Nat
    BY CarriedType, CountTypes
  <2>4. PICK n \in Nat : n = IF Registered(q) THEN 1 ELSE 0
    OBVIOUS
  <2>5. space_refs[q] = n + (Spaces(q) + Carried(q, SpaceOps))
    BY <2>2, <2>4 DEF CountOK
  <2> QED BY <1>3, <2>1, <2>2, <2>3, <2>4, <2>5
<1>6. /\ panic' = panic /\ space_refs' \in [Pid -> Nat]
      /\ \A p \in Pid : space_refs'[p] = space_refs[p] - (IF q = p THEN 1 ELSE 0)
  <2>1. /\ space_refs' = [space_refs EXCEPT ![q] = IF @ = 0 THEN 0 ELSE @ - 1]
        /\ panic' = IF space_refs[q] = 0 THEN "failed releasing address space" ELSE panic
    BY <1>1, Zenon
  <2>2. space_refs[q] # 0 /\ space_refs[q] - 1 \in Nat
    BY <1>5
  <2>3. panic' = panic
    BY <2>1, <2>2, Zenon
  <2>4. space_refs' = [space_refs EXCEPT ![q] = space_refs[q] - 1]
    BY <2>1, <2>2, Zenon
  <2> QED BY <1>3, <1>5, <2>2, <2>3, <2>4
<1>7. VarTypes' /\ NoBadPanic'
  <2>1. space_refs' \in [Pid -> Nat]
    BY <1>6
  <2>2. panic' = panic
    BY <1>6
  <2> QED BY <1>1, <1>2, <2>1, <2>2 DEF VarTypes, NoBadPanic, regVars, procVars, taskVars
<1>8. ListTypes' /\ Shapes' /\ FramesOK' /\ PublishOnce' /\ TasksOK'
  BY <1>1, <1>3, PopStep DEF Poppable, procVars, regVars, taskVars
<1>9. ProcessesOK'
  BY <1>1, <1>2, SameProcesses DEF procVars, regVars
<1>10. CountsOK'
  <2> SUFFICES ASSUME NEW p \in Pid \ {kernel_process} PROVE CountOK(p)'
    BY DEF CountsOK
  <2>1. CountOK(p) /\ space_refs[p] \in Nat
    BY <1>2, <1>5 DEF CountsOK
  <2>2. /\ Taken(p, q, "space", RefOps) /\ Taken(p, q, "space", SpaceOps)
        /\ Taken(p, q, "space", DetachOps) /\ Taken(p, q, "space", FreeOps)
        /\ Taken(p, q, "space", BuildOps)
    BY <1>1, <1>2, <1>3, PopCounts
  <2>3. /\ Carried(p, RefOps)' = Carried(p, RefOps)
        /\ Carried(p, SpaceOps)' = Carried(p, SpaceOps) - (IF q = p THEN 1 ELSE 0)
        /\ Carried(p, SpaceOps) \in Nat
        /\ Carried(p, DetachOps)' = Carried(p, DetachOps)
        /\ Carried(p, FreeOps)' = Carried(p, FreeOps)
        /\ Carried(p, BuildOps)' = Carried(p, BuildOps)
    BY <2>2, OpTable DEF Taken
  <2>4. Links(p)' = Links(p) /\ Threads(p)' = Threads(p) /\ Spaces(p)' = Spaces(p)
        /\ (Registered(p)' <=> Registered(p))
    BY <1>1 DEF Links, Threads, Spaces, Registered, taskVars, procVars
  <2>5. UNCHANGED <<state, reference_count, live_threads>>
    BY <1>1 DEF procVars
  <2>6. space_refs'[p] = (IF Registered(p)' THEN 1 ELSE 0) + (Spaces(p)' + Carried(p, SpaceOps)')
    <3>1. Spaces(p) \in Nat
      BY CountTypes
    <3>2. PICK n \in Nat : n = IF Registered(p) THEN 1 ELSE 0
      OBVIOUS
    <3>3. space_refs[p] = n + (Spaces(p) + Carried(p, SpaceOps))
      BY <2>1, <3>2 DEF CountOK
    <3>4. space_refs'[p] = n + (Spaces(p) + Carried(p, SpaceOps)')
      BY <1>6, <2>1, <2>3, <3>1, <3>3
    <3> QED BY <2>4, <3>2, <3>4
  <2> QED BY <2>1, <2>3, <2>4, <2>5, <2>6 DEF CountOK
<1> QED BY <1>7, <1>8, <1>9, <1>10 DEF PInv

\* The end of process_release: only a process that is dead is freed.
LEMMA FreeInv ==
    ASSUME PInv, NEW a \in Actor, process_free(a) PROVE PInv'
<1> DEFINE q == P(a)
<1>1. /\ At(a, "free") /\ todo' = [todo EXCEPT ![a] = <<>> \o Tail(@)]
      /\ \/ panic' = "destroying process with owned children" /\ state' = state
         \/ panic' = panic /\ state' = [state EXCEPT ![q] = "FREED"]
      /\ UNCHANGED <<reference_count, live_threads, parent_id, children, exit_status,
                     regVars, held, spaceVars, taskVars>>
  BY DEF process_free, Then
<1>2. VarTypes /\ ListTypes /\ CountsOK /\ ProcessesOK /\ NoBadPanic
  BY DEF PInv
<1>3. /\ todo[a] # <<>> /\ todo[a][1].op = "free" /\ todo[a][1].p = q /\ q \in Pid
      /\ FrameOK(a, todo[a][1]) /\ 1 \in 1..Len(todo[a])
  BY <1>1, HeadFacts
<1>4. q \in Pid \ {kernel_process} /\ q < next_process_id
  BY <1>3 DEF FrameOK
<1> HIDE DEF q
<1>5. Carried(q, FreeOps) >= 1 /\ Carried(q, FreeOps) \in Nat /\ state[q] = "DEAD"
  <2>1. Carried(q, FreeOps) >= 1 /\ Carried(q, FreeOps) \in Nat
    BY <1>2, <1>3, CarriedSome, OpTable, CarriedType
  <2>2. Carried(q, FreeOps) <= (IF state[q] = "DEAD" THEN 1 ELSE 0)
    BY <1>2, <1>4 DEF CountsOK, CountOK
  <2> QED BY <2>1, <2>2
<1>6. \A p \in Pid : state'[p] # state[p] => p = q /\ state'[p] = "FREED"
  BY <1>1, <1>2 DEF VarTypes
<1>7. \A p \in Pid : Registered(p)' <=> Registered(p)
  BY <1>5, <1>6 DEF Registered
<1>8. VarTypes' /\ NoBadPanic'
  <2>1. panic' \notin BadPanic
    BY <1>1, <1>2 DEF NoBadPanic, BadPanic
  <2>2. state' \in [Pid -> {"UNBORN", "NEW", "RUNNING", "EXITING", "ZOMBIE", "DEAD", "FREED"}]
    BY <1>1, <1>2 DEF VarTypes
  <2> QED BY <1>1, <1>2, <2>1, <2>2 DEF VarTypes, NoBadPanic, regVars, spaceVars, taskVars
<1>9. ListTypes' /\ Shapes' /\ FramesOK' /\ PublishOnce' /\ TasksOK'
  <2>1. \A b \in Actor : \A i \in 1..Len(todo[b]) :
           todo[b][i].op \in MakeOps /\ state[todo[b][i].p] = "NEW"
              => state'[todo[b][i].p] = "NEW"
    <3>1. \A b \in Actor : \A i \in 1..Len(todo[b]) : todo[b][i].p \in Pid
      <4>1. \A b \in Actor : todo[b] \in Seq(Frame)
        BY <1>2 DEF ListTypes
      <4>2. \A g \in Frame : g.p \in Pid
        BY DEF Frame
      <4>3. \A b \in Actor : \A i \in 1..Len(todo[b]) : todo[b][i] \in Frame
        BY <4>1
      <4> QED BY <4>2, <4>3
    <3> QED BY <1>5, <1>6, <3>1
  <2> QED BY <1>1, <1>3, <2>1, PopStep DEF Poppable, regVars, taskVars
<1>10. ProcessesOK'
  <2>1. state'[kernel_process] = "RUNNING"
    BY <1>2, <1>4, <1>6, ProcessAssumption DEF ProcessesOK, kernel_process, Pid
  <2>2. \A p \in Pid : state'[p] = "UNBORN" <=> state[p] = "UNBORN"
    BY <1>5, <1>6
  <2>3. {p \in Pid : Registered(p)}' = {p \in Pid : Registered(p)}
    BY <1>7
  <2> QED BY <1>1, <1>2, <1>7, <2>1, <2>2, <2>3 DEF ProcessesOK, regVars
<1>11. CountsOK'
  <2> SUFFICES ASSUME NEW p \in Pid \ {kernel_process} PROVE CountOK(p)'
    BY DEF CountsOK
  <2>1. CountOK(p)
    BY <1>2 DEF CountsOK
  <2>2. /\ Taken(p, q, "free", RefOps) /\ Taken(p, q, "free", SpaceOps)
        /\ Taken(p, q, "free", DetachOps) /\ Taken(p, q, "free", FreeOps)
        /\ Taken(p, q, "free", BuildOps)
    BY <1>1, <1>2, <1>3, PopCounts
  <2>3. /\ Carried(p, RefOps)' = Carried(p, RefOps)
        /\ Carried(p, SpaceOps)' = Carried(p, SpaceOps)
        /\ Carried(p, DetachOps)' = Carried(p, DetachOps)
        /\ Carried(p, FreeOps)' = Carried(p, FreeOps) - (IF q = p THEN 1 ELSE 0)
        /\ Carried(p, FreeOps) \in Nat /\ Carried(p, FreeOps)' \in Nat
        /\ Carried(p, BuildOps)' = Carried(p, BuildOps)
    BY <2>2, OpTable DEF Taken
  <2>4. Links(p)' = Links(p) /\ Threads(p)' = Threads(p) /\ Spaces(p)' = Spaces(p)
        /\ (Registered(p)' <=> Registered(p))
    BY <1>1, <1>7 DEF Links, Threads, Spaces, taskVars
  <2>5. UNCHANGED <<reference_count, live_threads, space_refs>>
    BY <1>1 DEF spaceVars
  <2>6. /\ state'[p] = "RUNNING" <=> state[p] = "RUNNING"
        /\ state'[p] = "NEW" <=> state[p] = "NEW"
    BY <1>5, <1>6
  <2>7. Carried(p, FreeOps)' <= (IF state'[p] = "DEAD" THEN 1 ELSE 0)
    <3>1. Carried(p, FreeOps) <= (IF state[p] = "DEAD" THEN 1 ELSE 0)
      BY <2>1 DEF CountOK
    <3>2. CASE p = q
      BY <1>5, <2>3, <3>1, <3>2
    <3>3. CASE p # q
      BY <1>6, <2>3, <3>1, <3>3
    <3> QED BY <3>2, <3>3
  <2> QED BY <2>1, <2>3, <2>4, <2>5, <2>6, <2>7 DEF CountOK
<1> QED BY <1>8, <1>9, <1>10, <1>11 DEF PInv

\* The caller that drops the last reference is the only one to hold one: the process has
\* no link and no thread, and nobody is making it or detaching a thread from it.
LEMMA OnlyRef ==
    ASSUME PInv, NEW a \in Actor, 1 \in 1..Len(todo[a]), NEW q \in Pid \ {kernel_process},
           todo[a][1].op = "release", todo[a][1].p = q, reference_count[q] = 1
    PROVE  /\ Links(q) = 0 /\ Threads(q) = 0 /\ Carried(q, RefOps) = 1
           /\ live_threads[q] = 0 /\ Carried(q, DetachOps) = 0
           /\ \A b \in Actor : \A i \in 1..Len(todo[b]) :
                 todo[b][i].p = q => todo[b][i].op \notin MakeOps \cup DetachOps
<1>1. ListTypes /\ CountOK(q) /\ Shapes
  BY DEF PInv, CountsOK
<1>2. Carried(q, RefOps) >= 1
  BY <1>1, CarriedSome, OpTable
<1>3. Links(q) = 0 /\ Threads(q) = 0 /\ Carried(q, RefOps) = 1
  <2>1. Links(q) \in Nat /\ Threads(q) \in Nat /\ Carried(q, RefOps) \in Nat
    BY CountTypes, CarriedType
  <2>2. 1 = Links(q) + (Threads(q) + Carried(q, RefOps))
    BY <1>1 DEF CountOK
  <2> QED BY <1>2, <2>1, <2>2
<1>4. ASSUME NEW b \in Actor, NEW j \in 1..Len(todo[b]), todo[b][j].p = q, todo[b][j].op \in RefOps
      PROVE  b = a /\ j = 1
  <2> SUFFICES ASSUME a # b \/ 1 # j PROVE FALSE
    OBVIOUS
  <2>1. Carried(q, RefOps) >= 2
    BY <1>1, <1>4, CarriedTwo, OpTable
  <2> QED BY <1>3, <2>1
<1>5. ASSUME NEW b \in Actor, NEW i \in 1..Len(todo[b]), todo[b][i].p = q,
             todo[b][i].op \in MakeOps \cup DetachOps
      PROVE  FALSE
  <2>1. /\ todo[b] # <<>> /\ Len(todo[b]) \in Nat /\ Shape(b, todo[b])
    BY <1>1, <1>5 DEF Shapes, ListTypes
  <2>2. CASE todo[b][i].op \in RefOps
    <3>1. todo[b][i].op = "release"
      BY <1>4, <1>5, <2>2
    <3> QED BY <1>5, <3>1 DEF MakeOps, DetachOps
  <2>3. CASE todo[b][i].op = "retain"
    <3>1. i = 1
      BY <2>1, <2>3 DEF Shape, FirstOps
    <3>2. Len(todo[b]) = 3 /\ todo[b][3] = F("task", q)
      BY <1>5, <2>1, <2>3, <3>1 DEF Shape
    <3>3. 3 \in 1..Len(todo[b]) /\ todo[b][3].p = q /\ todo[b][3].op \in RefOps
      BY <3>2, OpTable DEF F
    <3> QED BY <1>4, <3>3
  <2>4. CASE todo[b][i].op = "detach"
    <3>1. i = 1
      BY <2>1, <2>4 DEF Shape, FirstOps
    <3>2. Len(todo[b]) = 4 /\ todo[b][3] = F("release", q)
      BY <1>5, <2>1, <2>4, <3>1 DEF Shape
    <3>3. 3 \in 1..Len(todo[b]) /\ todo[b][3].p = q /\ todo[b][3].op \in RefOps
      BY <3>2, OpTable DEF F
    <3> QED BY <1>4, <3>3
  <2>5. CASE todo[b][i].op = "bind"
    <3>1. i = 1
      BY <2>1, <2>5 DEF Shape, FirstOps
    <3>2. Threaded(b, q) \/ (Len(todo[b]) = 4 /\ todo[b][2] = F("release", q))
      BY <1>5, <2>1, <2>5, <3>1 DEF Shape
    <3>3. CASE Threaded(b, q)
      <4>1. Threads(q) >= 1
        BY <3>3, ThreadRuns DEF Threaded
      <4> QED BY <1>3, <4>1
    <3>4. CASE Len(todo[b]) = 4 /\ todo[b][2] = F("release", q)
      <4>1. 2 \in 1..Len(todo[b]) /\ todo[b][2].p = q /\ todo[b][2].op \in RefOps
        BY <3>4, OpTable DEF F
      <4> QED BY <1>4, <4>1
    <3> QED BY <3>2, <3>3, <3>4
  <2> QED BY <1>5, <2>2, <2>3, <2>4, <2>5 DEF MakeOps, DetachOps, RefOps
<1>6. Carried(q, DetachOps) = 0
  BY <1>1, <1>5, CarriedNone
<1>7. live_threads[q] = 0
  BY <1>1, <1>3, <1>6 DEF CountOK
<1> QED BY <1>3, <1>5, <1>6, <1>7

\* The list after the last reference is dropped.
Split(a, s, q) ==
    /\ s \in Seq(Frame) /\ s # <<>> /\ Shape(a, s) /\ ListOK(a, s) /\ Inherits(a, s)
    /\ a = reaper => s[Len(s)].t = todo[a][Len(todo[a])].t
    /\ \A i \in 1..Len(s) : \/ s[i].op \notin MakeOps
                            \/ \E j \in 1..Len(todo[a]) : s[i] = todo[a][j]
LEMMA SplitList ==
    ASSUME PInv, NEW a \in Actor, todo[a] # <<>>, todo[a][1].op = "release",
           NEW q \in Pid, todo[a][1].p = q, q # kernel_process
    PROVE  Split(a, <<F("space", q), F("free", q)>> \o Tail(todo[a]), q)
<1> DEFINE r == todo[a]
           f == F("space", q)
           g == F("free", q)
           s == <<f, g>> \o Tail(r)
<1>1. ListTypes /\ Shape(a, r) /\ ListOK(a, r) /\ f \in Frame /\ g \in Frame
  BY FrameFacts DEF PInv, Shapes, FramesOK
<1>2. /\ r \in Seq(Frame) /\ Len(r) \in Nat /\ Len(r) >= 1 /\ r[1] \in Frame
  BY <1>1, ListFacts
<1>3. q < next_process_id
  <2>1. 1 \in 1..Len(r)
    BY <1>2
  <2> QED BY <1>1, <2>1 DEF ListOK, FrameOK
<1>4. f.op = "space" /\ g.op = "free" /\ FrameOK(a, f) /\ FrameOK(a, g)
  BY <1>3 DEF F, FrameOK
<1>5. r[1].op = "release"
  OBVIOUS
<1> HIDE DEF r, f, g
<1>6. s \in Seq(Frame) /\ Len(s) = Len(r) + 1 /\ s[1] = f /\ s[2] = g
      /\ \A i \in 3..(Len(r) + 1) : s[i] = r[i - 1]
  <2>1. r # <<>>
    BY DEF r
  <2> QED BY <1>1, <1>2, <2>1, ListView
<1> HIDE DEF s
<1>7. \A i \in 1..Len(s) : \/ i = 1 /\ s[i] = f
                           \/ i = 2 /\ s[i] = g
                           \/ i - 1 \in 2..Len(r) /\ s[i] = r[i - 1]
  BY <1>2, <1>6
<1>8. s # <<>> /\ Len(s) \in 1..Len(s) /\ 1 \in 1..Len(s)
  BY <1>2, <1>6
<1>9. \/ s[Len(s)] = g /\ Len(r) = 1
      \/ s[Len(s)] = r[Len(r)]
  <2>1. PICK n \in Nat : n = Len(r) /\ n >= 1
    BY <1>2
  <2>2. CASE n = 1
    BY <1>6, <2>1, <2>2
  <2>3. CASE n # 1
    <3>1. n + 1 \in 3..(Len(r) + 1) /\ (n + 1) - 1 = n /\ Len(s) = n + 1
      BY <1>6, <2>1, <2>3
    <3>2. s[n + 1] = r[(n + 1) - 1]
      BY <1>6, <3>1
    <3> QED BY <2>1, <3>1, <3>2
  <2> QED BY <2>2, <2>3
<1>10. a = reaper => s[Len(s)] = r[Len(r)]
  <2>1. a = reaper => r[Len(r)].op = "reaped"
    BY <1>1 DEF Shape
  <2> QED BY <1>5, <1>9, <2>1
<1>11. Shape(a, s)
  <2>1. /\ a \in Task => tstate[a] = "ALIVE"
        /\ a = reaper => s[Len(s)].op = "reaped"
    BY <1>1, <1>10 DEF Shape
  <2>2. ASSUME NEW i \in 1..Len(s)
        PROVE  s[i].op \notin FirstOps /\ (s[i].op \in LastOps => i = Len(s))
    <3>1. CASE s[i] = f \/ s[i] = g
      BY <1>4, <3>1 DEF FirstOps, LastOps
    <3>2. CASE i - 1 \in 2..Len(r) /\ s[i] = r[i - 1]
      <4>1. PICK k \in 2..Len(r) : k = i - 1 /\ s[i] = r[k] /\ k \in 1..Len(r) /\ k # 1
        BY <1>2, <3>2
      <4>2. r[k].op \notin FirstOps /\ (r[k].op \in LastOps => k = Len(r))
        BY <1>1, <4>1 DEF Shape
      <4>3. k = Len(r) => i = Len(s)
        BY <1>2, <1>6, <4>1
      <4> QED BY <4>1, <4>2, <4>3
    <3> QED BY <1>7, <3>1, <3>2
  <2>3. s[1].op \notin FirstOps
    BY <1>8, <2>2
  <2>4. s[Len(s)].op = "publish" => tproc[s[Len(s)].t] = s[Len(s)].p
    BY <1>1, <1>4, <1>5, <1>9 DEF Shape
  <2> QED BY <2>1, <2>2, <2>3, <2>4 DEF Shape, FirstOps
<1>12. ListOK(a, s)
  <2> SUFFICES ASSUME NEW i \in 1..Len(s) PROVE FrameOK(a, s[i])
    BY DEF ListOK
  <2>1. \A k \in 2..Len(r) : FrameOK(a, r[k])
    BY <1>1, <1>2 DEF ListOK
  <2> QED BY <1>4, <1>7, <2>1
<1>13. \A i \in 1..Len(s) : \/ s[i].op \in {"space", "free"}
                            \/ \E j \in 1..Len(r) : s[i] = r[j]
  <2> TAKE i \in 1..Len(s)
  <2>1. CASE s[i] = f \/ s[i] = g
    BY <1>4, <2>1
  <2>2. CASE i - 1 \in 2..Len(r) /\ s[i] = r[i - 1]
    BY <1>2, <2>2
  <2> QED BY <1>7, <2>1, <2>2
<1>14. Inherits(a, s)
  BY <1>13 DEF Inherits, r
<1>15. \A i \in 1..Len(s) : s[i].op \notin MakeOps \/ \E j \in 1..Len(r) : s[i] = r[j]
  BY <1>13 DEF MakeOps
<1> QED BY <1>6, <1>8, <1>10, <1>11, <1>12, <1>14, <1>15 DEF Split, s, r, f, g

\* The kernel process is one of the processes.
LEMMA KernelPid == kernel_process \in Pid /\ MaxPid \in Nat
BY ProcessAssumption DEF kernel_process, Pid

\* A process that is gone is no longer among those that are registered.
LEMMA Unregister ==
    ASSUME ProcessesOK, VarTypes, NEW q \in Pid, Registered(q), NEW v \in {"DEAD"},
           state' = [state EXCEPT ![q] = v]
    PROVE  /\ live_processes >= 1 /\ live_processes \in Nat
           /\ live_processes - 1 = Cardinality({p \in Pid : Registered(p)'})
           /\ \A p \in Pid : Registered(p)' <=> Registered(p) /\ p # q
<1> DEFINE R == {p \in Pid : Registered(p)}
           S == {p \in Pid : Registered(p)'}
<1>1. \A p \in Pid : Registered(p)' <=> Registered(p) /\ p # q
  BY DEF VarTypes, Registered
<1>2. IsFiniteSet(R) /\ R \ {q} = S \ {q} /\ q \in R /\ q \notin S
  BY <1>1, Finite, FS_Subset
<1>3. live_processes = Cardinality(R)
  BY DEF ProcessesOK
<1> HIDE DEF R, S
<1>4. /\ Cardinality(R) \in Nat /\ Cardinality(S) \in Nat
      /\ Cardinality(S) = (Cardinality(R) + (IF q \in S THEN 1 ELSE 0))
                          - (IF q \in R THEN 1 ELSE 0)
  BY <1>2, CardStep
<1>5. Cardinality(S) = Cardinality(R) - 1
  BY <1>2, <1>4
<1>6. live_processes >= 1 /\ live_processes \in Nat /\ live_processes - 1 = Cardinality(S)
  BY <1>3, <1>4, <1>5
<1> QED BY <1>1, <1>6 DEF S

\* process_release: of the kernel process, of a reference that is not the last, and of the
\* last one.
LEMMA ReleaseInv ==
    ASSUME PInv, NEW a \in Actor, process_release(a) PROVE PInv'
<1> DEFINE q == P(a)
<1>1. /\ At(a, "release")
      /\ UNCHANGED <<live_threads, parent_id, children, exit_status,
                     next_process_id, held, spaceVars, taskVars>>
  BY DEF process_release
<1>2. VarTypes /\ ListTypes /\ CountsOK /\ ProcessesOK /\ NoBadPanic
  BY DEF PInv
<1>3. /\ todo[a] # <<>> /\ todo[a][1].op = "release" /\ todo[a][1].p = q /\ q \in Pid
      /\ FrameOK(a, todo[a][1]) /\ 1 \in 1..Len(todo[a])
  BY <1>1, HeadFacts
<1>4. /\ reference_count \in [Pid -> Nat] /\ reference_count[q] \in Nat
      /\ q # kernel_process => reference_count[q] >= 1
  <2>1. reference_count \in [Pid -> Nat]
    BY <1>2 DEF VarTypes
  <2>2. ASSUME q # kernel_process PROVE reference_count[q] >= 1
    <3>1. Carried(q, RefOps) >= 1
      BY <1>2, <1>3, CarriedSome, OpTable
    <3>2. Carried(q, RefOps) \in Nat /\ Links(q) \in Nat /\ Threads(q) \in Nat
      BY CarriedType, CountTypes
    <3>3. reference_count[q] = Links(q) + (Threads(q) + Carried(q, RefOps))
      BY <1>2, <1>3, <2>2 DEF CountsOK, CountOK
    <3> QED BY <3>1, <3>2, <3>3
  <2> QED BY <1>3, <2>1, <2>2
<1> DEFINE last == q # kernel_process /\ reference_count[q] = 1
<1>5. CASE ~last
  <2>1. /\ todo' = [todo EXCEPT ![a] = <<>> \o Tail(@)]
        /\ UNCHANGED <<state, live_processes>>
    BY <1>5 DEF process_release, Then
  <2>2. /\ panic' = panic /\ reference_count' \in [Pid -> Nat]
        /\ \A p \in Pid : reference_count'[p] =
              reference_count[p] - (IF q = p /\ q # kernel_process THEN 1 ELSE 0)
    <3>1. CASE q = kernel_process
      <4>1. reference_count' = reference_count /\ panic' = panic
        BY <3>1 DEF process_release
      <4>2. \A p \in Pid : reference_count[p] \in Nat
        BY <1>4
      <4> QED BY <1>4, <3>1, <4>1, <4>2
    <3>2. CASE q # kernel_process
      <4>1. reference_count[q] # 0 /\ reference_count[q] - 1 \in Nat
        BY <1>4, <3>2
      <4>2. /\ reference_count' = [reference_count EXCEPT ![q] = IF @ = 0 THEN 0 ELSE @ - 1]
            /\ panic' = IF reference_count[q] = 0 THEN "reference-count underflow"
                        ELSE IF last /\ live_processes = 0 THEN "live-process count underflow"
                        ELSE panic
        BY <3>2, Zenon DEF process_release
      <4>3. panic' = panic
        BY <1>5, <4>1, <4>2, Zenon
      <4>4. reference_count' = [reference_count EXCEPT ![q] = reference_count[q] - 1]
        BY <4>1, <4>2, Zenon
      <4> QED BY <1>3, <1>4, <3>2, <4>1, <4>3, <4>4
    <3> QED BY <3>1, <3>2
  <2>3. VarTypes' /\ NoBadPanic'
    BY <1>1, <1>2, <2>1, <2>2 DEF VarTypes, NoBadPanic, spaceVars, taskVars
  <2>4. ListTypes' /\ Shapes' /\ FramesOK' /\ PublishOnce' /\ TasksOK'
    BY <1>1, <1>3, <2>1, PopStep DEF Poppable, taskVars
  <2>5. ProcessesOK'
    <3>1. \A p \in Pid \ {kernel_process} : reference_count'[p] > 0 <=> Registered(p)
      <4> TAKE p \in Pid \ {kernel_process}
      <4>1. reference_count[p] > 0 <=> Registered(p)
        BY <1>2 DEF ProcessesOK
      <4>2. reference_count[p] \in Nat /\ reference_count'[p] =
              reference_count[p] - (IF q = p /\ q # kernel_process THEN 1 ELSE 0)
        BY <1>4, <2>2
      <4>3. q = p => reference_count[p] >= 1 /\ reference_count[p] # 1
        BY <1>4, <1>5
      <4> QED BY <4>1, <4>2, <4>3
    <3> QED BY <1>1, <1>2, <2>1, <3>1 DEF ProcessesOK, Registered
  <2>6. CountsOK'
    <3> SUFFICES ASSUME NEW p \in Pid \ {kernel_process} PROVE CountOK(p)'
      BY DEF CountsOK
    <3>1. CountOK(p) /\ reference_count[p] \in Nat
      BY <1>2, <1>4 DEF CountsOK
    <3>2. /\ Taken(p, q, "release", RefOps) /\ Taken(p, q, "release", SpaceOps)
          /\ Taken(p, q, "release", DetachOps) /\ Taken(p, q, "release", FreeOps)
          /\ Taken(p, q, "release", BuildOps)
      BY <1>2, <1>3, <2>1, PopCounts
    <3>3. /\ Carried(p, RefOps)' = Carried(p, RefOps) - (IF q = p THEN 1 ELSE 0)
          /\ Carried(p, RefOps) \in Nat
          /\ Carried(p, SpaceOps)' = Carried(p, SpaceOps)
          /\ Carried(p, DetachOps)' = Carried(p, DetachOps)
          /\ Carried(p, FreeOps)' = Carried(p, FreeOps)
          /\ Carried(p, BuildOps)' = Carried(p, BuildOps)
      BY <3>2, OpTable DEF Taken
    <3>4. Links(p)' = Links(p) /\ Threads(p)' = Threads(p) /\ Spaces(p)' = Spaces(p)
          /\ (Registered(p)' <=> Registered(p))
      BY <1>1, <2>1 DEF Links, Threads, Spaces, Registered, taskVars
    <3>5. UNCHANGED <<state, live_threads, space_refs>>
      BY <1>1, <2>1 DEF spaceVars
    <3>6. Links(p) \in Nat /\ Threads(p) \in Nat
      BY CountTypes
    <3>7. reference_count'[p] = Links(p)' + (Threads(p)' + Carried(p, RefOps)')
      <4>1. reference_count'[p] = reference_count[p] - (IF q = p THEN 1 ELSE 0)
        BY <2>2
      <4>2. reference_count[p] = Links(p) + (Threads(p) + Carried(p, RefOps))
        BY <3>1 DEF CountOK
      <4> QED BY <3>1, <3>3, <3>4, <3>6, <4>1, <4>2
    <3> QED BY <3>1, <3>3, <3>4, <3>5, <3>7 DEF CountOK
  <2> QED BY <2>3, <2>4, <2>5, <2>6 DEF PInv
<1>6. CASE last
  <2> DEFINE f == F("space", q)
             g == F("free", q)
             s == <<f, g>> \o Tail(todo[a])
  <2>1. /\ todo' = [todo EXCEPT ![a] = <<f, g>> \o Tail(@)]
        /\ state' = [state EXCEPT ![q] = "DEAD"] /\ live_processes' = live_processes - 1
    BY <1>6 DEF process_release, Then
  <2>2. f \in Frame /\ f.op = "space" /\ f.p = q /\ g \in Frame /\ g.op = "free" /\ g.p = q
    BY <1>3, FrameFacts
  <2>3. q \in Pid \ {kernel_process} /\ Registered(q) /\ reference_count[q] = 1
    BY <1>2, <1>3, <1>6 DEF ProcessesOK
  <2>4. /\ live_processes >= 1 /\ live_processes \in Nat
        /\ live_processes - 1 = Cardinality({p \in Pid : Registered(p)'})
        /\ \A p \in Pid : Registered(p)' <=> Registered(p) /\ p # q
    BY <1>2, <2>1, <2>3, Unregister
  <2>5. /\ panic' = panic /\ reference_count' \in [Pid -> Nat]
        /\ \A p \in Pid : reference_count'[p] = IF q = p THEN 0 ELSE reference_count[p]
    <3>1. reference_count[q] # 0 /\ reference_count[q] - 1 = 0 /\ live_processes # 0
      BY <2>3, <2>4
    <3>2. /\ reference_count' = [reference_count EXCEPT ![q] = IF @ = 0 THEN 0 ELSE @ - 1]
          /\ panic' = IF reference_count[q] = 0 THEN "reference-count underflow"
                      ELSE IF last /\ live_processes = 0 THEN "live-process count underflow"
                      ELSE panic
      BY <1>6, Zenon DEF process_release
    <3>3. panic' = panic
      BY <3>1, <3>2, Zenon
    <3>4. reference_count' = [reference_count EXCEPT ![q] = 0]
      BY <3>1, <3>2, Zenon
    <3> QED BY <1>3, <1>4, <3>3, <3>4
  <2>6. VarTypes' /\ NoBadPanic'
    <3>1. state' \in [Pid -> {"UNBORN", "NEW", "RUNNING", "EXITING", "ZOMBIE", "DEAD", "FREED"}]
      BY <1>2, <2>1 DEF VarTypes
    <3>2. live_processes' \in Nat
      BY <2>1, <2>4
    <3> QED BY <1>1, <1>2, <2>5, <3>1, <3>2 DEF VarTypes, NoBadPanic, spaceVars, taskVars
  <2>7. /\ Links(q) = 0 /\ Threads(q) = 0 /\ Carried(q, RefOps) = 1
        /\ live_threads[q] = 0 /\ Carried(q, DetachOps) = 0
        /\ \A b \in Actor : \A i \in 1..Len(todo[b]) :
              todo[b][i].p = q => todo[b][i].op \notin MakeOps \cup DetachOps
    BY <1>3, <2>3, OnlyRef
  <2>8. Split(a, s, q)
    BY <1>3, <2>3, SplitList
  <2>9. todo' = [todo EXCEPT ![a] = s]
    BY <1>2, <2>1 DEF ListTypes
  <2>10. /\ ListTypes'
         /\ \A p, ops : Changed(Carried(p, ops), Carried(p, ops)',
                                One(f, {p}, ops) + One(g, {p}, ops), One(todo[a][1], {p}, ops))
    <3> HIDE DEF f, g
    <3>1. f.op # "release" /\ g.op # "release"
      BY <2>2
    <3> QED BY <1>2, <1>3, <2>1, <2>2, <3>1, CarriedSplit
  <2> HIDE DEF s, f, g
  <2>11. Shapes' /\ FramesOK' /\ PublishOnce' /\ TasksOK'
    <3>1. todo'[a] = s /\ \A b \in Actor \ {a} : todo'[b] = todo[b]
      BY <1>2, <2>9 DEF ListTypes
    <3>2. \A b \in Actor : \A i \in 1..Len(todo'[b]) :
             todo'[b][i].op \in MakeOps /\ state[todo'[b][i].p] = "NEW"
                => state'[todo'[b][i].p] = "NEW"
      <4> TAKE b \in Actor
      <4> TAKE i \in 1..Len(todo'[b])
      <4> HAVE todo'[b][i].op \in MakeOps /\ state[todo'[b][i].p] = "NEW"
      <4>1. PICK j \in 1..Len(todo[b]) : todo[b][j] = todo'[b][i]
        <5>1. CASE b = a
          BY <2>8, <3>1, <5>1 DEF Split
        <5>2. CASE b # a
          BY <3>1, <5>2
        <5> QED BY <5>1, <5>2
      <4>2. todo[b][j].p # q
        BY <2>7, <4>1
      <4> QED BY <1>2, <2>1, <4>1, <4>2, SMTT(30) DEF VarTypes
    <3> QED BY <1>1, <1>3, <2>8, <2>9, <3>2, QuietStep DEF Split, taskVars
  <2>12. ProcessesOK'
    <3>1. state'[kernel_process] = "RUNNING"
      BY <1>2, <2>1, <2>3, KernelPid DEF ProcessesOK, VarTypes
    <3>2. \A p \in Pid : state'[p] = "UNBORN" <=> state[p] = "UNBORN"
      BY <1>2, <2>1, <2>3 DEF VarTypes, Registered
    <3>3. \A p \in Pid \ {kernel_process} : reference_count'[p] > 0 <=> Registered(p)'
      BY <1>2, <2>4, <2>5 DEF ProcessesOK
    <3>4. live_processes' = Cardinality({p \in Pid : Registered(p)})'
      BY <2>1, <2>4
    <3> QED BY <1>1, <1>2, <3>1, <3>2, <3>3, <3>4 DEF ProcessesOK
  <2>13. CountsOK'
    <3> SUFFICES ASSUME NEW p \in Pid \ {kernel_process} PROVE CountOK(p)'
      BY DEF CountsOK
    <3>1. CountOK(p) /\ space_refs[p] \in Nat
      BY <1>2 DEF CountsOK, VarTypes
    <3>2. \A ops : /\ One(todo[a][1], {p}, ops) = IF q = p /\ "release" \in ops THEN 1 ELSE 0
                   /\ One(f, {p}, ops) = IF q = p /\ "space" \in ops THEN 1 ELSE 0
                   /\ One(g, {p}, ops) = IF q = p /\ "free" \in ops THEN 1 ELSE 0
      BY <1>3, <2>2 DEF One
    <3>3. /\ Carried(p, RefOps)' = Carried(p, RefOps) - (IF q = p THEN 1 ELSE 0)
          /\ Carried(p, RefOps) \in Nat
          /\ Carried(p, SpaceOps)' = Carried(p, SpaceOps) + (IF q = p THEN 1 ELSE 0)
          /\ Carried(p, SpaceOps) \in Nat
          /\ Carried(p, DetachOps)' = Carried(p, DetachOps)
          /\ Carried(p, FreeOps)' = Carried(p, FreeOps) + (IF q = p THEN 1 ELSE 0)
          /\ Carried(p, FreeOps) \in Nat
          /\ Carried(p, BuildOps)' = Carried(p, BuildOps)
      <4>1. /\ Changed(Carried(p, RefOps), Carried(p, RefOps)', One(f, {p}, RefOps) + One(g, {p}, RefOps), One(todo[a][1], {p}, RefOps))
            /\ Changed(Carried(p, SpaceOps), Carried(p, SpaceOps)', One(f, {p}, SpaceOps) + One(g, {p}, SpaceOps), One(todo[a][1], {p}, SpaceOps))
            /\ Changed(Carried(p, DetachOps), Carried(p, DetachOps)', One(f, {p}, DetachOps) + One(g, {p}, DetachOps), One(todo[a][1], {p}, DetachOps))
            /\ Changed(Carried(p, FreeOps), Carried(p, FreeOps)', One(f, {p}, FreeOps) + One(g, {p}, FreeOps), One(todo[a][1], {p}, FreeOps))
            /\ Changed(Carried(p, BuildOps), Carried(p, BuildOps)', One(f, {p}, BuildOps) + One(g, {p}, BuildOps), One(todo[a][1], {p}, BuildOps))
        BY <2>10
      <4>2. /\ One(f, {p}, RefOps) = 0 /\ One(g, {p}, RefOps) = 0 /\ One(todo[a][1], {p}, RefOps) = (IF q = p THEN 1 ELSE 0)
            /\ One(f, {p}, SpaceOps) = (IF q = p THEN 1 ELSE 0) /\ One(g, {p}, SpaceOps) = 0 /\ One(todo[a][1], {p}, SpaceOps) = 0
            /\ One(f, {p}, DetachOps) = 0 /\ One(g, {p}, DetachOps) = 0 /\ One(todo[a][1], {p}, DetachOps) = 0
            /\ One(f, {p}, FreeOps) = 0 /\ One(g, {p}, FreeOps) = (IF q = p THEN 1 ELSE 0) /\ One(todo[a][1], {p}, FreeOps) = 0
            /\ One(f, {p}, BuildOps) = 0 /\ One(g, {p}, BuildOps) = 0 /\ One(todo[a][1], {p}, BuildOps) = 0
        BY <3>2, OpTable
      <4> QED BY <4>1, <4>2 DEF Changed
    <3>4. Links(p)' = Links(p) /\ Threads(p)' = Threads(p) /\ Spaces(p)' = Spaces(p)
      BY <1>1 DEF Links, Threads, Spaces, taskVars
    <3>5. UNCHANGED <<live_threads, space_refs>>
      BY <1>1 DEF spaceVars
    <3>6. CASE p # q
      <4>1. /\ Carried(p, RefOps)' = Carried(p, RefOps) /\ Carried(p, SpaceOps)' = Carried(p, SpaceOps)
            /\ Carried(p, FreeOps)' = Carried(p, FreeOps)
        BY <3>3, <3>6
      <4>2. state'[p] = state[p] /\ (Registered(p)' <=> Registered(p))
            /\ reference_count'[p] = reference_count[p]
        BY <1>2, <2>1, <2>4, <2>5, <3>6 DEF VarTypes
      <4> QED BY <3>1, <3>3, <3>4, <3>5, <4>1, <4>2 DEF CountOK
    <3>7. CASE p = q
      <4>1. state'[p] = "DEAD" /\ ~Registered(p)' /\ Registered(p) /\ reference_count'[p] = 0
        BY <1>2, <2>1, <2>3, <2>4, <2>5, <3>7 DEF VarTypes
      <4>2. reference_count'[p] = Links(p)' + (Threads(p)' + Carried(p, RefOps)')
        <5>1. Links(p) = 0 /\ Threads(p) = 0 /\ Carried(p, RefOps) = 1
          BY <2>7, <3>7
        <5> QED BY <3>3, <3>4, <3>7, <4>1, <5>1
      <4>3. space_refs'[p] = (IF Registered(p)' THEN 1 ELSE 0) + (Spaces(p)' + Carried(p, SpaceOps)')
        <5>1. space_refs[p] = 1 + (Spaces(p) + Carried(p, SpaceOps)) /\ Spaces(p) \in Nat
          BY <3>1, <4>1, CountTypes DEF CountOK
        <5>2. Carried(p, SpaceOps)' = Carried(p, SpaceOps) + 1 /\ Carried(p, SpaceOps) \in Nat
          BY <3>3, <3>7
        <5>3. space_refs[p] = 0 + (Spaces(p) + Carried(p, SpaceOps)')
          BY <5>1, <5>2
        <5> QED BY <3>4, <3>5, <4>1, <5>3
      <4>4. Carried(p, FreeOps)' <= (IF state'[p] = "DEAD" THEN 1 ELSE 0)
        <5>1. state[p] # "DEAD"
          BY <4>1 DEF Registered
        <5>2. Carried(p, FreeOps) <= 0
          BY <3>1, <5>1 DEF CountOK
        <5>3. Carried(p, FreeOps)' = Carried(p, FreeOps) + 1
          BY <3>3, <3>7
        <5> QED BY <3>3, <4>1, <5>2, <5>3
      <4>5. live_threads[p] = 0
        BY <2>7, <3>7
      <4>6. live_threads'[p] = Threads(p)' + Carried(p, DetachOps)'
            /\ (state'[p] = "RUNNING" <=> live_threads'[p] > 0)
        BY <3>1, <3>3, <3>4, <3>5, <4>1, <4>5 DEF CountOK
      <4> QED BY <4>1, <4>2, <4>3, <4>4, <4>6 DEF CountOK
    <3> QED BY <3>6, <3>7
  <2> QED BY <2>6, <2>10, <2>11, <2>12, <2>13 DEF PInv
<1> QED BY <1>5, <1>6

\* process_thread_detach: the thread is still counted; the last one makes a zombie.
LEMMA DetachInv ==
    ASSUME PInv, NEW a \in Actor, process_thread_detach(a) PROVE PInv'
<1> DEFINE q == P(a)
<1>1. /\ At(a, "detach") /\ todo' = [todo EXCEPT ![a] = <<>> \o Tail(@)]
      /\ UNCHANGED <<reference_count, parent_id, children, exit_status, regVars, held,
                     spaceVars, taskVars>>
  BY DEF process_thread_detach, Then
<1>2. VarTypes /\ ListTypes /\ CountsOK /\ ProcessesOK /\ NoBadPanic
  BY DEF PInv
<1>3. /\ todo[a] # <<>> /\ todo[a][1].op = "detach" /\ todo[a][1].p = q /\ q \in Pid
      /\ FrameOK(a, todo[a][1]) /\ 1 \in 1..Len(todo[a])
  BY <1>1, HeadFacts
<1>4. q \in Pid \ {kernel_process}
  BY <1>3 DEF FrameOK
<1>5. /\ live_threads \in [Pid -> Nat] /\ live_threads[q] \in Nat /\ live_threads[q] >= 1
      /\ state[q] = "RUNNING"
  <2>1. Carried(q, DetachOps) >= 1
    BY <1>2, <1>3, CarriedSome, OpTable
  <2>2. CountOK(q) /\ live_threads \in [Pid -> Nat] /\ live_threads[q] \in Nat
    BY <1>2, <1>4 DEF CountsOK, VarTypes
  <2>3. Carried(q, DetachOps) \in Nat /\ Threads(q) \in Nat
    BY CarriedType, CountTypes
  <2>4. live_threads[q] = Threads(q) + Carried(q, DetachOps)
    BY <2>2 DEF CountOK
  <2>5. live_threads[q] >= 1 /\ live_threads[q] > 0
    BY <2>1, <2>2, <2>3, <2>4
  <2> QED BY <2>2, <2>5 DEF CountOK
<1>6. /\ panic' = panic /\ live_threads' \in [Pid -> Nat]
      /\ \A p \in Pid : live_threads'[p] = live_threads[p] - (IF q = p THEN 1 ELSE 0)
  <2>1. /\ live_threads' = [live_threads EXCEPT ![q] = IF @ = 0 THEN 0 ELSE @ - 1]
        /\ panic' = IF live_threads[q] = 0 THEN "thread-count underflow" ELSE panic
    BY Zenon DEF process_thread_detach
  <2>2. live_threads[q] # 0 /\ live_threads[q] - 1 \in Nat
    BY <1>5
  <2>3. panic' = panic
    BY <2>1, <2>2, Zenon
  <2>4. live_threads' = [live_threads EXCEPT ![q] = live_threads[q] - 1]
    BY <2>1, <2>2, Zenon
  <2> QED BY <1>3, <1>5, <2>2, <2>3, <2>4
<1>7. /\ state' = [state EXCEPT ![q] = IF live_threads[q] = 1 THEN "ZOMBIE" ELSE "RUNNING"]
      /\ state \in [Pid -> {"UNBORN", "NEW", "RUNNING", "EXITING", "ZOMBIE", "DEAD", "FREED"}]
  BY <1>2, <1>5 DEF process_thread_detach, LastDetach, VarTypes
<1> HIDE DEF q
<1>8. \A p \in Pid : state'[p] = IF p = q THEN (IF live_threads[q] = 1 THEN "ZOMBIE" ELSE "RUNNING")
                                 ELSE state[p]
  BY <1>3, <1>7
<1>9. /\ state' \in [Pid -> {"UNBORN", "NEW", "RUNNING", "EXITING", "ZOMBIE", "DEAD", "FREED"}]
      /\ \A p \in Pid : Registered(p)' <=> Registered(p)
      /\ \A p \in Pid : \A v \in {"UNBORN", "NEW", "DEAD"} : state'[p] = v <=> state[p] = v
  BY <1>5, <1>7, <1>8 DEF Registered
<1>10. VarTypes' /\ NoBadPanic'
  BY <1>1, <1>2, <1>6, <1>9 DEF VarTypes, NoBadPanic, regVars, spaceVars, taskVars
<1>11. ListTypes' /\ Shapes' /\ FramesOK' /\ PublishOnce' /\ TasksOK'
  <2>1. \A b \in Actor : \A i \in 1..Len(todo[b]) :
           todo[b][i].op \in MakeOps /\ state[todo[b][i].p] = "NEW"
              => state'[todo[b][i].p] = "NEW"
    <3>1. \A b \in Actor : \A i \in 1..Len(todo[b]) : todo[b][i].p \in Pid
      <4>1. \A b \in Actor : todo[b] \in Seq(Frame)
        BY <1>2 DEF ListTypes
      <4>2. \A g \in Frame : g.p \in Pid
        BY DEF Frame
      <4>3. \A b \in Actor : \A i \in 1..Len(todo[b]) : todo[b][i] \in Frame
        BY <4>1
      <4> QED BY <4>2, <4>3
    <3> QED BY <1>9, <3>1
  <2> QED BY <1>1, <1>3, <2>1, PopStep DEF Poppable, regVars, taskVars
<1>12. ProcessesOK'
  <2>1. state'[kernel_process] = "RUNNING"
    BY <1>2, <1>4, <1>8, KernelPid DEF ProcessesOK
  <2>2. {p \in Pid : Registered(p)}' = {p \in Pid : Registered(p)}
    BY <1>9
  <2> QED BY <1>1, <1>2, <1>9, <2>1, <2>2 DEF ProcessesOK, regVars
<1>13. CountsOK'
  <2> SUFFICES ASSUME NEW p \in Pid \ {kernel_process} PROVE CountOK(p)'
    BY DEF CountsOK
  <2>1. CountOK(p) /\ live_threads[p] \in Nat
    BY <1>2, <1>5 DEF CountsOK
  <2>2. /\ Taken(p, q, "detach", RefOps) /\ Taken(p, q, "detach", SpaceOps)
        /\ Taken(p, q, "detach", DetachOps) /\ Taken(p, q, "detach", FreeOps)
        /\ Taken(p, q, "detach", BuildOps)
    BY <1>1, <1>2, <1>3, PopCounts
  <2>3. /\ Carried(p, RefOps)' = Carried(p, RefOps)
        /\ Carried(p, SpaceOps)' = Carried(p, SpaceOps)
        /\ Carried(p, DetachOps)' = Carried(p, DetachOps) - (IF q = p THEN 1 ELSE 0)
        /\ Carried(p, DetachOps) \in Nat
        /\ Carried(p, FreeOps)' = Carried(p, FreeOps)
        /\ Carried(p, BuildOps)' = Carried(p, BuildOps)
    BY <2>2, OpTable DEF Taken
  <2>4. Links(p)' = Links(p) /\ Threads(p)' = Threads(p) /\ Spaces(p)' = Spaces(p)
        /\ (Registered(p)' <=> Registered(p))
    BY <1>1, <1>9 DEF Links, Threads, Spaces, taskVars
  <2>5. UNCHANGED <<reference_count, space_refs>>
    BY <1>1 DEF spaceVars
  <2>6. live_threads'[p] = Threads(p)' + Carried(p, DetachOps)'
    <3>1. live_threads[p] = Threads(p) + Carried(p, DetachOps) /\ Threads(p) \in Nat
      BY <2>1, CountTypes DEF CountOK
    <3>2. live_threads'[p] = live_threads[p] - (IF q = p THEN 1 ELSE 0)
      BY <1>6
    <3> QED BY <2>1, <2>3, <2>4, <3>1, <3>2
  <2>7. state'[p] = "RUNNING" <=> live_threads'[p] > 0
    <3>1. live_threads'[p] = live_threads[p] - (IF q = p THEN 1 ELSE 0)
      BY <1>6
    <3>2. CASE p = q
      <4>1. live_threads'[p] > 0 <=> live_threads[q] # 1
        BY <1>5, <3>1, <3>2
      <4>2. state'[p] = "RUNNING" <=> live_threads[q] # 1
        BY <1>8, <3>2
      <4> QED BY <4>1, <4>2
    <3>3. CASE p # q
      <4>1. live_threads'[p] = live_threads[p] /\ state'[p] = state[p]
        BY <1>8, <2>1, <3>1, <3>3
      <4> QED BY <2>1, <4>1 DEF CountOK
    <3> QED BY <3>2, <3>3
  <2>8. (state'[p] = "NEW" <=> state[p] = "NEW") /\ (state'[p] = "DEAD" <=> state[p] = "DEAD")
    BY <1>9
  <2> QED BY <2>1, <2>3, <2>4, <2>5, <2>6, <2>7, <2>8 DEF CountOK
<1> QED BY <1>10, <1>11, <1>12, <1>13 DEF PInv

\* An idle caller gets a list of one frame.
LEMMA FreshStep ==
    ASSUME ListTypes, NEW a \in Actor, todo[a] = <<>>, NEW f \in Frame, NEW s, s = <<f>>,
           todo' = [todo EXCEPT ![a] = s], NEW p, NEW ops
    PROVE  Changed(Carried(p, ops), Carried(p, ops)', One(f, {p}, ops), 0)
<1>1. s \in Seq(Frame)
  OBVIOUS
<1>2. Changed(Carried(p, ops), Carried(p, ops)', Num(s, {p}, ops), Num(todo[a], {p}, ops))
  BY <1>1, CarriedStep
<1>3. Num(todo[a], {p}, ops) = 0 /\ Num(s, {p}, ops) = One(f, {p}, ops)
  BY Num0, Num1
<1> QED BY <1>2, <1>3

\* process_waitpid: the link gives its reference to the caller.
LEMMA WaitpidInv ==
    ASSUME PInv, NEW a \in Task, NEW q \in Pid, process_waitpid(a, q) PROVE PInv'
<1> DEFINE r == tproc[a]
           f == F("release", q)
           s == <<f>>
<1>1. /\ todo[a] = <<>> /\ tstate[a] = "ALIVE" /\ q \in children[r] /\ state[q] = "ZOMBIE"
      /\ children' = [children EXCEPT ![r] = @ \ {q}]
      /\ todo' = [todo EXCEPT ![a] = s]
      /\ UNCHANGED <<state, reference_count, live_threads, parent_id, exit_status,
                     regVars, held, spaceVars, taskVars, panic>>
  BY DEF process_waitpid, Ready
<1>2. VarTypes /\ ListTypes /\ CountsOK /\ ProcessesOK /\ NoBadPanic /\ TasksOK
  BY DEF PInv
<1>3. a \in Actor /\ a # reaper
  BY ProcessAssumption DEF Actor
<1>4. r \in Pid
  <2>1. r \in 2..(next_process_id - 1) /\ next_process_id \in 2..(MaxPid + 1)
    BY <1>1, <1>2 DEF TasksOK, TaskOK, Being, VarTypes
  <2> QED BY <2>1, KernelPid DEF Pid
<1>5. q # kernel_process /\ q < next_process_id
  BY <1>1, <1>2, <1>4 DEF ProcessesOK
<1>6. f \in Frame /\ f.op = "release" /\ f.p = q /\ FrameOK(a, f)
  BY <1>5, FrameFacts DEF FrameOK
<1> HIDE DEF f
<1>7. s \in Seq(Frame) /\ s # <<>> /\ Len(s) = 1 /\ s[1] = f
  BY <1>6
<1>8. ListTypes' /\ \A ps, ops : Num(s, ps, ops) = One(f, ps, ops)
  <2>1. \A ps, ops : Num(s, ps, ops) = One(f, ps, ops)
    BY <1>6, Num1
  <2> HIDE DEF s
  <2>2. One(f, Pid, {"release"}) = 1
    BY <1>6 DEF One
  <2>3. Len(s) + Num(s, Pid, {"release"}) <= 8
    BY <1>7, <2>1, <2>2
  <2> QED BY <1>1, <1>2, <1>3, <1>7, <2>1, <2>3, ListStep
<1>9. \A p, ops : Changed(Carried(p, ops), Carried(p, ops)', One(f, {p}, ops), 0)
  BY <1>1, <1>2, <1>3, <1>6, FreshStep
<1> HIDE DEF s, r
<1>10. Shape(a, s) /\ ListOK(a, s) /\ Inherits(a, s)
  BY <1>1, <1>3, <1>6, <1>7 DEF Shape, ListOK, Inherits, FirstOps, LastOps
<1>11. Shapes' /\ FramesOK' /\ PublishOnce' /\ TasksOK'
  BY <1>1, <1>3, <1>7, <1>10, QuietStep DEF regVars, taskVars
<1>12. children \in [Pid -> SUBSET Pid] /\ children' \in [Pid -> SUBSET Pid]
  BY <1>1, <1>2, <1>4 DEF VarTypes
<1>13. VarTypes' /\ NoBadPanic'
  BY <1>1, <1>2, <1>12 DEF VarTypes, NoBadPanic, regVars, spaceVars, taskVars
<1>14. ProcessesOK'
  <2>1. \A p, x \in Pid : p \in children'[x] => p < next_process_id
    BY <1>1, <1>2, <1>4, <1>12 DEF ProcessesOK
  <2> QED BY <1>1, <1>2, <2>1 DEF ProcessesOK, Registered, regVars
<1>15. \A p \in Pid : Links(p)' = Links(p) - (IF q = p THEN 1 ELSE 0)
  BY <1>1, <1>4, <1>12, UnlinkStep
<1>16. CountsOK'
  <2> SUFFICES ASSUME NEW p \in Pid \ {kernel_process} PROVE CountOK(p)'
    BY DEF CountsOK
  <2>1. CountOK(p)
    BY <1>2 DEF CountsOK
  <2>2. \A ops : One(f, {p}, ops) = IF q = p /\ "release" \in ops THEN 1 ELSE 0
    BY <1>6, HeadOne
  <2>3. /\ Carried(p, RefOps)' = Carried(p, RefOps) + (IF q = p THEN 1 ELSE 0)
        /\ Carried(p, RefOps) \in Nat
        /\ Carried(p, SpaceOps)' = Carried(p, SpaceOps)
        /\ Carried(p, DetachOps)' = Carried(p, DetachOps)
        /\ Carried(p, FreeOps)' = Carried(p, FreeOps)
        /\ Carried(p, BuildOps)' = Carried(p, BuildOps)
    <3>1. /\ Changed(Carried(p, RefOps), Carried(p, RefOps)', One(f, {p}, RefOps), 0)
          /\ Changed(Carried(p, SpaceOps), Carried(p, SpaceOps)', One(f, {p}, SpaceOps), 0)
          /\ Changed(Carried(p, DetachOps), Carried(p, DetachOps)', One(f, {p}, DetachOps), 0)
          /\ Changed(Carried(p, FreeOps), Carried(p, FreeOps)', One(f, {p}, FreeOps), 0)
          /\ Changed(Carried(p, BuildOps), Carried(p, BuildOps)', One(f, {p}, BuildOps), 0)
      BY <1>9
    <3>2. /\ One(f, {p}, RefOps) = (IF q = p THEN 1 ELSE 0)
          /\ One(f, {p}, SpaceOps) = 0
          /\ One(f, {p}, DetachOps) = 0
          /\ One(f, {p}, FreeOps) = 0
          /\ One(f, {p}, BuildOps) = 0
      BY <2>2, OpTable
    <3> QED BY <3>1, <3>2 DEF Changed
  <2>4. Threads(p)' = Threads(p) /\ Spaces(p)' = Spaces(p) /\ (Registered(p)' <=> Registered(p))
    BY <1>1 DEF Threads, Spaces, Registered, taskVars
  <2>5. UNCHANGED <<state, reference_count, live_threads, space_refs>>
    BY <1>1 DEF spaceVars
  <2>6. Links(p) \in Nat /\ Threads(p) \in Nat
    BY CountTypes
  <2>7. reference_count'[p] = Links(p)' + (Threads(p)' + Carried(p, RefOps)')
    BY <1>15, <2>1, <2>3, <2>4, <2>5, <2>6 DEF CountOK
  <2> QED BY <2>1, <2>3, <2>4, <2>5, <2>7 DEF CountOK
<1> QED BY <1>8, <1>11, <1>13, <1>14, <1>16 DEF PInv

\* The first thing a new task does touches nothing of this.
LEMMA EntryInv ==
    ASSUME PInv, NEW t \in Task, task_entry(t) PROVE PInv'
<1>1. UNCHANGED <<procVars, regVars, spaceVars, taskVars, todo, panic>>
  BY DEF task_entry
<1>2. VarTypes' /\ ListTypes' /\ NoBadPanic' /\ PublishOnce'
  BY <1>1 DEF PInv, VarTypes, ListTypes, NoBadPanic, PublishOnce, Num, Ind, procVars, regVars, spaceVars, taskVars
<1>3. Shapes' /\ FramesOK' /\ TasksOK'
  BY <1>1 DEF PInv, Shapes, Shape, Threaded, FramesOK, ListOK, FrameOK, TasksOK, TaskOK, Being,
              Reaping, procVars, regVars, taskVars
<1>4. ProcessesOK'
  BY <1>1, SameProcesses DEF PInv, procVars, regVars
<1>5. CountsOK'
  <2>1. \A p, ops : Carried(p, ops)' = Carried(p, ops)
    BY <1>1 DEF Carried
  <2> QED BY <1>1, <2>1, SameCounts DEF PInv, procVars, spaceVars, taskVars
<1> QED BY <1>2, <1>3, <1>4, <1>5 DEF PInv

\* Nobody knows a process that does not exist yet.
LEMMA UnbornFacts ==
    ASSUME PInv, NEW n \in Pid, n = next_process_id
    PROVE  /\ n # kernel_process /\ state[n] = "UNBORN" /\ ~Registered(n)
           /\ Links(n) = 0 /\ Threads(n) = 0 /\ Spaces(n) = 0 /\ live_threads[n] = 0
           /\ Carried(n, RefOps) = 0 /\ Carried(n, SpaceOps) = 0 /\ Carried(n, DetachOps) = 0
           /\ Carried(n, FreeOps) = 0 /\ Carried(n, BuildOps) = 0
<1>1. VarTypes /\ ListTypes /\ FramesOK /\ TasksOK /\ ProcessesOK /\ CountsOK
  BY DEF PInv
<1>2. next_process_id \in 2..(MaxPid + 1) /\ MaxPid \in Nat
  BY <1>1, KernelPid DEF VarTypes
<1>3. n # kernel_process /\ state[n] = "UNBORN" /\ ~Registered(n)
  BY <1>1, <1>2 DEF ProcessesOK, Registered, kernel_process
<1>4. reference_count[n] = 0 /\ CountOK(n)
  <2>1. reference_count[n] \in Nat /\ ~(reference_count[n] > 0)
    BY <1>1, <1>3 DEF VarTypes, ProcessesOK
  <2> QED BY <1>1, <1>3, <2>1 DEF CountsOK
<1>5. Links(n) = 0 /\ Threads(n) = 0
  <2>1. Links(n) \in Nat /\ Threads(n) \in Nat /\ Carried(n, RefOps) \in Nat
    BY CountTypes, CarriedType
  <2>2. 0 = Links(n) + (Threads(n) + Carried(n, RefOps))
    BY <1>4 DEF CountOK
  <2> QED BY <2>1, <2>2
<1>6. \A a \in Actor : \A i \in 1..Len(todo[a]) : todo[a][i].p # n
  <2> SUFFICES ASSUME NEW a \in Actor, NEW i \in 1..Len(todo[a]), todo[a][i].p = n PROVE FALSE
    OBVIOUS
  <2>1. n < next_process_id
    BY <1>1 DEF FramesOK, ListOK, FrameOK
  <2> QED BY <1>2, <2>1
<1>7. \A ops : Carried(n, ops) = 0
  BY <1>1, <1>6, CarriedNone
<1>8. Spaces(n) = 0
  <2>1. ASSUME NEW t \in Task PROVE tspace[t] # n
    <3>1. TaskOK(t) /\ tstate[t] \in {"UNUSED", "NEW", "ALIVE", "ZOMBIE"}
      BY <1>1 DEF TasksOK, VarTypes
    <3>2. tspace[t] = 0 \/ tspace[t] \in 2..(next_process_id - 1)
      BY <3>1 DEF TaskOK, Being, Reaping
    <3> QED BY <1>2, <3>2
  <2>2. {t \in Task : tspace[t] = n} = {}
    BY <2>1
  <2> QED BY <2>2, FS_EmptySet DEF Spaces
<1>9. live_threads[n] = 0
  BY <1>4, <1>5, <1>7 DEF CountOK
<1> QED BY <1>3, <1>5, <1>7, <1>8, <1>9

\* process_create registers a process nobody else knows of.
LEMMA CreateInv ==
    ASSUME PInv, NEW a \in Actor, process_create(a) PROVE PInv'
<1> DEFINE r == IF a \in Task THEN tproc[a] ELSE kernel_process
<1>0. PICK n \in Pid : n = next_process_id
  BY DEF process_create
<1>f. PICK f \in Frame : f = F("acquire", n)
  BY FrameFacts
<1>s. PICK s \in Seq(Frame) : s = <<f>>
  <2>1. <<f>> \in Seq(Frame)
    OBVIOUS
  <2> QED BY <2>1, Zenon
<1>1. /\ At(a, "create") /\ n \in Pid
      /\ state' = [state EXCEPT ![n] = "NEW"]
      /\ reference_count' = [reference_count EXCEPT ![n] = 1]
      /\ parent_id' = [parent_id EXCEPT ![n] = r]
      /\ space_refs' = [space_refs EXCEPT ![n] = 2]
      /\ stack_slots' = [stack_slots EXCEPT ![n] = 1]
      /\ next_process_id' = n + 1
      /\ live_processes' = live_processes + 1
      /\ todo' = [todo EXCEPT ![a] = s]
      /\ UNCHANGED <<live_threads, children, exit_status, taskVars, panic>>
  BY <1>0, <1>f, <1>s DEF process_create
<1>2. VarTypes /\ ListTypes /\ CountsOK /\ ProcessesOK /\ NoBadPanic /\ TasksOK /\ Shapes
      /\ FramesOK /\ PublishOnce
  BY DEF PInv
<1>3. /\ todo[a] = <<todo[a][1]>> /\ todo[a][1] \in Frame /\ todo[a][1].op = "create"
      /\ Shape(a, todo[a]) /\ Len(todo[a]) = 1
  BY <1>1, HeadFacts DEF LastOps
<1>4. a # reaper /\ (a \in Task => tstate[a] = "ALIVE")
  BY <1>3 DEF Shape
<1>5. next_process_id \in 2..(MaxPid + 1) /\ MaxPid \in Nat /\ n + 1 \in 2..(MaxPid + 1)
      /\ n = next_process_id
  BY <1>0, <1>1, <1>2, KernelPid DEF VarTypes, Pid
<1>6. r \in 1..(next_process_id - 1) /\ r \in 0..MaxPid
  <2>1. CASE a \in Task
    <3>1. tproc[a] \in 2..(next_process_id - 1)
      BY <1>2, <1>4, <2>1 DEF TasksOK, TaskOK, Being
    <3> QED BY <1>5, <2>1, <3>1
  <2>2. CASE a \notin Task
    BY <1>5, <2>2 DEF kernel_process
  <2> QED BY <2>1, <2>2
<1>7. /\ n # kernel_process /\ state[n] = "UNBORN" /\ ~Registered(n)
      /\ Links(n) = 0 /\ Threads(n) = 0 /\ Spaces(n) = 0 /\ live_threads[n] = 0
      /\ Carried(n, RefOps) = 0 /\ Carried(n, SpaceOps) = 0 /\ Carried(n, DetachOps) = 0
      /\ Carried(n, FreeOps) = 0 /\ Carried(n, BuildOps) = 0
  BY <1>0, UnbornFacts
<1>8. f \in Frame /\ f.op = "acquire" /\ f.p = n
  BY <1>f, FrameFacts
<1>9. s \in Seq(Frame) /\ s # <<>> /\ Len(s) = 1 /\ s[1] = f
  BY <1>s
<1>10. \A ps, ops : Num(s, ps, ops) = One(f, ps, ops)
  BY <1>s, Num1
<1> HIDE DEF r
<1>11. ListTypes'
  <2>1. One(f, Pid, {"release"}) = 0
    BY <1>8 DEF One
  <2>2. Len(s) + Num(s, Pid, {"release"}) <= 8
    BY <1>9, <1>10, <2>1
  <2> QED BY <1>1, <1>2, <1>9, <2>2, ListStep
<1>12. \A p, ops : Changed(Carried(p, ops), Carried(p, ops)', One(f, {p}, ops), One(todo[a][1], {p}, ops))
  <2> TAKE p, ops
  <2>1. Changed(Carried(p, ops), Carried(p, ops)', Num(s, {p}, ops), One(todo[a][1], {p}, ops))
    BY <1>1, <1>2, <1>3, <1>9, LoneStep
  <2> QED BY <1>10, <2>1
<1>13. VarTypes' /\ NoBadPanic'
  <2>1. Slots \in Nat /\ 1 \in 0..Slots
    BY ProcessAssumption
  <2>2. state' \in [Pid -> {"UNBORN", "NEW", "RUNNING", "EXITING", "ZOMBIE", "DEAD", "FREED"}]
    BY <1>1, <1>2 DEF VarTypes
  <2>3. reference_count' \in [Pid -> Nat] /\ space_refs' \in [Pid -> Nat]
    BY <1>1, <1>2 DEF VarTypes
  <2>4. parent_id' \in [Pid -> 0..MaxPid] /\ stack_slots' \in [Pid -> 0..Slots]
    BY <1>1, <1>2, <1>6, <2>1 DEF VarTypes
  <2>5. next_process_id' \in 2..(MaxPid + 1) /\ live_processes' \in Nat
    BY <1>1, <1>2, <1>5 DEF VarTypes
  <2> QED BY <1>1, <1>2, <2>2, <2>3, <2>4, <2>5 DEF VarTypes, NoBadPanic, taskVars
<1>14. \A p \in Pid : p # n => state'[p] = state[p] /\ parent_id'[p] = parent_id[p]
                               /\ reference_count'[p] = reference_count[p]
                               /\ space_refs'[p] = space_refs[p]
  BY <1>1, <1>2 DEF VarTypes
<1>15. /\ state'[n] = "NEW" /\ parent_id'[n] = r /\ reference_count'[n] = 1 /\ space_refs'[n] = 2
  BY <1>1, <1>2 DEF VarTypes
<1>16. Shapes' /\ FramesOK'
  <2>1. Shape(a, s)'
    BY <1>1, <1>4, <1>8, <1>9 DEF Shape, FirstOps, LastOps, taskVars
  <2>2. ListOK(a, s)'
    <3>1. n < n + 1 /\ r \in 1..((n + 1) - 1)
      BY <1>5, <1>6
    <3>2. FrameOK(a, f)'
      BY <1>1, <1>7, <1>8, <1>15, <3>1 DEF FrameOK
    <3> QED BY <1>9, <3>2 DEF ListOK
  <2>3. ASSUME NEW b \in Actor \ {a}, NEW u \in Seq(Frame), u = todo[b], u # <<>>,
               Shape(b, u), ListOK(b, u)
        PROVE  Shape(b, u)' /\ ListOK(b, u)'
    <3>1. ASSUME NEW i \in 1..Len(u) PROVE u[i].p \in Pid /\ u[i].p # n /\ u[i] \in Frame
      <4>1. u[i] \in Frame /\ u[i].p < next_process_id
        BY <2>3 DEF ListOK, FrameOK
      <4>2. u[i].p \in Pid
        BY <4>1 DEF Frame
      <4> QED BY <1>5, <4>1, <4>2 DEF Pid
    <3>2. 1 \in 1..Len(u)
      BY <2>3
    <3>3. parent_id'[u[1].p] = parent_id[u[1].p]
      BY <1>14, <3>1, <3>2
    <3>4. Shape(b, u)'
      BY <1>1, <2>3, <3>3 DEF Shape, Threaded, taskVars
    <3>5. ASSUME NEW i \in 1..Len(u) PROVE FrameOK(b, u[i])'
      <4>1. FrameOK(b, u[i])
        BY <2>3 DEF ListOK
      <4>2. state'[u[i].p] = state[u[i].p] /\ parent_id'[u[i].p] = parent_id[u[i].p]
        BY <1>14, <3>1
      <4>3. /\ u[i].p < next_process_id => u[i].p < next_process_id'
            /\ \A x \in 1..(next_process_id - 1) : x \in 1..(next_process_id' - 1)
        <5>1. u[i].p \in Int
          BY <3>1 DEF Pid
        <5> QED BY <1>1, <1>5, <5>1
      <4> QED BY <1>1, <4>1, <4>2, <4>3 DEF FrameOK, Threaded, taskVars
    <3> QED BY <3>4, <3>5 DEF ListOK
  <2> QED BY <1>1, <1>2, <1>9, <2>1, <2>2, <2>3, ListsStep
<1>17. PublishOnce'
  <2>1. \A i \in 1..Len(s) : s[i].op # "publish"
    BY <1>8, <1>9
  <2> QED BY <1>1, <1>2, <1>9, <2>1, PublishStep
<1>18. TasksOK'
  <2> SUFFICES ASSUME NEW t \in Task PROVE TaskOK(t)'
    BY DEF TasksOK
  <2>1. TaskOK(t)
    BY <1>2 DEF TasksOK
  <2>2. todo'[reaper] = todo[reaper]
    BY <1>1, <1>2, <1>4 DEF ListTypes, Actor
  <2>3. \A x \in 2..(next_process_id - 1) : x \in 2..(next_process_id' - 1)
    BY <1>1, <1>5
  <2>4. (Reaping(t) => Reaping(t)') /\ (Being(t) => Being(t)')
    BY <1>1, <2>2, <2>3 DEF Reaping, Being, taskVars
  <2> QED BY <1>1, <2>1, <2>3, <2>4 DEF TaskOK, taskVars
<1>19. \A p \in Pid : Registered(p)' <=> Registered(p) \/ p = n
  BY <1>7, <1>14, <1>15 DEF Registered
<1>20. ProcessesOK'
  <2>1. state'[kernel_process] = "RUNNING"
    BY <1>2, <1>7, <1>14, KernelPid DEF ProcessesOK
  <2>2. \A p \in Pid : state'[p] = "UNBORN" <=> p >= next_process_id'
    <3> TAKE p \in Pid
    <3>1. p \in Int /\ (state[p] = "UNBORN" <=> p >= next_process_id)
      BY <1>2 DEF ProcessesOK, Pid
    <3>2. CASE p = n
      BY <1>1, <1>5, <1>15, <3>1, <3>2
    <3>3. CASE p # n
      <4>1. p >= next_process_id' <=> p >= next_process_id
        BY <1>1, <1>5, <3>1, <3>3
      <4> QED BY <1>14, <3>1, <3>3, <4>1
    <3> QED BY <3>2, <3>3
  <2>3. \A p, x \in Pid : p \in children'[x] => p < next_process_id'
    <3>1. \A p \in Pid : p < next_process_id => p < next_process_id'
      BY <1>1, <1>5 DEF Pid
    <3> QED BY <1>1, <1>2, <3>1 DEF ProcessesOK
  <2>4. \A p \in Pid \ {kernel_process} : reference_count'[p] > 0 <=> Registered(p)'
    <3> TAKE p \in Pid \ {kernel_process}
    <3>1. CASE p = n
      BY <1>15, <1>19, <3>1
    <3>2. CASE p # n
      BY <1>2, <1>14, <1>19, <3>2 DEF ProcessesOK
    <3> QED BY <3>1, <3>2
  <2>5. live_processes' = Cardinality({p \in Pid : Registered(p)})'
    <3> DEFINE R == {p \in Pid : Registered(p)}
               S == {p \in Pid : Registered(p)'}
    <3>1. IsFiniteSet(R) /\ R \ {n} = S \ {n} /\ n \notin R /\ n \in S
      BY <1>1, <1>7, <1>19, Finite, FS_Subset
    <3>2. live_processes = Cardinality(R) /\ Cardinality({p \in Pid : Registered(p)})' = Cardinality(S)
      BY <1>2 DEF ProcessesOK
    <3> HIDE DEF R, S
    <3>3. /\ Cardinality(R) \in Nat /\ Cardinality(S) \in Nat
          /\ Cardinality(S) = (Cardinality(R) + (IF n \in S THEN 1 ELSE 0))
                              - (IF n \in R THEN 1 ELSE 0)
      BY <3>1, CardStep
    <3>4. Cardinality(S) = Cardinality(R) + 1
      BY <3>1, <3>3
    <3> QED BY <1>1, <3>2, <3>4
  <2> QED BY <2>1, <2>2, <2>3, <2>4, <2>5 DEF ProcessesOK
<1>21. CountsOK'
  <2> SUFFICES ASSUME NEW p \in Pid \ {kernel_process} PROVE CountOK(p)'
    BY DEF CountsOK
  <2>1. CountOK(p)
    BY <1>2 DEF CountsOK
  <2>2. \A ops : /\ One(f, {p}, ops) = IF n = p /\ "acquire" \in ops THEN 1 ELSE 0
                 /\ "create" \notin ops => One(todo[a][1], {p}, ops) = 0
    BY <1>3, <1>8 DEF One
  <2>3. /\ Carried(p, RefOps)' = Carried(p, RefOps) + (IF n = p THEN 1 ELSE 0)
        /\ Carried(p, SpaceOps)' = Carried(p, SpaceOps) + (IF n = p THEN 1 ELSE 0)
        /\ Carried(p, BuildOps)' = Carried(p, BuildOps) + (IF n = p THEN 1 ELSE 0)
        /\ Carried(p, DetachOps)' = Carried(p, DetachOps)
        /\ Carried(p, FreeOps)' = Carried(p, FreeOps)
        /\ Carried(p, RefOps) \in Nat /\ Carried(p, SpaceOps) \in Nat /\ Carried(p, BuildOps) \in Nat
    <3>1. /\ Changed(Carried(p, RefOps), Carried(p, RefOps)', One(f, {p}, RefOps), One(todo[a][1], {p}, RefOps))
          /\ Changed(Carried(p, SpaceOps), Carried(p, SpaceOps)', One(f, {p}, SpaceOps), One(todo[a][1], {p}, SpaceOps))
          /\ Changed(Carried(p, DetachOps), Carried(p, DetachOps)', One(f, {p}, DetachOps), One(todo[a][1], {p}, DetachOps))
          /\ Changed(Carried(p, FreeOps), Carried(p, FreeOps)', One(f, {p}, FreeOps), One(todo[a][1], {p}, FreeOps))
          /\ Changed(Carried(p, BuildOps), Carried(p, BuildOps)', One(f, {p}, BuildOps), One(todo[a][1], {p}, BuildOps))
      BY <1>12
    <3>2. /\ One(f, {p}, RefOps) = (IF n = p THEN 1 ELSE 0) /\ One(todo[a][1], {p}, RefOps) = 0
          /\ One(f, {p}, SpaceOps) = (IF n = p THEN 1 ELSE 0) /\ One(todo[a][1], {p}, SpaceOps) = 0
          /\ One(f, {p}, DetachOps) = 0 /\ One(todo[a][1], {p}, DetachOps) = 0
          /\ One(f, {p}, FreeOps) = 0 /\ One(todo[a][1], {p}, FreeOps) = 0
          /\ One(f, {p}, BuildOps) = (IF n = p THEN 1 ELSE 0) /\ One(todo[a][1], {p}, BuildOps) = 0
      BY <2>2, OpTable
    <3> QED BY <3>1, <3>2 DEF Changed
  <2>4. Links(p)' = Links(p) /\ Threads(p)' = Threads(p) /\ Spaces(p)' = Spaces(p)
    BY <1>1 DEF Links, Threads, Spaces, taskVars
  <2>5. live_threads' = live_threads
    BY <1>1
  <2>6. CASE p # n
    <3>1. /\ Carried(p, RefOps)' = Carried(p, RefOps) /\ Carried(p, SpaceOps)' = Carried(p, SpaceOps)
          /\ Carried(p, BuildOps)' = Carried(p, BuildOps)
      BY <2>3, <2>6
    <3>2. /\ state'[p] = state[p] /\ reference_count'[p] = reference_count[p]
          /\ space_refs'[p] = space_refs[p] /\ (Registered(p)' <=> Registered(p))
      BY <1>14, <1>19, <2>6
    <3> QED BY <2>1, <2>3, <2>4, <2>5, <3>1, <3>2 DEF CountOK
  <2>7. CASE p = n
    <3>1. /\ Carried(p, RefOps)' = 1 /\ Carried(p, SpaceOps)' = 1 /\ Carried(p, BuildOps)' = 1
          /\ Carried(p, DetachOps)' = 0 /\ Carried(p, FreeOps)' = 0
          /\ Links(p)' = 0 /\ Threads(p)' = 0 /\ Spaces(p)' = 0 /\ live_threads'[p] = 0
      BY <1>7, <2>3, <2>4, <2>5, <2>7
    <3>2. /\ state'[p] = "NEW" /\ Registered(p)' /\ reference_count'[p] = 1 /\ space_refs'[p] = 2
      BY <1>15, <1>19, <2>7
    <3> QED BY <3>1, <3>2 DEF CountOK
  <2> QED BY <2>6, <2>7
<1> QED BY <1>11, <1>13, <1>16, <1>17, <1>18, <1>20, <1>21 DEF PInv

-----------------------------------------------------------------------------
(* Steps that change a task.                                               *)

\* No other caller is the task t, or has a frame that depends on it.
Elsewhere(a, t) ==
    \A b \in Actor \ {a} :
        /\ todo[b] # <<>> => b # t
        /\ \A i \in 1..Len(todo[b]) :
              todo[b][i].op \in {"bind", "attach", "publish", "reaped"} => todo[b][i].t # t
LEMMA TaskAlone ==
    ASSUME PInv, NEW a \in Actor, NEW t \in Task,
           \/ tstate[t] = "UNUSED"
           \/ tstate[t] = "ALIVE" /\ t = a
           \/ tstate[t] = "ZOMBIE" /\ a = reaper
           \/ /\ tstate[t] = "NEW"
              /\ \E i \in 1..Len(todo[a]) : todo[a][i].op = "publish" /\ todo[a][i].t = t
    PROVE  Elsewhere(a, t)
<1> SUFFICES ASSUME NEW b \in Actor \ {a}
             PROVE  /\ todo[b] # <<>> => b # t
                    /\ \A i \in 1..Len(todo[b]) :
                          todo[b][i].op \in {"bind", "attach", "publish", "reaped"}
                             => todo[b][i].t # t
  BY DEF Elsewhere
<1>1. ListTypes /\ Shapes /\ FramesOK /\ PublishOnce
  BY DEF PInv
<1>2. todo[b] # <<>> => b # t
  BY <1>1 DEF Shapes, Shape
<1>3. ASSUME NEW i \in 1..Len(todo[b]), todo[b][i].op \in {"bind", "attach", "publish", "reaped"},
             todo[b][i].t = t
      PROVE  FALSE
  <2>1. FrameOK(b, todo[b][i])
    BY <1>1 DEF FramesOK, ListOK
  <2>2. CASE todo[b][i].op = "reaped"
    BY <1>3, <2>1, <2>2 DEF FrameOK
  <2>3. CASE todo[b][i].op \in {"bind", "attach", "publish"}
    <3>1. tstate[t] = "NEW"
      BY <1>3, <2>1, <2>3 DEF FrameOK
    <3>2. PICK k \in 1..Len(todo[a]) : todo[a][k].op = "publish" /\ todo[a][k].t = t
      BY <3>1
    <3>3. PICK j \in 1..Len(todo[b]) : todo[b][j].op = "publish" /\ todo[b][j].t = t
      <4>1. CASE todo[b][i].op = "publish"
        BY <1>3, <4>1
      <4>2. CASE todo[b][i].op \in {"bind", "attach"}
        <5>1. todo[b] # <<>> /\ Shape(b, todo[b]) /\ Len(todo[b]) \in Nat
          BY <1>1, <1>3 DEF Shapes, ListTypes
        <5>2. i = 1
          BY <4>2, <5>1 DEF Shape, FirstOps
        <5>3. todo[b][Len(todo[b])] = FT("publish", todo[b][1].p, todo[b][1].t)
          BY <4>2, <5>1, <5>2 DEF Shape
        <5>4. todo[b][Len(todo[b])].op = "publish" /\ todo[b][Len(todo[b])].t = t
          BY <1>3, <5>2, <5>3 DEF FT
        <5>5. Len(todo[b]) \in 1..Len(todo[b])
          BY <5>1, <5>2
        <5> QED BY <5>4, <5>5
      <4> QED BY <2>3, <4>1, <4>2
    <3> QED BY <1>1, <3>2, <3>3 DEF PublishOnce
  <2> QED BY <1>3, <2>2, <2>3
<1> QED BY <1>2, <1>3

\* The shapes and the frames, when only t changes.
OnlyTask(t) == \A u \in Task \ {t} : tstate'[u] = tstate[u] /\ tproc'[u] = tproc[u] /\ tspace'[u] = tspace[u]
LEMMA TaskStep ==
    ASSUME PInv, NEW a \in Actor, NEW s \in Seq(Frame), todo' = [todo EXCEPT ![a] = s],
           NEW t \in Task, Elsewhere(a, t), OnlyTask(t),
           UNCHANGED <<parent_id, next_process_id>>,
           s # <<>> => Shape(a, s)', ListOK(a, s)',
           \A b \in Actor \ {a} : \A i \in 1..Len(todo[b]) :
              todo[b][i].op \in MakeOps /\ state[todo[b][i].p] = "NEW"
                 => state'[todo[b][i].p] = "NEW"
    PROVE  Shapes' /\ FramesOK'
<1>1. ListTypes /\ Shapes /\ FramesOK
  BY DEF PInv
<1>2. ASSUME NEW b \in Actor \ {a}, NEW r \in Seq(Frame), r = todo[b], r # <<>>,
             Shape(b, r), ListOK(b, r)
      PROVE  Shape(b, r)' /\ ListOK(b, r)'
  <2>1. b # t /\ 1 \in 1..Len(r) /\ Len(r) \in 1..Len(r)
    BY <1>2 DEF Elsewhere
  <2>2. b \in Task => tstate'[b] = tstate[b] /\ tproc'[b] = tproc[b]
    BY <2>1 DEF OnlyTask
  <2>3. \A p : Threaded(b, p)' <=> Threaded(b, p)
    BY <2>2 DEF Threaded
  <2>4. ASSUME NEW i \in 1..Len(r), r[i].op \in {"bind", "attach", "publish", "reaped"}
        PROVE  /\ tstate'[r[i].t] = tstate[r[i].t] /\ tproc'[r[i].t] = tproc[r[i].t]
               /\ tspace'[r[i].t] = tspace[r[i].t]
    <3>1. FrameOK(b, r[i])
      BY <1>2 DEF ListOK
    <3>2. r[i].t \in Task /\ r[i].t # t
      BY <1>2, <2>4, <3>1 DEF FrameOK, Elsewhere
    <3> QED BY <3>2 DEF OnlyTask
  <2>5. Shape(b, r)'
    <3>1. /\ b \in Task => tstate'[b] = "ALIVE"
          /\ b = reaper => r[Len(r)].op = "reaped"
          /\ \A i \in 1..Len(r) : /\ r[i].op \in FirstOps => i = 1
                                  /\ r[i].op \in LastOps => i = Len(r)
      BY <1>2, <2>2 DEF Shape
    <3>2. /\ r[1].op \in {"retain", "add"} =>
                Len(r) = 3 /\ r[2] = F("release", parent_id'[r[1].p]) /\ r[3] = F("task", r[1].p)
          /\ r[1].op = "detach" => Len(r) = 4 /\ r[3] = F("release", r[1].p)
      BY <1>2 DEF Shape
    <3>3. r[1].op \in {"bind", "attach"} =>
             /\ r[Len(r)] = FT("publish", r[1].p, r[1].t) /\ tproc'[r[1].t] = 0
             /\ Threaded(b, r[1].p)' \/ (Len(r) = 4 /\ r[2] = F("release", r[1].p))
      BY <1>2, <2>1, <2>3, <2>4 DEF Shape
    <3>4. r[Len(r)].op = "publish" /\ r[1].op \notin {"bind", "attach"} =>
             tproc'[r[Len(r)].t] = r[Len(r)].p
      BY <1>2, <2>1, <2>4 DEF Shape
    <3> QED BY <3>1, <3>2, <3>3, <3>4 DEF Shape
  <2>6. ASSUME NEW i \in 1..Len(r) PROVE FrameOK(b, r[i])'
    <3>1. FrameOK(b, r[i])
      BY <1>2 DEF ListOK
    <3>2. r[i].op \in MakeOps /\ state[r[i].p] = "NEW" => state'[r[i].p] = "NEW"
      BY <1>2
    <3>3. /\ r[i].p < next_process_id'
          /\ r[i].op \in {"load", "create"} => r[i].p = kernel_process
          /\ r[i].op \notin {"load", "create", "release"} => r[i].p # kernel_process
          /\ r[i].op \in {"acquire", "retain", "add", "task"} =>
                state'[r[i].p] = "NEW" /\ parent_id'[r[i].p] \in 1..(next_process_id' - 1)
          /\ r[i].op \in {"bind", "attach"} => Threaded(b, r[i].p)' \/ state'[r[i].p] = "NEW"
      BY <2>3, <3>1, <3>2 DEF FrameOK, MakeOps
    <3>4. /\ r[i].op \in {"bind", "attach", "publish"} =>
                r[i].t \in Task /\ tstate'[r[i].t] = "NEW" /\ tspace'[r[i].t] = r[i].p
          /\ r[i].op = "exit" => b \in Task /\ tproc'[b] = r[i].p
          /\ r[i].op = "detach" => b = reaper
          /\ r[i].op = "reaped" => b = reaper /\ r[i].t \in Task /\ tstate'[r[i].t] = "ZOMBIE"
                                   /\ tproc'[r[i].t] = 0 /\ tspace'[r[i].t] = 0
      BY <2>2, <2>4, <3>1 DEF FrameOK
    <3> QED BY <3>3, <3>4 DEF FrameOK
  <2> QED BY <2>5, <2>6 DEF ListOK
<1> QED BY <1>1, <1>2, ListsStep

\* The tasks, when only t changes.
LEMMA OthersOK ==
    ASSUME TasksOK, NEW t \in Task, OnlyTask(t), UNCHANGED next_process_id, TaskOK(t)',
           todo[reaper] # <<>> /\ todo[reaper][Len(todo[reaper])].t # t =>
              /\ todo'[reaper] # <<>>
              /\ todo'[reaper][Len(todo'[reaper])].t = todo[reaper][Len(todo[reaper])].t
    PROVE  TasksOK'
<1> SUFFICES ASSUME NEW u \in Task PROVE TaskOK(u)'
  BY DEF TasksOK
<1>1. CASE u = t
  BY <1>1
<1>2. CASE u # t
  <2>1. TaskOK(u) /\ tstate'[u] = tstate[u] /\ tproc'[u] = tproc[u] /\ tspace'[u] = tspace[u]
    BY <1>2 DEF TasksOK, OnlyTask
  <2>2. (Being(u) => Being(u)') /\ (Reaping(u) => Reaping(u)')
    BY <1>2, <2>1 DEF Being, Reaping
  <2> QED BY <2>1, <2>2 DEF TaskOK
<1> QED BY <1>1, <1>2

\* Which of the tasks run in p.
LEMMA ThreadsStep ==
    ASSUME DOMAIN tproc = Task, NEW t \in Task, NEW v, tproc' = [tproc EXCEPT ![t] = v], NEW p
    PROVE  Changed(Threads(p), Threads(p)', IF v = p THEN 1 ELSE 0, IF tproc[t] = p THEN 1 ELSE 0)
<1>1. Changed(Cardinality(Preimage(Task, tproc, p)), Cardinality(Preimage(Task, tproc', p)),
              IF v = p THEN 1 ELSE 0, IF tproc[t] = p THEN 1 ELSE 0)
  BY Finite, PreimageStep
<1>2. Threads(p) = Cardinality(Preimage(Task, tproc, p)) /\ Threads(p)' = Cardinality(Preimage(Task, tproc', p))
  BY DEF Threads, Preimage
<1> QED BY <1>1, <1>2

\* Which of the tasks have the space of p.
LEMMA SpacesStep ==
    ASSUME DOMAIN tspace = Task, NEW t \in Task, NEW v, tspace' = [tspace EXCEPT ![t] = v], NEW p
    PROVE  Changed(Spaces(p), Spaces(p)', IF v = p THEN 1 ELSE 0, IF tspace[t] = p THEN 1 ELSE 0)
<1>1. Changed(Cardinality(Preimage(Task, tspace, p)), Cardinality(Preimage(Task, tspace', p)),
              IF v = p THEN 1 ELSE 0, IF tspace[t] = p THEN 1 ELSE 0)
  BY Finite, PreimageStep
<1>2. Spaces(p) = Cardinality(Preimage(Task, tspace, p)) /\ Spaces(p)' = Cardinality(Preimage(Task, tspace', p))
  BY DEF Spaces, Preimage
<1> QED BY <1>1, <1>2

\* A caller is done: its list was one frame that carries nothing.
LEMMA DoneStep ==
    ASSUME PInv, NEW a \in Actor, NEW f \in Frame, todo[a] = <<f>>,
           f.op \in {"publish", "exit", "reaped"}, todo' = [todo EXCEPT ![a] = <<>>],
           UNCHANGED <<state, reference_count, live_threads, children, space_refs, tproc, tspace>>
    PROVE  ListTypes' /\ CountsOK'
<1>1. ListTypes /\ CountsOK /\ <<>> \in Seq(Frame)
  BY DEF PInv
<1>2. \A ps, ops : ops \in OpSets \cup {{"release"}} =>
         One(f, ps, ops) = 0 /\ Num(<<f>>, ps, ops) = 0 /\ Num(<<>>, ps, ops) = 0
  BY PlainFrames
<1>3. ListTypes'
  <2>1. Num(<<>>, Pid, {"release"}) = 0 /\ Len(<<>>) = 0
    BY <1>2
  <2>2. Len(<<>>) + Num(<<>>, Pid, {"release"}) <= 8
    BY <2>1
  <2> QED BY <1>1, <2>2, ListStep
<1>4. \A p, ops : ops \in OpSets => Carried(p, ops)' = Carried(p, ops)
  <2> TAKE p, ops
  <2> HAVE ops \in OpSets
  <2>1. Changed(Carried(p, ops), Carried(p, ops)', Num(<<>>, {p}, ops), One(f, {p}, ops))
    BY <1>1, LoneStep
  <2>2. One(f, {p}, ops) = 0 /\ Num(<<>>, {p}, ops) = 0
    BY <1>2
  <2> QED BY <2>1, <2>2 DEF Changed
<1>5. RefOps \in OpSets /\ SpaceOps \in OpSets /\ DetachOps \in OpSets /\ FreeOps \in OpSets
      /\ BuildOps \in OpSets
  BY DEF OpSets
<1>6. CountsOK'
  BY <1>1, <1>4, <1>5, SameCounts
<1> QED BY <1>3, <1>6

\* A task is done with its list, or with a step of its own; nothing is carried.
LEMMA DoneInv ==
    ASSUME PInv, NEW a \in Actor, NEW f \in Frame, todo[a] = <<f>>,
           f.op \in {"publish", "exit", "reaped"}, todo' = [todo EXCEPT ![a] = <<>>],
           NEW t \in Task, Elsewhere(a, t), NEW v \in {"UNUSED", "ALIVE", "ZOMBIE"},
           tstate' = [tstate EXCEPT ![t] = v], TaskOK(t)', a # reaper \/ f.t = t,
           UNCHANGED <<procVars, regVars, spaceVars, tproc, tspace, panic>>
    PROVE  PInv'
<1>1. /\ VarTypes /\ ListTypes /\ ProcessesOK /\ NoBadPanic /\ PublishOnce /\ TasksOK
      /\ <<>> \in Seq(Frame)
  BY DEF PInv
<1>2. ListTypes' /\ CountsOK'
  BY DoneStep DEF procVars, spaceVars
<1>3. ProcessesOK'
  BY <1>1, SameProcesses DEF procVars, regVars
<1>4. tstate' \in [Task -> {"UNUSED", "NEW", "ALIVE", "ZOMBIE"}]
  BY <1>1 DEF VarTypes
<1>5. VarTypes' /\ NoBadPanic'
  BY <1>1, <1>4 DEF VarTypes, NoBadPanic, procVars, regVars, spaceVars
<1>6. OnlyTask(t)
  BY <1>1 DEF OnlyTask, VarTypes
<1>7. Shapes' /\ FramesOK'
  <2>1. ListOK(a, <<>>)'
    BY DEF ListOK
  <2> QED BY <1>1, <1>6, <2>1, TaskStep DEF procVars, regVars
<1>8. PublishOnce'
  <2>1. PICK s \in Seq(Frame) : s = <<>>
    BY <1>1, Zenon
  <2>2. Len(s) = 0 /\ todo' = [todo EXCEPT ![a] = s]
    BY <2>1
  <2>3. \A i \in 1..Len(s) : FALSE
    BY <2>2
  <2> QED BY <1>1, <2>2, <2>3, PublishStep
<1>9. TasksOK'
  <2>1. a # reaper => todo'[reaper] = todo[reaper]
    BY <1>1 DEF ListTypes, Actor
  <2>2. a = reaper => todo[reaper] = <<f>> /\ todo[reaper][Len(todo[reaper])] = f
    OBVIOUS
  <2> QED BY <1>1, <1>6, <2>1, <2>2, OthersOK DEF regVars
<1> QED BY <1>2, <1>3, <1>5, <1>7, <1>8, <1>9 DEF PInv

\* task_publish: the task runs in the process it was bound to.
LEMMA PublishInv ==
    ASSUME PInv, NEW a \in Actor, task_publish(a) PROVE PInv'
<1>1. /\ At(a, "publish") /\ tstate' = [tstate EXCEPT ![T(a)] = "ALIVE"] /\ Then(a, <<>>)
      /\ UNCHANGED <<procVars, regVars, held, spaceVars, tproc, tspace, panic>>
  BY DEF task_publish
<1>2. PICK f \in Frame : f = todo[a][1]
  BY <1>1, HeadFacts
<1>3. /\ todo[a] = <<f>> /\ f.op = "publish" /\ T(a) = f.t /\ FrameOK(a, f)
      /\ \A fs \in Seq(Frame) : fs \o Tail(todo[a]) = fs
      /\ Shape(a, todo[a]) /\ Len(todo[a]) = 1 /\ todo[a][1] = f /\ 1 \in 1..Len(todo[a])
  BY <1>1, <1>2, HeadFacts DEF LastOps
<1>4. a # reaper /\ tproc[f.t] = f.p
  BY <1>3 DEF Shape
<1>5. PICK t \in Task : t = f.t /\ tstate[t] = "NEW" /\ tspace[t] = f.p
  BY <1>3 DEF FrameOK
<1>6. Elsewhere(a, t)
  BY <1>3, <1>5, TaskAlone
<1>7. todo' = [todo EXCEPT ![a] = <<>>] /\ tstate' = [tstate EXCEPT ![t] = "ALIVE"]
  <2>1. <<>> \in Seq(Frame)
    OBVIOUS
  <2> QED BY <1>1, <1>3, <1>5, <2>1 DEF Then
<1>8. TaskOK(t)'
  <2>1. tspace[t] \in 2..(next_process_id - 1) /\ tstate'[t] = "ALIVE"
    BY <1>5, <1>7 DEF PInv, TasksOK, TaskOK, VarTypes
  <2>2. Being(t)'
    BY <1>1, <1>4, <1>5, <2>1 DEF Being, regVars
  <2> QED BY <2>1, <2>2 DEF TaskOK
<1> QED BY <1>1, <1>3, <1>4, <1>6, <1>7, <1>8, DoneInv

\* task_exit: the thread becomes a zombie that still belongs to its process.
LEMMA ExitInv ==
    ASSUME PInv, NEW a \in Actor, task_exit(a) PROVE PInv'
<1>1. /\ At(a, "exit") /\ tstate' = [tstate EXCEPT ![a] = "ZOMBIE"] /\ Then(a, <<>>)
      /\ UNCHANGED <<procVars, regVars, held, spaceVars, tproc, tspace, panic>>
  BY DEF task_exit
<1>2. PICK f \in Frame : f = todo[a][1]
  BY <1>1, HeadFacts
<1>3. /\ todo[a] = <<f>> /\ f.op = "exit" /\ FrameOK(a, f)
      /\ \A fs \in Seq(Frame) : fs \o Tail(todo[a]) = fs
      /\ Shape(a, todo[a]) /\ Len(todo[a]) = 1 /\ todo[a][1] = f
  BY <1>1, <1>2, HeadFacts DEF LastOps
<1>4. a # reaper /\ a \in Task /\ tstate[a] = "ALIVE"
  BY <1>3 DEF Shape, FrameOK
<1>5. Elsewhere(a, a)
  BY <1>4, TaskAlone
<1>6. todo' = [todo EXCEPT ![a] = <<>>]
  <2>1. <<>> \in Seq(Frame)
    OBVIOUS
  <2> QED BY <1>1, <1>3, <2>1 DEF Then
<1>7. TaskOK(a)'
  <2>1. Being(a) /\ tstate'[a] = "ZOMBIE"
    BY <1>1, <1>4 DEF PInv, TasksOK, TaskOK, VarTypes
  <2>2. Being(a)'
    BY <1>1, <2>1 DEF Being, regVars
  <2> QED BY <2>1, <2>2 DEF TaskOK
<1> QED BY <1>1, <1>3, <1>4, <1>5, <1>6, <1>7, DoneInv

\* The reaper frees a task that nothing refers to.
LEMMA TaskFreeInv ==
    ASSUME PInv, NEW a \in Actor, task_free(a) PROVE PInv'
<1>1. /\ At(a, "reaped") /\ tstate' = [tstate EXCEPT ![T(a)] = "UNUSED"] /\ Then(a, <<>>)
      /\ UNCHANGED <<procVars, regVars, held, spaceVars, tproc, tspace, panic>>
  BY DEF task_free
<1>2. PICK f \in Frame : f = todo[a][1]
  BY <1>1, HeadFacts
<1>3. /\ todo[a] = <<f>> /\ f.op = "reaped" /\ T(a) = f.t /\ FrameOK(a, f)
      /\ \A fs \in Seq(Frame) : fs \o Tail(todo[a]) = fs
  BY <1>1, <1>2, HeadFacts DEF LastOps
<1>4. PICK t \in Task : t = f.t /\ tstate[t] = "ZOMBIE" /\ tproc[t] = 0 /\ tspace[t] = 0
                        /\ a = reaper
  BY <1>3 DEF FrameOK
<1>5. Elsewhere(a, t)
  BY <1>4, TaskAlone
<1>6. todo' = [todo EXCEPT ![a] = <<>>] /\ tstate' = [tstate EXCEPT ![t] = "UNUSED"]
  <2>1. <<>> \in Seq(Frame)
    OBVIOUS
  <2> QED BY <1>1, <1>3, <1>4, <2>1 DEF Then
<1>7. TaskOK(t)'
  <2>1. tstate'[t] = "UNUSED"
    BY <1>6 DEF PInv, VarTypes
  <2> QED BY <1>1, <1>4, <2>1 DEF TaskOK
<1> QED BY <1>1, <1>3, <1>4, <1>5, <1>6, <1>7, DoneInv

\* The reaper takes a zombie: what the task had is now in the list of the reaper.
LEMMA ReapInv ==
    ASSUME PInv, NEW t \in Task, task_reap(t) PROVE PInv'
<1>1. /\ todo[reaper] = <<>> /\ panic = "none" /\ tstate[t] = "ZOMBIE"
      /\ todo' = [todo EXCEPT ![reaper] = ReapFrames(tproc[t], t)]
      /\ tproc' = [tproc EXCEPT ![t] = 0] /\ tspace' = [tspace EXCEPT ![t] = 0]
      /\ UNCHANGED <<procVars, regVars, held, spaceVars, tstate, panic>>
  BY DEF task_reap, Ready, Running
<1>2. VarTypes /\ ListTypes /\ CountsOK /\ ProcessesOK /\ NoBadPanic /\ TasksOK /\ PublishOnce
  BY DEF PInv
<1>3. reaper \in Actor /\ reaper \notin Task
  BY ProcessAssumption DEF Actor
<1>4. Being(t)
  BY <1>1, <1>2 DEF TasksOK, TaskOK, Reaping
<1>5. PICK q \in Pid : q = tproc[t] /\ q = tspace[t] /\ q # kernel_process /\ q < next_process_id
  <2>1. tproc[t] = tspace[t] /\ tproc[t] \in 2..(next_process_id - 1)
        /\ next_process_id \in 2..(MaxPid + 1)
    BY <1>2, <1>4 DEF Being, VarTypes
  <2>2. tproc[t] \in Pid /\ tproc[t] # kernel_process /\ tproc[t] < next_process_id
    BY <2>1, KernelPid DEF Pid, kernel_process
  <2> QED BY <2>1, <2>2
<1>6. /\ F("detach", q) \in Frame /\ F("space", q) \in Frame /\ F("release", q) \in Frame
      /\ FT("reaped", q, t) \in Frame
  BY FrameFacts
<1>7. PICK s \in Seq(Frame) :
         s = <<F("detach", q), F("space", q), F("release", q), FT("reaped", q, t)>>
  <2>1. <<F("detach", q), F("space", q), F("release", q), FT("reaped", q, t)>> \in Seq(Frame)
    BY <1>6
  <2> QED BY <2>1, Zenon
<1>8. todo' = [todo EXCEPT ![reaper] = s]
  BY <1>1, <1>5, <1>7 DEF ReapFrames
<1>9. /\ s # <<>> /\ Len(s) = 4 /\ s[1] = F("detach", q) /\ s[2] = F("space", q)
      /\ s[3] = F("release", q) /\ s[4] = FT("reaped", q, t)
  BY <1>6, <1>7
<1>10. \A ps, ops : Num(s, ps, ops) =
          One(F("detach", q), ps, ops) + (One(F("space", q), ps, ops)
          + (One(F("release", q), ps, ops) + One(FT("reaped", q, t), ps, ops)))
  BY <1>6, <1>7, Num4
<1>11. \A i \in 1..Len(s) : i = 1 \/ i = 2 \/ i = 3 \/ i = 4
  BY <1>9
<1>12. ListTypes'
  <2>1. /\ One(F("detach", q), Pid, {"release"}) = 0 /\ One(F("space", q), Pid, {"release"}) = 0
        /\ One(F("release", q), Pid, {"release"}) = 1
        /\ One(FT("reaped", q, t), Pid, {"release"}) = 0
    BY DEF One, F, FT
  <2>2. Num(s, Pid, {"release"}) = 0 + (0 + (1 + 0))
    BY <1>10, <2>1
  <2>3. Len(s) + Num(s, Pid, {"release"}) <= 8
    BY <1>9, <2>2
  <2> QED BY <1>2, <1>3, <1>8, <2>3, ListStep
<1>13. VarTypes' /\ NoBadPanic'
  <2>1. tproc' \in [Task -> 0..MaxPid] /\ tspace' \in [Task -> 0..MaxPid]
    <3>1. 0 \in 0..MaxPid
      BY KernelPid
    <3> QED BY <1>1, <1>2, <3>1 DEF VarTypes
  <2> QED BY <1>1, <1>2, <2>1 DEF VarTypes, NoBadPanic, procVars, regVars, spaceVars
<1>14. ProcessesOK'
  BY <1>1, <1>2, SameProcesses DEF procVars, regVars
<1>15. OnlyTask(t) /\ tproc'[t] = 0 /\ tspace'[t] = 0 /\ tstate'[t] = "ZOMBIE"
  BY <1>1, <1>2 DEF OnlyTask, VarTypes
<1>16. Elsewhere(reaper, t)
  BY <1>1, <1>3, TaskAlone
<1>17. Shapes' /\ FramesOK'
  <2>1. Shape(reaper, s)'
    BY <1>3, <1>9, <1>11 DEF Shape, F, FT, FirstOps, LastOps
  <2>2. /\ FrameOK(reaper, F("detach", q))' /\ FrameOK(reaper, F("space", q))'
        /\ FrameOK(reaper, F("release", q))'
    BY <1>1, <1>5 DEF FrameOK, F, regVars
  <2>3. FrameOK(reaper, FT("reaped", q, t))'
    BY <1>1, <1>5, <1>15 DEF FrameOK, FT, regVars
  <2>4. ListOK(reaper, s)'
    BY <1>9, <1>11, <2>2, <2>3 DEF ListOK
  <2> QED BY <1>1, <1>3, <1>8, <1>15, <1>16, <2>1, <2>4, TaskStep DEF procVars, regVars
<1>18. PublishOnce'
  <2>1. \A i \in 1..Len(s) : s[i].op # "publish"
    BY <1>9, <1>11 DEF F, FT
  <2> QED BY <1>2, <1>3, <1>8, <2>1, PublishStep
<1>19. TasksOK'
  <2>1. todo'[reaper] = s
    BY <1>2, <1>3, <1>8 DEF ListTypes
  <2>2. s[Len(s)].t = t
    BY <1>9 DEF FT
  <2>3. Reaping(t)'
    BY <1>9, <1>15, <2>1, <2>2 DEF Reaping
  <2>4. TaskOK(t)'
    BY <1>15, <2>3 DEF TaskOK
  <2> QED BY <1>1, <1>2, <1>15, <2>4, OthersOK DEF regVars
<1>20. CountsOK'
  <2> SUFFICES ASSUME NEW p \in Pid \ {kernel_process} PROVE CountOK(p)'
    BY DEF CountsOK
  <2>1. CountOK(p)
    BY <1>2 DEF CountsOK
  <2>2. \A ops : Changed(Carried(p, ops), Carried(p, ops)', Num(s, {p}, ops), 0)
    <3> TAKE ops
    <3>1. Changed(Carried(p, ops), Carried(p, ops)', Num(s, {p}, ops), Num(todo[reaper], {p}, ops))
      BY <1>2, <1>3, <1>8, CarriedStep
    <3>2. Num(todo[reaper], {p}, ops) = 0
      BY <1>1, Num0
    <3> QED BY <3>1, <3>2
  <2>3. \A ops : Num(s, {p}, ops) = (IF q = p /\ "detach" \in ops THEN 1 ELSE 0)
            + ((IF q = p /\ "space" \in ops THEN 1 ELSE 0)
               + ((IF q = p /\ "release" \in ops THEN 1 ELSE 0)
                  + (IF q = p /\ "reaped" \in ops THEN 1 ELSE 0)))
    BY <1>10 DEF One, F, FT
  <2>4. /\ Carried(p, RefOps)' = Carried(p, RefOps) + (IF q = p THEN 1 ELSE 0)
        /\ Carried(p, SpaceOps)' = Carried(p, SpaceOps) + (IF q = p THEN 1 ELSE 0)
        /\ Carried(p, DetachOps)' = Carried(p, DetachOps) + (IF q = p THEN 1 ELSE 0)
        /\ Carried(p, RefOps) \in Nat /\ Carried(p, SpaceOps) \in Nat /\ Carried(p, DetachOps) \in Nat
        /\ Carried(p, FreeOps)' = Carried(p, FreeOps)
        /\ Carried(p, BuildOps)' = Carried(p, BuildOps)
    <3>1. /\ Changed(Carried(p, RefOps), Carried(p, RefOps)', Num(s, {p}, RefOps), 0)
          /\ Changed(Carried(p, SpaceOps), Carried(p, SpaceOps)', Num(s, {p}, SpaceOps), 0)
          /\ Changed(Carried(p, DetachOps), Carried(p, DetachOps)', Num(s, {p}, DetachOps), 0)
          /\ Changed(Carried(p, FreeOps), Carried(p, FreeOps)', Num(s, {p}, FreeOps), 0)
          /\ Changed(Carried(p, BuildOps), Carried(p, BuildOps)', Num(s, {p}, BuildOps), 0)
      BY <2>2
    <3>2. /\ Num(s, {p}, RefOps) = 0 + (0 + ((IF q = p THEN 1 ELSE 0) + 0))
          /\ Num(s, {p}, SpaceOps) = 0 + ((IF q = p THEN 1 ELSE 0) + (0 + 0))
          /\ Num(s, {p}, DetachOps) = (IF q = p THEN 1 ELSE 0) + (0 + (0 + 0))
          /\ Num(s, {p}, FreeOps) = 0 + (0 + (0 + 0))
          /\ Num(s, {p}, BuildOps) = 0 + (0 + (0 + 0))
      BY <2>3, OpTable
    <3> QED BY <3>1, <3>2 DEF Changed
  <2>5. /\ Threads(p) \in Nat /\ Threads(p)' \in Nat /\ Spaces(p) \in Nat /\ Spaces(p)' \in Nat
        /\ Links(p) \in Nat
    BY CountTypes
  <2>6. Threads(p)' = Threads(p) - (IF q = p THEN 1 ELSE 0)
    <3>1. DOMAIN tproc = Task
      BY <1>2 DEF VarTypes
    <3>2. Changed(Threads(p), Threads(p)', IF 0 = p THEN 1 ELSE 0, IF tproc[t] = p THEN 1 ELSE 0)
      BY <1>1, <3>1, ThreadsStep
    <3>3. 0 # p
      BY DEF Pid
    <3>4. Changed(Threads(p), Threads(p)', 0, IF q = p THEN 1 ELSE 0)
      BY <1>5, <3>2, <3>3
    <3> QED BY <3>4 DEF Changed
  <2>7. Spaces(p)' = Spaces(p) - (IF q = p THEN 1 ELSE 0)
    <3>1. DOMAIN tspace = Task
      BY <1>2 DEF VarTypes
    <3>2. Changed(Spaces(p), Spaces(p)', IF 0 = p THEN 1 ELSE 0, IF tspace[t] = p THEN 1 ELSE 0)
      BY <1>1, <3>1, SpacesStep
    <3>3. 0 # p
      BY DEF Pid
    <3>4. Changed(Spaces(p), Spaces(p)', 0, IF q = p THEN 1 ELSE 0)
      BY <1>5, <3>2, <3>3
    <3> QED BY <3>4 DEF Changed
  <2>8. Links(p)' = Links(p) /\ (Registered(p)' <=> Registered(p))
        /\ UNCHANGED <<state, reference_count, live_threads, space_refs>>
    BY <1>1 DEF Links, Registered, procVars, spaceVars
  <2>9. Threads(p)' + Carried(p, RefOps)' = Threads(p) + Carried(p, RefOps)
        /\ Spaces(p)' + Carried(p, SpaceOps)' = Spaces(p) + Carried(p, SpaceOps)
        /\ Threads(p)' + Carried(p, DetachOps)' = Threads(p) + Carried(p, DetachOps)
    <3>1. CASE q = p
      <4>1. /\ Carried(p, RefOps)' = Carried(p, RefOps) + 1
            /\ Carried(p, SpaceOps)' = Carried(p, SpaceOps) + 1
            /\ Carried(p, DetachOps)' = Carried(p, DetachOps) + 1
            /\ Threads(p)' = Threads(p) - 1 /\ Spaces(p)' = Spaces(p) - 1
        BY <2>4, <2>6, <2>7, <3>1
      <4>2. \A x, y \in Nat : (x - 1) + (y + 1) = x + y
        OBVIOUS
      <4>3. Carried(p, RefOps) \in Nat /\ Carried(p, SpaceOps) \in Nat /\ Carried(p, DetachOps) \in Nat
        BY CarriedType
      <4>4. Threads(p)' + Carried(p, RefOps)' = Threads(p) + Carried(p, RefOps)
        BY <2>5, <4>1, <4>2, <4>3, ZenonT(40)
      <4>5. Spaces(p)' + Carried(p, SpaceOps)' = Spaces(p) + Carried(p, SpaceOps)
        BY <2>5, <4>1, <4>2, <4>3, ZenonT(40)
      <4>6. Threads(p)' + Carried(p, DetachOps)' = Threads(p) + Carried(p, DetachOps)
        BY <2>5, <4>1, <4>2, <4>3, ZenonT(40)
      <4> QED BY <4>4, <4>5, <4>6
    <3>2. CASE q # p
      <4>1. /\ Carried(p, RefOps)' = Carried(p, RefOps) /\ Carried(p, SpaceOps)' = Carried(p, SpaceOps)
            /\ Carried(p, DetachOps)' = Carried(p, DetachOps)
            /\ Threads(p)' = Threads(p) /\ Spaces(p)' = Spaces(p)
        BY <2>4, <2>5, <2>6, <2>7, <3>2
      <4> QED BY <4>1
    <3> QED BY <3>1, <3>2
  <2> QED BY <2>1, <2>4, <2>8, <2>9 DEF CountOK
<1> QED BY <1>12, <1>13, <1>14, <1>17, <1>18, <1>19, <1>20 DEF PInv

\* While a process is being made, only its maker has frames that make it.
LEMMA OneMaker ==
    ASSUME PInv, NEW a \in Actor, 1 \in 1..Len(todo[a]), NEW q \in Pid \ {kernel_process},
           todo[a][1].p = q, todo[a][1].op \in BuildOps, state[q] = "NEW",
           NEW b \in Actor \ {a}, NEW i \in 1..Len(todo[b]), todo[b][i].p = q
    PROVE  todo[b][i].op \notin MakeOps
<1>1. ListTypes /\ Shapes /\ CountOK(q) /\ todo[b] \in Seq(Frame)
  BY DEF PInv, CountsOK, ListTypes
<1>2. ASSUME NEW j \in 1..Len(todo[b]), todo[b][j].p = q, todo[b][j].op \in BuildOps PROVE FALSE
  <2>1. Carried(q, BuildOps) >= 2
    BY <1>1, <1>2, CarriedTwo
  <2>2. Carried(q, BuildOps) <= 1 /\ Carried(q, BuildOps) \in Nat
    BY <1>1, CarriedType DEF CountOK
  <2> QED BY <2>1, <2>2
<1>3. SUFFICES ASSUME todo[b][i].op \in {"retain", "add"} PROVE FALSE
  BY <1>2 DEF MakeOps, BuildOps
<1>4. todo[b] # <<>>
  BY <1>1
<1>5. Shape(b, todo[b])
  BY <1>1, <1>4 DEF Shapes
<1>6. i = 1
  BY <1>3, <1>5 DEF Shape, FirstOps
<1>7. Len(todo[b]) = 3 /\ todo[b][3] = F("task", q)
  BY <1>3, <1>5, <1>6 DEF Shape
<1>8. 3 \in 1..Len(todo[b]) /\ todo[b][3].p = q /\ todo[b][3].op = "task"
  BY <1>7 DEF F
<1> QED BY <1>2, <1>8, OpTable

\* process_thread_attach: the task takes over the reference, and the process runs.
LEMMA AttachInv ==
    ASSUME PInv, NEW a \in Actor, process_thread_attach(a) PROVE PInv'
<1>1. At(a, "attach") /\ todo' = [todo EXCEPT ![a] = <<>> \o Tail(@)]
      /\ UNCHANGED <<reference_count, parent_id, children, exit_status, regVars, held,
                     spaceVars, tstate, tspace>>
  BY DEF process_thread_attach, Then
<1>2. VarTypes /\ ListTypes /\ CountsOK /\ ProcessesOK /\ NoBadPanic /\ TasksOK /\ PublishOnce
  BY DEF PInv
<1>3. PICK q \in Pid : q = P(a)
  BY <1>1, HeadFacts
<1>4. /\ todo[a] # <<>> /\ todo[a][1].op = "attach" /\ todo[a][1].p = q /\ todo[a] \in Seq(Frame)
      /\ FrameOK(a, todo[a][1]) /\ Shape(a, todo[a]) /\ 1 \in 1..Len(todo[a])
      /\ T(a) = todo[a][1].t /\ todo[a][1] \in Frame
  BY <1>1, <1>3, HeadFacts
<1>5. PICK t \in Task : t = T(a) /\ tstate[t] = "NEW" /\ tspace[t] = q
  BY <1>4 DEF FrameOK
<1>6. q \in Pid \ {kernel_process} /\ q < next_process_id /\ (Threaded(a, q) \/ state[q] = "NEW")
  BY <1>4 DEF FrameOK
<1>7. state[q] \in {"NEW", "RUNNING"}
  <2>1. CASE Threaded(a, q)
    BY <1>6, <2>1, ThreadRuns DEF Threaded
  <2> QED BY <1>6, <2>1
<1>8. /\ live_threads' = [live_threads EXCEPT ![q] = @ + 1]
      /\ state' = [state EXCEPT ![q] = "RUNNING"]
      /\ tproc' = [tproc EXCEPT ![t] = q] /\ panic' = panic
  BY <1>3, <1>5, <1>7 DEF process_thread_attach, CanAttach
<1>9. /\ todo[a][Len(todo[a])] = FT("publish", q, t) /\ tproc[t] = 0
      /\ todo[a][Len(todo[a])].op = "publish" /\ todo[a][Len(todo[a])].t = t
      /\ todo[a][Len(todo[a])].p = q
  <2>1. todo[a][Len(todo[a])] = FT("publish", q, t) /\ tproc[t] = 0
    BY <1>4, <1>5 DEF Shape
  <2> QED BY <2>1 DEF FT
<1>10. a # reaper /\ (a \in Task => tstate[a] = "ALIVE") /\ a # t
  BY <1>4, <1>5, <1>9 DEF Shape
<1>11. PICK s \in Seq(Frame) :
         /\ s = <<>> \o Tail(todo[a]) /\ Len(s) = Len(todo[a]) - 1
         /\ \A i \in 1..(Len(todo[a]) - 1) : s[i] = todo[a][i + 1]
  BY <1>4, ListView
<1>12. PICK n \in Nat : n = Len(todo[a]) /\ n >= 2
  <2>1. Len(todo[a]) \in Nat /\ Len(todo[a]) >= 1 /\ Len(todo[a]) # 1
    BY <1>4, <1>9
  <2>2. PICK n \in Nat : n = Len(todo[a])
    BY <2>1, Zenon
  <2>3. n >= 1 /\ n # 1
    BY <2>1, <2>2, Zenon
  <2>4. n >= 2
    BY <2>3
  <2> QED BY <2>2, <2>4
<1>13. todo' = [todo EXCEPT ![a] = s]
  BY <1>1, <1>2, <1>11 DEF ListTypes
<1>14. Len(s) = n - 1 /\ \A i \in 1..(n - 1) : s[i] = todo[a][i + 1]
  BY <1>11, <1>12, Zenon
<1>15. /\ s # <<>> /\ Len(s) \in 1..Len(s) /\ s[Len(s)] = todo[a][n]
       /\ \A i \in 1..Len(s) : s[i] = todo[a][i + 1] /\ i + 1 \in 1..Len(todo[a]) /\ i + 1 # 1
  <2>1. n - 1 \in 1..(n - 1) /\ (n - 1) + 1 = n /\ \A i \in 1..(n - 1) : i + 1 \in 1..n /\ i + 1 # 1
    BY <1>12
  <2>2. s[n - 1] = todo[a][n]
    BY <1>14, <2>1, Zenon
  <2>3. Len(s) # 0
    BY <1>12, <1>14
  <2> QED BY <1>12, <1>14, <2>1, <2>2, <2>3
<1>16. ListTypes'
  BY <1>1, <1>2, <1>4, CarriedPop
<1>17. VarTypes' /\ NoBadPanic'
  <2>1. /\ live_threads' \in [Pid -> Nat] /\ tproc' \in [Task -> 0..MaxPid]
        /\ state' \in [Pid -> {"UNBORN", "NEW", "RUNNING", "EXITING", "ZOMBIE", "DEAD", "FREED"}]
    <3>1. q \in 0..MaxPid
      BY KernelPid DEF Pid
    <3> QED BY <1>2, <1>8, <3>1, SMTT(30) DEF VarTypes
  <2> QED BY <1>1, <1>2, <1>8, <2>1 DEF VarTypes, NoBadPanic, regVars, spaceVars
<1>18. OnlyTask(t) /\ tproc'[t] = q /\ tspace'[t] = q /\ tstate'[t] = "NEW"
  BY <1>1, <1>2, <1>5, <1>8 DEF OnlyTask, VarTypes
<1>19. Elsewhere(a, t)
  <2>1. n \in 1..Len(todo[a]) /\ todo[a][n].op = "publish" /\ todo[a][n].t = t
    BY <1>9, <1>12
  <2> QED BY <1>5, <2>1, TaskAlone
<1>20. \A p \in Pid : state'[p] = IF p = q THEN "RUNNING" ELSE state[p]
  BY <1>2, <1>8 DEF VarTypes
<1>21. ASSUME NEW b \in Actor \ {a}, NEW i \in 1..Len(todo[b]),
              todo[b][i].op \in MakeOps, state[todo[b][i].p] = "NEW"
       PROVE  state'[todo[b][i].p] = "NEW"
  <2>1. todo[b][i].p \in Pid
    <3>1. todo[b] \in Seq(Frame)
      BY <1>2 DEF ListTypes
    <3>2. todo[b][i] \in Frame
      BY <3>1
    <3> QED BY <3>2 DEF Frame
  <2>2. CASE todo[b][i].p = q
    BY <1>4, <1>6, <1>21, <2>2, OneMaker, OpTable
  <2>3. CASE todo[b][i].p # q
    BY <1>20, <1>21, <2>1, <2>3
  <2> QED BY <2>2, <2>3
<1>22. \A i \in 1..Len(s) : /\ s[i].op \notin FirstOps /\ (s[i].op \in LastOps => i = Len(s))
                            /\ FrameOK(a, s[i])
  <2> TAKE i \in 1..Len(s)
  <2>1. s[i] = todo[a][i + 1] /\ i + 1 \in 1..Len(todo[a]) /\ i + 1 # 1
    BY <1>15
  <2>2. FrameOK(a, s[i])
    BY <2>1 DEF PInv, FramesOK, ListOK
  <2>3. (s[i].op \in FirstOps => i + 1 = 1) /\ (s[i].op \in LastOps => i + 1 = Len(todo[a]))
    BY <1>4, <2>1 DEF Shape
  <2>4. i + 1 = n => i = Len(s)
    BY <1>12, <1>14
  <2> QED BY <1>12, <2>1, <2>2, <2>3, <2>4
<1>23. s[Len(s)].op = "publish" /\ s[Len(s)].t = t /\ s[Len(s)].p = q
  BY <1>9, <1>12, <1>15
<1>24. Shape(a, s)'
  <2>1. 1 \in 1..Len(s)
    BY <1>15
  <2>2. s[1].op \notin {"retain", "add", "detach", "bind", "attach"}
    BY <1>22, <2>1 DEF FirstOps
  <2> QED BY <1>1, <1>10, <1>18, <1>22, <1>23, <2>2 DEF Shape
<1>25. ListOK(a, s)'
  <2> SUFFICES ASSUME NEW i \in 1..Len(s) PROVE FrameOK(a, s[i])'
    BY DEF ListOK
  <2>1. FrameOK(a, s[i]) /\ s[i].op \notin FirstOps /\ (s[i].op \in LastOps => s[i].op = "publish")
    BY <1>22, <1>23
  <2>2. s[i].op \notin {"acquire", "retain", "add", "task", "bind", "attach", "exit", "detach",
                        "reaped"}
    BY <2>1 DEF FirstOps, LastOps
  <2> QED BY <1>1, <2>1, <2>2 DEF FrameOK, regVars
<1>26. Shapes' /\ FramesOK'
  BY <1>1, <1>13, <1>18, <1>19, <1>21, <1>24, <1>25, TaskStep DEF regVars
<1>27. PublishOnce'
  <2>1. ASSUME NEW i \in 1..Len(s), NEW b \in Actor \ {a}, NEW j \in 1..Len(todo[b]),
               s[i].op = "publish", todo[b][j].op = "publish"
        PROVE  todo[b][j].t # s[i].t
    <3>1. s[i].t = t
      BY <1>22, <1>23, <2>1 DEF LastOps
    <3> QED BY <1>19, <2>1, <3>1 DEF Elsewhere
  <2> QED BY <1>2, <1>13, <2>1, PublishStep
<1>28. TasksOK'
  <2>1. todo'[reaper] = todo[reaper]
    BY <1>2, <1>10, <1>13 DEF ListTypes, Actor
  <2>2. TaskOK(t)'
    <3>1. tspace[t] \in 2..(next_process_id - 1)
      BY <1>2, <1>5 DEF TasksOK, TaskOK
    <3> QED BY <1>1, <1>5, <1>18, <3>1 DEF TaskOK, regVars
  <2> QED BY <1>1, <1>2, <1>18, <2>1, <2>2, OthersOK DEF regVars
<1>29. \A p \in Pid : Registered(p)' <=> Registered(p)
  BY <1>7, <1>20 DEF Registered
<1>30. ProcessesOK'
  <2>1. state'[kernel_process] = "RUNNING"
    BY <1>2, <1>6, <1>20, KernelPid DEF ProcessesOK
  <2>2. {p \in Pid : Registered(p)}' = {p \in Pid : Registered(p)}
    BY <1>29
  <2>3. \A p \in Pid : state'[p] = "UNBORN" <=> state[p] = "UNBORN"
    BY <1>7, <1>20
  <2> QED BY <1>1, <1>2, <1>29, <2>1, <2>2, <2>3 DEF ProcessesOK, regVars
<1>31. CountsOK'
  <2> SUFFICES ASSUME NEW p \in Pid \ {kernel_process} PROVE CountOK(p)'
    BY DEF CountsOK
  <2>1. CountOK(p) /\ live_threads[p] \in Nat
    BY <1>2 DEF CountsOK, VarTypes
  <2>2. /\ Taken(p, q, "attach", RefOps) /\ Taken(p, q, "attach", SpaceOps)
        /\ Taken(p, q, "attach", DetachOps) /\ Taken(p, q, "attach", FreeOps)
        /\ Taken(p, q, "attach", BuildOps)
    BY <1>1, <1>2, <1>4, PopCounts
  <2>3. /\ Carried(p, RefOps)' = Carried(p, RefOps) - (IF q = p THEN 1 ELSE 0)
        /\ Carried(p, RefOps) \in Nat /\ Carried(p, DetachOps) \in Nat
        /\ Carried(p, SpaceOps)' = Carried(p, SpaceOps)
        /\ Carried(p, DetachOps)' = Carried(p, DetachOps)
        /\ Carried(p, FreeOps)' = Carried(p, FreeOps)
        /\ Carried(p, BuildOps)' = Carried(p, BuildOps) - (IF q = p THEN 1 ELSE 0)
        /\ Carried(p, BuildOps) \in Nat
    BY <2>2, OpTable DEF Taken
  <2>4. Links(p)' = Links(p) /\ Spaces(p)' = Spaces(p) /\ (Registered(p)' <=> Registered(p))
    BY <1>1, <1>29 DEF Links, Spaces
  <2>5. UNCHANGED <<reference_count, space_refs>>
    BY <1>1 DEF spaceVars
  <2>6. Threads(p)' = Threads(p) + (IF q = p THEN 1 ELSE 0) /\ Threads(p) \in Nat
    <3>1. DOMAIN tproc = Task /\ tproc[t] # p
      BY <1>2, <1>9 DEF VarTypes, Pid
    <3>2. Changed(Threads(p), Threads(p)', IF q = p THEN 1 ELSE 0, IF tproc[t] = p THEN 1 ELSE 0)
      BY <1>8, <3>1, ThreadsStep
    <3> QED BY <3>1, <3>2 DEF Changed
  <2>7. live_threads'[p] = live_threads[p] + (IF q = p THEN 1 ELSE 0)
    BY <1>2, <1>8 DEF VarTypes
  <2>8. Threads(p)' + Carried(p, RefOps)' = Threads(p) + Carried(p, RefOps)
    <3>1. CASE q = p
      <4>1. Carried(p, RefOps)' = Carried(p, RefOps) - 1 /\ Threads(p)' = Threads(p) + 1
        BY <2>3, <2>6, <3>1
      <4>2. \A x, y \in Nat : (x + 1) + (y - 1) = x + y
        OBVIOUS
      <4> QED BY <2>3, <2>6, <4>1, <4>2, Zenon
    <3>2. CASE q # p
      BY <2>3, <2>6, <3>2
    <3> QED BY <3>1, <3>2
  <2>9. live_threads'[p] = Threads(p)' + Carried(p, DetachOps)'
    <3>1. live_threads[p] = Threads(p) + Carried(p, DetachOps)
      BY <2>1 DEF CountOK
    <3> QED BY <2>1, <2>3, <2>6, <2>7, <3>1
  <2>10. state'[p] = "RUNNING" <=> live_threads'[p] > 0
    <3>1. CASE p = q
      BY <1>20, <2>1, <2>7, <3>1
    <3>2. CASE p # q
      <4>1. live_threads'[p] = live_threads[p] /\ state'[p] = state[p]
        BY <1>20, <2>1, <2>7, <3>2
      <4> QED BY <2>1, <4>1 DEF CountOK
    <3> QED BY <3>1, <3>2
  <2>11. /\ state'[p] = "NEW" => state[p] = "NEW"
         /\ state[p] = "DEAD" <=> state'[p] = "DEAD"
    BY <1>7, <1>20
  <2>12. Carried(p, BuildOps)' <= Carried(p, BuildOps)
    BY <2>3
  <2>13. state'[p] = "NEW" => Carried(p, BuildOps)' <= 1
    <3>1. Carried(p, BuildOps)' \in Nat
      BY <2>2 DEF Taken
    <3>2. state[p] = "NEW" => Carried(p, BuildOps) <= 1
      BY <2>1 DEF CountOK
    <3> QED BY <2>3, <2>11, <2>12, <3>1, <3>2
  <2>14. reference_count'[p] = Links(p)' + (Threads(p)' + Carried(p, RefOps)')
    BY <2>1, <2>4, <2>5, <2>8 DEF CountOK
  <2> QED BY <2>1, <2>3, <2>4, <2>5, <2>9, <2>10, <2>11, <2>13, <2>14 DEF CountOK
<1> QED BY <1>16, <1>17, <1>26, <1>27, <1>28, <1>30, <1>31 DEF PInv

\* A task is made for q and given a space of q; its maker goes on with s.
LEMMA NewTask ==
    ASSUME PInv, NEW a \in Actor, a # reaper, NEW q \in Pid \ {kernel_process},
           q < next_process_id, NEW t \in Task, tstate[t] = "UNUSED", NEW s \in Seq(Frame),
           Len(s) + Num(s, Pid, {"release"}) <= 8, todo' = [todo EXCEPT ![a] = s],
           s # <<>> => Shape(a, s)', ListOK(a, s)',
           \A i \in 1..Len(s) : s[i].op = "publish" => s[i].t = t,
           tstate' = [tstate EXCEPT ![t] = "NEW"], tspace' = [tspace EXCEPT ![t] = q],
           space_refs' = [space_refs EXCEPT ![q] = @ + 1], stack_slots' \in [Pid -> 0..Slots],
           UNCHANGED <<procVars, regVars, tproc, panic>>,
           \A p \in Pid \ {kernel_process} :
              /\ Carried(p, RefOps)' = Carried(p, RefOps)
              /\ Carried(p, SpaceOps)' = Carried(p, SpaceOps)
              /\ Carried(p, DetachOps)' = Carried(p, DetachOps)
              /\ Carried(p, FreeOps)' = Carried(p, FreeOps)
              /\ state[p] = "NEW" => Carried(p, BuildOps)' <= 1
    PROVE  PInv'
<1>1. VarTypes /\ ListTypes /\ CountsOK /\ ProcessesOK /\ NoBadPanic /\ TasksOK /\ PublishOnce
  BY DEF PInv
<1>2. tproc[t] = 0 /\ tspace[t] = 0
  BY <1>1 DEF TasksOK, TaskOK
<1>3. OnlyTask(t) /\ tproc'[t] = 0 /\ tspace'[t] = q /\ tstate'[t] = "NEW"
  BY <1>1, <1>2 DEF OnlyTask, VarTypes
<1>4. Elsewhere(a, t)
  BY TaskAlone
<1>5. ListTypes'
  BY <1>1, ListStep
<1>6. VarTypes' /\ NoBadPanic'
  <2>1. /\ tspace' \in [Task -> 0..MaxPid] /\ space_refs' \in [Pid -> Nat]
        /\ tstate' \in [Task -> {"UNUSED", "NEW", "ALIVE", "ZOMBIE"}]
    <3>1. q \in 0..MaxPid
      BY KernelPid DEF Pid
    <3> QED BY <1>1, <3>1, SMTT(30) DEF VarTypes
  <2> QED BY <1>1, <2>1 DEF VarTypes, NoBadPanic, procVars, regVars
<1>7. Shapes' /\ FramesOK'
  BY <1>3, <1>4, TaskStep DEF procVars, regVars
<1>8. PublishOnce'
  <2>1. \A i \in 1..Len(s) : \A b \in Actor \ {a} : \A j \in 1..Len(todo[b]) :
           s[i].op = "publish" /\ todo[b][j].op = "publish" => todo[b][j].t # s[i].t
    BY <1>4 DEF Elsewhere
  <2> QED BY <1>1, <2>1, PublishStep
<1>9. TasksOK'
  <2>1. todo'[reaper] = todo[reaper]
    BY <1>1 DEF ListTypes, Actor
  <2>2. TaskOK(t)'
    <3>1. q \in 2..(next_process_id - 1)
      BY <1>1 DEF Pid, kernel_process, VarTypes
    <3> QED BY <1>3, <3>1 DEF TaskOK, regVars
  <2> QED BY <1>1, <1>3, <2>1, <2>2, OthersOK DEF regVars
<1>10. ProcessesOK'
  BY <1>1, SameProcesses DEF procVars, regVars
<1>11. CountsOK'
  <2> SUFFICES ASSUME NEW p \in Pid \ {kernel_process} PROVE CountOK(p)'
    BY DEF CountsOK
  <2>1. CountOK(p) /\ space_refs[p] \in Nat
    BY <1>1 DEF CountsOK, VarTypes
  <2>2. Links(p)' = Links(p) /\ Threads(p)' = Threads(p) /\ (Registered(p)' <=> Registered(p))
        /\ UNCHANGED <<state, reference_count, live_threads>>
    BY DEF Links, Threads, Registered, procVars
  <2>3. Spaces(p)' = Spaces(p) + (IF q = p THEN 1 ELSE 0) /\ Spaces(p) \in Nat
    <3>1. DOMAIN tspace = Task /\ tspace[t] # p
      BY <1>1, <1>2 DEF VarTypes, Pid
    <3>2. Changed(Spaces(p), Spaces(p)', IF q = p THEN 1 ELSE 0, IF tspace[t] = p THEN 1 ELSE 0)
      BY <3>1, SpacesStep
    <3> QED BY <3>1, <3>2 DEF Changed
  <2>4. space_refs'[p] = space_refs[p] + (IF q = p THEN 1 ELSE 0)
    BY <1>1, SMTT(30) DEF VarTypes
  <2>5. Carried(p, SpaceOps)' = Carried(p, SpaceOps) /\ Carried(p, SpaceOps) \in Nat
    BY CarriedType
  <2>6. space_refs'[p] = (IF Registered(p)' THEN 1 ELSE 0) + (Spaces(p)' + Carried(p, SpaceOps)')
    <3>1. PICK k \in Nat : k = (IF Registered(p) THEN 1 ELSE 0)
      OBVIOUS
    <3>2. space_refs[p] = k + (Spaces(p) + Carried(p, SpaceOps))
      BY <2>1, <3>1 DEF CountOK
    <3>3. space_refs'[p] = k + (Spaces(p)' + Carried(p, SpaceOps)')
      BY <2>1, <2>3, <2>4, <2>5, <3>2
    <3> QED BY <2>2, <3>1, <3>3
  <2>7. /\ Carried(p, RefOps)' = Carried(p, RefOps) /\ Carried(p, DetachOps)' = Carried(p, DetachOps)
        /\ Carried(p, FreeOps)' = Carried(p, FreeOps)
        /\ state[p] = "NEW" => Carried(p, BuildOps)' <= 1
    OBVIOUS
  <2> QED BY <2>1, <2>2, <2>6, <2>7 DEF CountOK
<1> QED BY <1>5, <1>6, <1>7, <1>8, <1>9, <1>10, <1>11 DEF PInv

\* task_create_user_unpublished for a new process, or what is given up without one.
LEMMA SpawnTaskInv ==
    ASSUME PInv, NEW a \in Actor, spawn_task(a) PROVE PInv'
<1>1. At(a, "task") /\ UNCHANGED <<procVars, regVars, stack_slots, tproc, panic>>
  BY DEF spawn_task
<1>2. VarTypes /\ ListTypes /\ CountsOK /\ ProcessesOK /\ NoBadPanic
  BY DEF PInv
<1>3. PICK q \in Pid : q = P(a)
  BY <1>1, HeadFacts
<1>4. PICK f \in Frame : f = todo[a][1]
  BY <1>1, HeadFacts
<1>5. /\ todo[a] = <<f>> /\ f.op = "task" /\ f.p = q
      /\ FrameOK(a, f) /\ Shape(a, todo[a]) /\ Len(todo[a]) = 1 /\ todo[a] # <<>>
      /\ todo[a] \in Seq(Frame) /\ \A fs \in Seq(Frame) : fs \o Tail(todo[a]) = fs
  BY <1>1, <1>3, <1>4, HeadFacts DEF LastOps
<1>6. a # reaper /\ (a \in Task => tstate[a] = "ALIVE")
  BY <1>5 DEF Shape
<1>7. q # kernel_process /\ q < next_process_id /\ state[q] = "NEW"
  BY <1>5 DEF FrameOK
<1>h. f.op = "task" /\ f.p = q
  BY <1>5, Zenon
<1>8. ASSUME NEW t \in Task, tstate[t] = "UNUSED", tstate' = [tstate EXCEPT ![t] = "NEW"],
             tspace' = [tspace EXCEPT ![t] = q], space_refs' = [space_refs EXCEPT ![q] = @ + 1],
             Then(a, <<FT("bind", q, t), F("release", q), F("space", q), FT("publish", q, t)>>)
      PROVE  PInv'
  <2>1. /\ FT("bind", q, t) \in Frame /\ F("release", q) \in Frame /\ F("space", q) \in Frame
        /\ FT("publish", q, t) \in Frame
    BY FrameFacts
  <2>2. PICK s \in Seq(Frame) :
           s = <<FT("bind", q, t), F("release", q), F("space", q), FT("publish", q, t)>>
    <3>1. <<FT("bind", q, t), F("release", q), F("space", q), FT("publish", q, t)>> \in Seq(Frame)
      BY <2>1
    <3> QED BY <3>1, Zenon
  <2>3. todo' = [todo EXCEPT ![a] = s]
    <3>1. todo' = [todo EXCEPT ![a] = s \o Tail(todo[a])]
      BY <1>2, <1>8, <2>2 DEF Then, ListTypes
    <3>2. s \o Tail(todo[a]) = s
      BY <1>5
    <3> QED BY <3>1, <3>2, Zenon
  <2>4. /\ s # <<>> /\ Len(s) = 4 /\ s[1] = FT("bind", q, t) /\ s[2] = F("release", q)
        /\ s[3] = F("space", q) /\ s[4] = FT("publish", q, t)
    BY <2>1, <2>2
  <2>5. \A ps, ops : Num(s, ps, ops) =
           One(FT("bind", q, t), ps, ops) + (One(F("release", q), ps, ops)
           + (One(F("space", q), ps, ops) + One(FT("publish", q, t), ps, ops)))
    BY <2>1, <2>2, Num4
  <2>6. \A i \in 1..Len(s) : i = 1 \/ i = 2 \/ i = 3 \/ i = 4
    BY <2>4
  <2>7. Len(s) + Num(s, Pid, {"release"}) <= 8
    <3>1. /\ One(FT("bind", q, t), Pid, {"release"}) = 0 /\ One(F("release", q), Pid, {"release"}) = 1
          /\ One(F("space", q), Pid, {"release"}) = 0 /\ One(FT("publish", q, t), Pid, {"release"}) = 0
      BY DEF One, F, FT
    <3>2. Num(s, Pid, {"release"}) = 0 + (1 + (0 + 0))
      BY <2>5, <3>1
    <3> QED BY <2>4, <3>2
  <2>8. /\ tproc'[t] = 0 /\ tstate'[t] = "NEW" /\ tspace'[t] = q
        /\ a \in Task => tstate'[a] = "ALIVE"
    BY <1>1, <1>2, <1>6, <1>8 DEF PInv, TasksOK, TaskOK, VarTypes
  <2>9. Shape(a, s)'
    <3>1. FT("bind", q, t).p = q /\ FT("bind", q, t).t = t /\ FT("bind", q, t).op = "bind"
      BY DEF FT
    <3>2. \A i \in 1..Len(s) : /\ s[i].op \in FirstOps => i = 1
                               /\ s[i].op \in LastOps => i = Len(s)
      BY <2>4, <2>6 DEF F, FT, FirstOps, LastOps
    <3> QED BY <1>6, <2>4, <2>8, <3>1, <3>2 DEF Shape
  <2>10. ListOK(a, s)'
    <3>1. state'[q] = "NEW" /\ q < next_process_id'
      BY <1>1, <1>7 DEF procVars, regVars
    <3>2. /\ FrameOK(a, FT("bind", q, t))' /\ FrameOK(a, FT("publish", q, t))'
          /\ FrameOK(a, F("release", q))' /\ FrameOK(a, F("space", q))'
      BY <1>7, <2>8, <3>1 DEF FrameOK, F, FT
    <3> QED BY <2>4, <2>6, <3>2 DEF ListOK
  <2>11. \A i \in 1..Len(s) : s[i].op = "publish" => s[i].t = t
    BY <2>4, <2>6 DEF F, FT
  <2>12. ASSUME NEW p \in Pid \ {kernel_process}
         PROVE  /\ Carried(p, RefOps)' = Carried(p, RefOps)
                /\ Carried(p, SpaceOps)' = Carried(p, SpaceOps)
                /\ Carried(p, DetachOps)' = Carried(p, DetachOps)
                /\ Carried(p, FreeOps)' = Carried(p, FreeOps)
                /\ Carried(p, BuildOps)' = Carried(p, BuildOps)
    <3>1. \A ops : Changed(Carried(p, ops), Carried(p, ops)', Num(s, {p}, ops), One(f, {p}, ops))
      BY <1>2, <1>5, <2>3, LoneStep
    <3>2. \A ops : One(f, {p}, ops) = IF q = p /\ "task" \in ops THEN 1 ELSE 0
      BY <1>h, HeadOne
    <3>3. \A ops : Num(s, {p}, ops) = (IF q = p /\ "bind" \in ops THEN 1 ELSE 0)
              + ((IF q = p /\ "release" \in ops THEN 1 ELSE 0)
                 + ((IF q = p /\ "space" \in ops THEN 1 ELSE 0)
                    + (IF q = p /\ "publish" \in ops THEN 1 ELSE 0)))
      BY <2>5 DEF One, F, FT
    <3>4. /\ Carried(p, RefOps)' = Carried(p, RefOps)
          /\ Carried(p, SpaceOps)' = Carried(p, SpaceOps)
          /\ Carried(p, DetachOps)' = Carried(p, DetachOps)
          /\ Carried(p, FreeOps)' = Carried(p, FreeOps)
          /\ Carried(p, BuildOps)' = Carried(p, BuildOps)
      <4>1. /\ Changed(Carried(p, RefOps), Carried(p, RefOps)', Num(s, {p}, RefOps), One(f, {p}, RefOps))
            /\ Changed(Carried(p, SpaceOps), Carried(p, SpaceOps)', Num(s, {p}, SpaceOps), One(f, {p}, SpaceOps))
            /\ Changed(Carried(p, DetachOps), Carried(p, DetachOps)', Num(s, {p}, DetachOps), One(f, {p}, DetachOps))
            /\ Changed(Carried(p, FreeOps), Carried(p, FreeOps)', Num(s, {p}, FreeOps), One(f, {p}, FreeOps))
            /\ Changed(Carried(p, BuildOps), Carried(p, BuildOps)', Num(s, {p}, BuildOps), One(f, {p}, BuildOps))
        BY <3>1
      <4>2. /\ Num(s, {p}, RefOps) = 0 + ((IF q = p THEN 1 ELSE 0) + (0 + 0)) /\ One(f, {p}, RefOps) = (IF q = p THEN 1 ELSE 0)
            /\ Num(s, {p}, SpaceOps) = 0 + (0 + ((IF q = p THEN 1 ELSE 0) + 0)) /\ One(f, {p}, SpaceOps) = (IF q = p THEN 1 ELSE 0)
            /\ Num(s, {p}, DetachOps) = 0 + (0 + (0 + 0)) /\ One(f, {p}, DetachOps) = 0
            /\ Num(s, {p}, FreeOps) = 0 + (0 + (0 + 0)) /\ One(f, {p}, FreeOps) = 0
            /\ Num(s, {p}, BuildOps) = (IF q = p THEN 1 ELSE 0) + (0 + (0 + 0)) /\ One(f, {p}, BuildOps) = (IF q = p THEN 1 ELSE 0)
        BY <3>2, <3>3, OpTable
      <4> QED BY <4>1, <4>2 DEF Changed
    <3> QED BY <3>4
  <2>13. \A p \in Pid \ {kernel_process} : state[p] = "NEW" => Carried(p, BuildOps)' <= 1
    BY <1>2, <2>12 DEF CountsOK, CountOK
  <2> QED BY <1>1, <1>2, <1>6, <1>7, <1>8, <2>3, <2>7, <2>9, <2>10, <2>11, <2>12, <2>13, NewTask
          DEF VarTypes
<1>9. ASSUME Instead(a, Undo(q)), UNCHANGED <<tstate, tspace, space_refs, held>>
      PROVE  PInv'
  <2> DEFINE s == Undo(q)
  <2>1. todo' = [todo EXCEPT ![a] = s]
    BY <1>9 DEF Instead
  <2>2. /\ s \in Seq(Frame) /\ Len(s) = 3 /\ Num(s, Pid, {"release"}) = 1
        /\ \A p, ops : Num(s, {p}, ops) =
              One(F("release", q), {p}, ops)
              + (One(F("space", q), {p}, ops) + One(F("context", q), {p}, ops))
    BY UndoFacts
  <2>3. Shape(a, s) /\ ListOK(a, s) /\ Inherits(a, s) /\ s # <<>>
    BY <1>6, <1>7, UndoOK
  <2> HIDE DEF s
  <2>4. ListTypes'
    <3>1. Len(s) + Num(s, Pid, {"release"}) <= 8
      BY <2>2
    <3> QED BY <1>2, <2>1, <2>2, <3>1, ListStep
  <2>5. Shapes' /\ FramesOK' /\ PublishOnce' /\ TasksOK'
    BY <1>1, <1>6, <1>9, <2>1, <2>2, <2>3, QuietStep DEF procVars, regVars
  <2>6. ProcessesOK'
    BY <1>1, <1>2, SameProcesses DEF procVars, regVars
  <2>7. VarTypes' /\ NoBadPanic'
    BY <1>1, <1>2, <1>9 DEF VarTypes, NoBadPanic, procVars, regVars
  <2>8. CountsOK'
    <3> SUFFICES ASSUME NEW p \in Pid \ {kernel_process} PROVE CountOK(p)'
      BY DEF CountsOK
    <3>1. CountOK(p)
      BY <1>2 DEF CountsOK
    <3>2. \A ops : Changed(Carried(p, ops), Carried(p, ops)', Num(s, {p}, ops), One(f, {p}, ops))
      BY <1>2, <1>5, <2>1, <2>2, LoneStep
    <3>3. \A ops : One(f, {p}, ops) = IF q = p /\ "task" \in ops THEN 1 ELSE 0
      BY <1>h, HeadOne
    <3>4. \A ops : Num(s, {p}, ops) = (IF q = p /\ "release" \in ops THEN 1 ELSE 0)
              + ((IF q = p /\ "space" \in ops THEN 1 ELSE 0)
                 + (IF q = p /\ "context" \in ops THEN 1 ELSE 0))
      BY <2>2 DEF One, F
    <3>5. /\ Carried(p, RefOps)' = Carried(p, RefOps)
          /\ Carried(p, SpaceOps)' = Carried(p, SpaceOps)
          /\ Carried(p, DetachOps)' = Carried(p, DetachOps)
          /\ Carried(p, FreeOps)' = Carried(p, FreeOps)
          /\ Carried(p, BuildOps)' <= Carried(p, BuildOps)
          /\ Carried(p, BuildOps)' \in Nat /\ Carried(p, BuildOps) \in Nat
      <4>1. /\ Changed(Carried(p, RefOps), Carried(p, RefOps)', Num(s, {p}, RefOps), One(f, {p}, RefOps))
            /\ Changed(Carried(p, SpaceOps), Carried(p, SpaceOps)', Num(s, {p}, SpaceOps), One(f, {p}, SpaceOps))
            /\ Changed(Carried(p, DetachOps), Carried(p, DetachOps)', Num(s, {p}, DetachOps), One(f, {p}, DetachOps))
            /\ Changed(Carried(p, FreeOps), Carried(p, FreeOps)', Num(s, {p}, FreeOps), One(f, {p}, FreeOps))
            /\ Changed(Carried(p, BuildOps), Carried(p, BuildOps)', Num(s, {p}, BuildOps), One(f, {p}, BuildOps))
        BY <3>2
      <4>2. /\ Num(s, {p}, RefOps) = (IF q = p THEN 1 ELSE 0) + (0 + 0) /\ One(f, {p}, RefOps) = (IF q = p THEN 1 ELSE 0)
            /\ Num(s, {p}, SpaceOps) = 0 + ((IF q = p THEN 1 ELSE 0) + 0) /\ One(f, {p}, SpaceOps) = (IF q = p THEN 1 ELSE 0)
            /\ Num(s, {p}, DetachOps) = 0 + (0 + 0) /\ One(f, {p}, DetachOps) = 0
            /\ Num(s, {p}, FreeOps) = 0 + (0 + 0) /\ One(f, {p}, FreeOps) = 0
            /\ Num(s, {p}, BuildOps) = 0 + (0 + 0) /\ One(f, {p}, BuildOps) = (IF q = p THEN 1 ELSE 0)
        BY <3>3, <3>4, OpTable
      <4> QED BY <4>1, <4>2 DEF Changed
    <3>6. Links(p)' = Links(p) /\ Threads(p)' = Threads(p) /\ Spaces(p)' = Spaces(p)
          /\ (Registered(p)' <=> Registered(p))
      BY <1>1, <1>9 DEF Links, Threads, Spaces, Registered, procVars
    <3>7. UNCHANGED <<state, reference_count, live_threads, space_refs>>
      BY <1>1, <1>9 DEF procVars
    <3> QED BY <3>1, <3>5, <3>6, <3>7 DEF CountOK
  <2> QED BY <2>4, <2>5, <2>6, <2>7, <2>8 DEF PInv
<1> QED BY <1>3, <1>8, <1>9 DEF spawn_task

\* Nothing but the machine halting, or what callers hold.
LEMMA SameParts ==
    ASSUME PInv, UNCHANGED <<state, reference_count, live_threads, parent_id, children, exit_status,
                             next_process_id, live_processes, space_refs, stack_slots, tstate, tproc,
                             tspace, todo>>,
           NoBadPanic'
    PROVE  PInv'
<1>1. VarTypes' /\ ListTypes' /\ Shapes' /\ FramesOK' /\ PublishOnce' /\ TasksOK'
  BY DEF PInv, VarTypes, ListTypes, Shapes, Shape, FramesOK, ListOK, FrameOK, Threaded, PublishOnce,
         TasksOK, TaskOK, Being, Reaping
<1>2. ProcessesOK'
  BY SameProcesses DEF PInv
<1>3. \A p, ops : Carried(p, ops)' = Carried(p, ops)
  BY DEF Carried
<1>4. CountsOK'
  BY <1>3, SameCounts DEF PInv
<1> QED BY <1>1, <1>2, <1>4 DEF PInv

\* user_thread_create_current: a thread of a running process makes another one, or the
\* machine is halted.
LEMMA ThreadCreateInv ==
    ASSUME PInv, NEW a \in Task, NEW t \in Task, user_thread_create(a, t) PROVE PInv'
<1>1. /\ todo[a] = <<>> /\ tstate[a] = "ALIVE" /\ tstate[t] = "UNUSED"
      /\ UNCHANGED <<procVars, regVars, tproc>>
  BY DEF user_thread_create, Ready
<1>2. VarTypes /\ ListTypes /\ CountsOK /\ ProcessesOK /\ NoBadPanic /\ TasksOK
  BY DEF PInv
<1>3. a \in Actor /\ a # reaper /\ a # t
  BY <1>1, ProcessAssumption DEF Actor
<1>4. PICK q \in Pid : q = tproc[a] /\ q # kernel_process /\ q < next_process_id
  <2>1. tproc[a] \in 2..(next_process_id - 1) /\ next_process_id \in 2..(MaxPid + 1)
    BY <1>1, <1>2 DEF TasksOK, TaskOK, Being, VarTypes
  <2>2. tproc[a] \in Pid /\ tproc[a] # kernel_process /\ tproc[a] < next_process_id
    BY <2>1, KernelPid DEF Pid, kernel_process
  <2> QED BY <2>2
<1>5. state[q] = "RUNNING"
  BY <1>4, ThreadRuns
<1>6. ASSUME panic' = IF NoFreeSlot(q) THEN "worker stack creation failed"
                      ELSE "failed allocating worker task",
             UNCHANGED <<stack_slots, tstate, tspace, space_refs, held, todo>>
      PROVE  PInv'
  <2>1. NoBadPanic'
    BY <1>6 DEF NoBadPanic, BadPanic
  <2> QED BY <1>1, <1>6, <2>1, SameParts DEF procVars, regVars
<1>7. ASSUME ~NoFreeSlot(q), stack_slots' = [stack_slots EXCEPT ![q] = @ + 1],
             tstate' = [tstate EXCEPT ![t] = "NEW"], tspace' = [tspace EXCEPT ![t] = q],
             space_refs' = [space_refs EXCEPT ![q] = @ + 1],
             todo' = [todo EXCEPT ![a] = <<FT("bind", q, t), FT("publish", q, t)>>],
             panic' = panic
      PROVE  PInv'
  <2>1. FT("bind", q, t) \in Frame /\ FT("publish", q, t) \in Frame
    BY FrameFacts
  <2>2. PICK s \in Seq(Frame) : s = <<FT("bind", q, t), FT("publish", q, t)>>
    <3>1. <<FT("bind", q, t), FT("publish", q, t)>> \in Seq(Frame)
      BY <2>1
    <3> QED BY <3>1, Zenon
  <2>3. todo' = [todo EXCEPT ![a] = s]
    BY <1>7, <2>2, Zenon
  <2>4. s # <<>> /\ Len(s) = 2 /\ s[1] = FT("bind", q, t) /\ s[2] = FT("publish", q, t)
    BY <2>1, <2>2
  <2>5. \A ps, ops : Num(s, ps, ops) = One(FT("bind", q, t), ps, ops) + One(FT("publish", q, t), ps, ops)
    BY <2>1, <2>2, Num2
  <2>6. \A i \in 1..Len(s) : i = 1 \/ i = 2
    BY <2>4
  <2>7. Len(s) + Num(s, Pid, {"release"}) <= 8
    <3>1. One(FT("bind", q, t), Pid, {"release"}) = 0 /\ One(FT("publish", q, t), Pid, {"release"}) = 0
      BY DEF One, FT
    <3>2. Num(s, Pid, {"release"}) = 0 + 0
      BY <2>5, <3>1
    <3> QED BY <2>4, <3>2
  <2>8. /\ tproc'[t] = 0 /\ tstate'[t] = "NEW" /\ tspace'[t] = q
        /\ tstate'[a] = "ALIVE" /\ Threaded(a, q)'
    BY <1>1, <1>2, <1>3, <1>4, <1>7 DEF TasksOK, TaskOK, VarTypes, Threaded
  <2>9. Shape(a, s)'
    <3>1. FT("bind", q, t).p = q /\ FT("bind", q, t).t = t /\ FT("bind", q, t).op = "bind"
      BY DEF FT
    <3>2. \A i \in 1..Len(s) : /\ s[i].op \in FirstOps => i = 1
                               /\ s[i].op \in LastOps => i = Len(s)
      BY <2>4, <2>6 DEF FT, FirstOps, LastOps
    <3> QED BY <1>3, <2>4, <2>8, <3>1, <3>2 DEF Shape
  <2>10. ListOK(a, s)'
    <3>1. q < next_process_id'
      BY <1>1, <1>4 DEF regVars
    <3>2. FrameOK(a, FT("bind", q, t))' /\ FrameOK(a, FT("publish", q, t))'
      BY <1>4, <2>8, <3>1 DEF FrameOK, FT
    <3> QED BY <2>4, <2>6, <3>2 DEF ListOK
  <2>11. \A i \in 1..Len(s) : s[i].op = "publish" => s[i].t = t
    BY <2>4, <2>6 DEF FT
  <2>12. stack_slots' \in [Pid -> 0..Slots]
    <3>1. stack_slots \in [Pid -> 0..Slots] /\ stack_slots[q] \in 0..Slots /\ stack_slots[q] # Slots
          /\ Slots \in Nat
      BY <1>2, <1>7, ProcessAssumption DEF VarTypes, NoFreeSlot
    <3>2. stack_slots[q] + 1 \in 0..Slots
      BY <3>1
    <3> QED BY <1>7, <3>1, <3>2
  <2>13. ASSUME NEW p \in Pid \ {kernel_process}
         PROVE  /\ Carried(p, RefOps)' = Carried(p, RefOps)
                /\ Carried(p, SpaceOps)' = Carried(p, SpaceOps)
                /\ Carried(p, DetachOps)' = Carried(p, DetachOps)
                /\ Carried(p, FreeOps)' = Carried(p, FreeOps)
                /\ Carried(p, BuildOps)' = Carried(p, BuildOps) + (IF q = p THEN 1 ELSE 0)
                /\ Carried(p, BuildOps) \in Nat
    <3>1. \A ops : Changed(Carried(p, ops), Carried(p, ops)', Num(s, {p}, ops), 0)
      <4> TAKE ops
      <4>1. Changed(Carried(p, ops), Carried(p, ops)', Num(s, {p}, ops), Num(todo[a], {p}, ops))
        BY <1>2, <1>3, <2>3, CarriedStep
      <4>2. Num(todo[a], {p}, ops) = 0
        BY <1>1, Num0
      <4> QED BY <4>1, <4>2
    <3>2. \A ops : Num(s, {p}, ops) = (IF q = p /\ "bind" \in ops THEN 1 ELSE 0)
                                      + (IF q = p /\ "publish" \in ops THEN 1 ELSE 0)
      BY <2>5 DEF One, FT
    <3>3. /\ Carried(p, RefOps)' = Carried(p, RefOps)
          /\ Carried(p, SpaceOps)' = Carried(p, SpaceOps)
          /\ Carried(p, DetachOps)' = Carried(p, DetachOps)
          /\ Carried(p, FreeOps)' = Carried(p, FreeOps)
          /\ Carried(p, BuildOps)' = Carried(p, BuildOps) + (IF q = p THEN 1 ELSE 0)
          /\ Carried(p, BuildOps) \in Nat
      <4>1. /\ Changed(Carried(p, RefOps), Carried(p, RefOps)', Num(s, {p}, RefOps), 0)
            /\ Changed(Carried(p, SpaceOps), Carried(p, SpaceOps)', Num(s, {p}, SpaceOps), 0)
            /\ Changed(Carried(p, DetachOps), Carried(p, DetachOps)', Num(s, {p}, DetachOps), 0)
            /\ Changed(Carried(p, FreeOps), Carried(p, FreeOps)', Num(s, {p}, FreeOps), 0)
            /\ Changed(Carried(p, BuildOps), Carried(p, BuildOps)', Num(s, {p}, BuildOps), 0)
        BY <3>1
      <4>2. /\ Num(s, {p}, RefOps) = 0 + 0
            /\ Num(s, {p}, SpaceOps) = 0 + 0
            /\ Num(s, {p}, DetachOps) = 0 + 0
            /\ Num(s, {p}, FreeOps) = 0 + 0
            /\ Num(s, {p}, BuildOps) = (IF q = p THEN 1 ELSE 0) + 0
        BY <3>2, OpTable
      <4> QED BY <4>1, <4>2 DEF Changed
    <3> QED BY <3>3
  <2>14. ASSUME NEW p \in Pid \ {kernel_process}, state[p] = "NEW" PROVE Carried(p, BuildOps)' <= 1
    <3>1. q # p
      BY <1>5, <2>14
    <3>2. Carried(p, BuildOps)' = Carried(p, BuildOps)
      BY <2>13, <3>1
    <3> QED BY <1>2, <2>14, <3>2 DEF CountsOK, CountOK
  <2> QED BY <1>1, <1>3, <1>4, <1>7, <2>3, <2>7, <2>9, <2>10, <2>11, <2>12, <2>13, <2>14, NewTask
<1> QED BY <1>4, <1>6, <1>7 DEF user_thread_create

-----------------------------------------------------------------------------
(* The invariant of the specification.                                     *)

\* Once process_initialize is done there is only the kernel process.
LEMMA InitInv == Init => PInv
<1> SUFFICES ASSUME Init PROVE PInv
  OBVIOUS
<1>1. \A a \in Actor : todo[a] = <<>> /\ Len(todo[a]) = 0
  BY DEF Init
<1>2. VarTypes
  <2>1. MaxPid \in Nat /\ MaxPid >= 1 /\ Slots \in Nat /\ 0 \in Status
    BY ProcessAssumption
  <2>2. 0 \in 0..MaxPid /\ 0 \in 0..Slots /\ 2 \in 2..(MaxPid + 1)
    BY <2>1
  <2> QED BY <2>1, <2>2 DEF Init, VarTypes
<1>3. ListTypes
  <2>1. todo \in [Actor -> Seq(Frame)]
    BY DEF Init
  <2>2. \A a \in Actor : Num(todo[a], Pid, {"release"}) = 0
    BY <1>1, Num0
  <2> QED BY <1>1, <2>1, <2>2 DEF ListTypes
<1>4. Shapes /\ FramesOK /\ PublishOnce
  <2>1. Shapes
    BY <1>1 DEF Shapes
  <2>2. FramesOK
    BY <1>1 DEF FramesOK, ListOK
  <2>3. PublishOnce
    BY <1>1 DEF PublishOnce
  <2> QED BY <2>1, <2>2, <2>3
<1>5. TasksOK
  BY DEF Init, TasksOK, TaskOK
<1>6. \A p \in Pid : Registered(p) <=> p = kernel_process
  BY DEF Init, Registered
<1>7. ProcessesOK
  <2>1. \A p \in Pid : (p = kernel_process <=> ~(p >= 2)) /\ p \in Int
    BY DEF Pid, kernel_process
  <2>2. {p \in Pid : Registered(p)} = {kernel_process}
    BY <1>6, KernelPid
  <2>3. live_processes = Cardinality({p \in Pid : Registered(p)})
    BY <2>2, FS_Singleton DEF Init
  <2>4. \A p \in Pid \ {kernel_process} : reference_count[p] > 0 <=> Registered(p)
    BY <1>6 DEF Init
  <2>5. \A p \in Pid : state[p] = "UNBORN" <=> p >= next_process_id
    BY <2>1 DEF Init
  <2>6. state[kernel_process] = "RUNNING" /\ \A p, q \in Pid : p \notin children[q]
    BY KernelPid DEF Init
  <2> QED BY <2>3, <2>4, <2>5, <2>6 DEF ProcessesOK
<1>8. CountsOK
  <2> SUFFICES ASSUME NEW p \in Pid \ {kernel_process} PROVE CountOK(p)
    BY DEF CountsOK
  <2>1. \A ops : Carried(p, ops) = 0
    BY <1>1, <1>3, CarriedNone
  <2>2. {q \in Pid : p \in children[q]} = {} /\ {t \in Task : tproc[t] = p} = {}
        /\ {t \in Task : tspace[t] = p} = {}
    BY DEF Init, Pid
  <2>3. Links(p) = 0 /\ Threads(p) = 0 /\ Spaces(p) = 0
    BY <2>2, FS_EmptySet DEF Links, Threads, Spaces
  <2>4. reference_count[p] = 0 /\ space_refs[p] = 0 /\ live_threads[p] = 0 /\ state[p] = "UNBORN"
    BY DEF Init
  <2> QED BY <1>6, <2>1, <2>3, <2>4 DEF CountOK
<1>9. NoBadPanic
  BY DEF Init, NoBadPanic, BadPanic
<1> QED BY <1>2, <1>3, <1>4, <1>5, <1>7, <1>8, <1>9 DEF PInv

\* Nothing happens.
LEMMA StutterInv == PInv /\ UNCHANGED vars => PInv'
<1> SUFFICES ASSUME PInv, UNCHANGED vars PROVE PInv'
  OBVIOUS
<1>1. NoBadPanic'
  BY DEF PInv, NoBadPanic, vars
<1> QED BY <1>1, SameParts DEF vars, procVars, regVars, spaceVars, taskVars

\* Every step keeps the invariant.
LEMMA NextInv == PInv /\ [Next]_vars => PInv'
<1> SUFFICES ASSUME PInv, [Next]_vars PROVE PInv'
  OBVIOUS
<1>1. ASSUME NEW a \in Actor, Continue(a) PROVE PInv'
  BY <1>1, LoadInv, CreateInv, ContextInv, AcquireInv, RetainInv, AddInv, ReleaseInv, FreeInv,
     SpaceInv, AttachInv, DetachInv, SpawnTaskInv, BindInv, PublishInv, ExitInv, TaskFreeInv
     DEF Continue
<1>2. ASSUME NEW a \in Actor, process_spawn_user(a) PROVE PInv'
  BY <1>2, SpawnUserInv
<1>3. ASSUME NEW t \in Task, task_reap(t) PROVE PInv'
  BY <1>3, ReapInv
<1>4. ASSUME NEW t \in Task, task_entry(t) PROVE PInv'
  BY <1>4, EntryInv
<1>5. ASSUME NEW a \in Task, NEW p \in Pid, process_waitpid(a, p) PROVE PInv'
  BY <1>5, WaitpidInv
<1>6. ASSUME NEW a \in Task, NEW t \in Task, user_thread_create(a, t) PROVE PInv'
  BY <1>6, ThreadCreateInv
<1>7. ASSUME NEW a \in Task, NEW c \in Status, process_set_exit_status(a, c) PROVE PInv'
  BY <1>7, ExitStatusInv
<1>8. CASE UNCHANGED vars
  BY <1>8, StutterInv
<1> QED BY <1>1, <1>2, <1>3, <1>4, <1>5, <1>6, <1>7, <1>8 DEF Next, Reap

\* The inductive invariant holds in every reachable state.
LEMMA Always == Spec => []PInv
BY InitInv, NextInv, PTL DEF Spec

\* Only tasks are REALTIME (user_thread_create, task_exit).
RealtimeOK == realtime \in SUBSET Task
LEMMA RealtimeTasks == Spec => []RealtimeOK
<1>1. Init => RealtimeOK
  BY DEF Init, RealtimeOK
<1>2. RealtimeOK /\ [Next]_vars => RealtimeOK'
  <2> SUFFICES ASSUME RealtimeOK, [Next]_vars PROVE RealtimeOK'
    OBVIOUS
  <2>1. ASSUME NEW a \in Actor, spawn_load(a) \/ process_create(a) \/ free_context(a)
                                \/ process_acquire_by_id(a) \/ process_retain_child(a)
                                \/ process_add_child(a) \/ process_release(a) \/ process_free(a)
                                \/ address_space_release(a) \/ process_thread_detach(a)
                                \/ task_bind_process(a) \/ process_spawn_user(a)
        PROVE  UNCHANGED realtime
    BY <2>1 DEF spawn_load, process_create, free_context, process_acquire_by_id,
                process_retain_child, process_add_child, process_release, process_free,
                address_space_release, process_thread_detach, task_bind_process,
                process_spawn_user, taskVars
  <2>2. ASSUME NEW a \in Actor, process_thread_attach(a) \/ spawn_task(a) \/ task_publish(a)
                                \/ task_free(a)
        PROVE  UNCHANGED realtime
    BY <2>2 DEF process_thread_attach, spawn_task, task_publish, task_free
  <2>3. ASSUME NEW a \in Actor, task_exit(a) PROVE realtime' \in SUBSET Task
    BY <2>3 DEF task_exit, RealtimeOK
  <2>4. ASSUME NEW a \in Task, NEW t \in Task, user_thread_create(a, t)
        PROVE  realtime' \in SUBSET Task
    BY <2>4 DEF user_thread_create, RealtimeOK
  <2>5. ASSUME NEW t \in Task, task_reap(t) PROVE UNCHANGED realtime
    BY <2>5 DEF task_reap
  <2>6. ASSUME NEW a \in Task,
               task_entry(a) \/ (\E p \in Pid : process_waitpid(a, p))
                 \/ (\E s \in Status : process_set_exit_status(a, s))
        PROVE  UNCHANGED realtime
    BY <2>6 DEF task_entry, process_waitpid, process_set_exit_status, taskVars
  <2>7. CASE UNCHANGED vars
    BY <2>7 DEF vars, taskVars, RealtimeOK
  <2> QED BY <2>1, <2>2, <2>3, <2>4, <2>5, <2>6, <2>7 DEF Next, Continue, Reap, RealtimeOK
<1> QED BY <1>1, <1>2, PTL DEF Spec

-----------------------------------------------------------------------------
(* What the invariant says of the counts.                                  *)

\* Every count is the number of its owners, however spawns, exits, waits and the reaper
\* interleave, and none of the panics about a count is reached (process_release,
\* process_thread_detach, address_space_release, task_bind_process).
THEOREM CountsAreExact == Spec => []CountsExact
<1>1. PInv /\ RealtimeOK => CountsExact
  <2> SUFFICES ASSUME PInv, RealtimeOK PROVE CountsExact
    OBVIOUS
  <2>1. TypeOK
    BY TypesOK DEF PInv, RealtimeOK
  <2>2. CountsOK /\ NoBadPanic
    BY DEF PInv
  <2>3. ASSUME NEW p \in Pid \ {kernel_process}
        PROVE  reference_count[p] =
                  Cardinality({q \in Pid : p \in children[q]}) + Threads(p)
                  + Carried(p, {"acquire", "task", "release", "add", "attach"})
    <3>1. reference_count[p] = Links(p) + (Threads(p) + Carried(p, RefOps))
      BY <2>2 DEF CountsOK, CountOK
    <3>2. Links(p) \in Nat /\ Threads(p) \in Nat /\ Carried(p, RefOps) \in Nat
      BY CountTypes, CarriedType
    <3>3. reference_count[p] = Links(p) + Threads(p) + Carried(p, RefOps)
      BY <3>1, <3>2
    <3> QED BY <3>3 DEF Links, RefOps
  <2>4. ASSUME NEW p \in Pid \ {kernel_process}
        PROVE  space_refs[p] =
                  (IF Registered(p) THEN 1 ELSE 0)
                  + Cardinality({t \in Task : tspace[t] = p}) + Carried(p, {"acquire", "task", "space"})
    <3>1. PICK k \in Nat : k = (IF Registered(p) THEN 1 ELSE 0)
      OBVIOUS
    <3>2. space_refs[p] = k + (Spaces(p) + Carried(p, SpaceOps))
      BY <2>2, <3>1 DEF CountsOK, CountOK
    <3>3. Spaces(p) \in Nat /\ Carried(p, SpaceOps) \in Nat
      BY CountTypes, CarriedType
    <3>4. space_refs[p] = k + Spaces(p) + Carried(p, SpaceOps)
      BY <3>2, <3>3
    <3> QED BY <3>1, <3>4 DEF Spaces, SpaceOps
  <2>5. ASSUME NEW p \in Pid \ {kernel_process}
        PROVE  /\ live_threads[p] = Threads(p) + Carried(p, {"detach"})
               /\ state[p] = "RUNNING" <=> live_threads[p] > 0
    BY <2>2 DEF CountsOK, CountOK, DetachOps
  <2>6. ReferencesExact
    BY <2>2, <2>3 DEF ReferencesExact, NoBadPanic, BadPanic
  <2> QED BY <2>1, <2>4, <2>5, <2>6 DEF CountsExact, SpaceReferencesExact, ThreadsExact
<1> QED BY <1>1, Always, RealtimeTasks, PTL

\* A process that a list of children names is registered, whoever the parent is.
LEMMA ChildRegistered ==
    ASSUME PInv, NEW q \in Pid, NEW p \in children[q] PROVE Registered(p)
<1>1. VarTypes /\ CountsOK /\ ProcessesOK
  BY DEF PInv
<1>2. p \in Pid
  BY <1>1 DEF VarTypes
<1>3. CASE p = kernel_process
  BY <1>1, <1>3 DEF ProcessesOK, Registered
<1>4. CASE p # kernel_process
  <2> DEFINE S == {x \in Pid : p \in children[x]}
  <2>1. q \in S /\ IsFiniteSet(S)
    BY Finite, FS_Subset
  <2>2. Cardinality(S) # 0 /\ Cardinality(S) \in Nat
    BY <2>1, FS_EmptySet, FS_CardinalityType
  <2>3. Links(p) \in Nat /\ Links(p) # 0
    BY <2>2 DEF Links
  <2>4. Threads(p) \in Nat /\ Carried(p, RefOps) \in Nat
    BY CountTypes, CarriedType
  <2>5. reference_count[p] = Links(p) + (Threads(p) + Carried(p, RefOps))
    BY <1>1, <1>2, <1>4 DEF CountsOK, CountOK
  <2>6. reference_count[p] > 0
    BY <2>3, <2>4, <2>5
  <2> QED BY <1>1, <1>2, <1>4, <2>6 DEF ProcessesOK
<1> QED BY <1>3, <1>4

\* A frame that will still touch a process finds it.
LEMMA FrameFinds ==
    ASSUME PInv, NEW a \in Actor, NEW i \in 1..Len(todo[a]),
           todo[a][i].op \notin {"space", "context", "publish", "reaped"}
    PROVE  state[todo[a][i].p] # "FREED"
<1>1. VarTypes /\ ListTypes /\ CountsOK /\ ProcessesOK
  BY DEF PInv
<1>2. FrameOK(a, todo[a][i]) /\ todo[a][i] \in Frame
  <2>1. todo[a] \in Seq(Frame)
    BY <1>1 DEF ListTypes
  <2> QED BY <2>1 DEF PInv, FramesOK, ListOK
<1>3. PICK p \in Pid : p = todo[a][i].p
  BY <1>2 DEF Frame
<1>4. todo[a][i].op \in {"load", "create", "acquire", "retain", "add", "task", "release", "free",
                         "bind", "attach", "exit", "detach"}
  BY <1>2 DEF Frame
<1>5. CASE p = kernel_process
  BY <1>1, <1>3, <1>5 DEF ProcessesOK
<1>6. CASE p # kernel_process
  <2>1. CASE todo[a][i].op \in {"load", "create"}
    BY <1>2, <1>3, <1>6, <2>1 DEF FrameOK
  <2>2. CASE todo[a][i].op \in {"acquire", "retain", "add", "task"}
    BY <1>2, <1>3, <2>2 DEF FrameOK
  <2>3. CASE todo[a][i].op = "release"
    <3>1. Carried(p, RefOps) >= 1
      BY <1>1, <1>3, <2>3, CarriedSome, OpTable
    <3>2. Links(p) \in Nat /\ Threads(p) \in Nat /\ Carried(p, RefOps) \in Nat
      BY CountTypes, CarriedType
    <3>3. reference_count[p] = Links(p) + (Threads(p) + Carried(p, RefOps))
      BY <1>1, <1>6 DEF CountsOK, CountOK
    <3>4. reference_count[p] > 0
      BY <3>1, <3>2, <3>3
    <3> QED BY <1>1, <1>3, <1>6, <3>4 DEF ProcessesOK, Registered
  <2>4. CASE todo[a][i].op = "free"
    <3>1. Carried(p, FreeOps) >= 1 /\ Carried(p, FreeOps) \in Nat
      BY <1>1, <1>3, <2>4, CarriedSome, CarriedType, OpTable
    <3>2. Carried(p, FreeOps) <= (IF state[p] = "DEAD" THEN 1 ELSE 0)
      BY <1>1, <1>6 DEF CountsOK, CountOK
    <3> QED BY <1>3, <3>1, <3>2
  <2>5. CASE todo[a][i].op \in {"bind", "attach"}
    BY <1>2, <1>3, <1>6, <2>5, ThreadRuns DEF FrameOK, Threaded
  <2>6. CASE todo[a][i].op = "exit"
    BY <1>2, <1>3, <1>6, <2>6, ThreadRuns DEF FrameOK
  <2>7. CASE todo[a][i].op = "detach"
    <3>1. Carried(p, DetachOps) >= 1
      BY <1>1, <1>3, <2>7, CarriedSome, OpTable
    <3>2. Threads(p) \in Nat /\ Carried(p, DetachOps) \in Nat
      BY CountTypes, CarriedType
    <3>3. live_threads[p] = Threads(p) + Carried(p, DetachOps)
      BY <1>1, <1>6 DEF CountsOK, CountOK
    <3>4. live_threads[p] > 0
      BY <3>1, <3>2, <3>3
    <3> QED BY <1>1, <1>3, <1>6, <3>4 DEF CountsOK, CountOK
  <2> QED BY <1>4, <2>1, <2>2, <2>3, <2>4, <2>5, <2>6, <2>7
<1> QED BY <1>5, <1>6

\* A live task runs in a space that exists, for a process that runs.
LEMMA AliveRuns ==
    ASSUME PInv, NEW t \in Task, tstate[t] = "ALIVE"
    PROVE  space_refs[tspace[t]] > 0 /\ state[tproc[t]] = "RUNNING"
<1>1. VarTypes /\ CountsOK /\ TasksOK
  BY DEF PInv
<1>2. PICK p \in Pid \ {kernel_process} : p = tproc[t] /\ p = tspace[t]
  <2>1. tproc[t] = tspace[t] /\ tproc[t] \in 2..(next_process_id - 1)
        /\ next_process_id \in 2..(MaxPid + 1)
    BY <1>1 DEF TasksOK, TaskOK, Being, VarTypes
  <2>2. tproc[t] \in Pid \ {kernel_process}
    BY <2>1, KernelPid DEF Pid, kernel_process
  <2> QED BY <2>1, <2>2
<1>3. state[p] = "RUNNING" /\ Registered(p)
  BY <1>2, ThreadRuns
<1>4. Spaces(p) \in Nat /\ Carried(p, SpaceOps) \in Nat
  BY CountTypes, CarriedType
<1>5. space_refs[p] = 1 + (Spaces(p) + Carried(p, SpaceOps))
  BY <1>1, <1>3 DEF CountsOK, CountOK
<1>6. space_refs[p] > 0
  BY <1>4, <1>5
<1> QED BY <1>2, <1>3, <1>6

\* Nobody touches a process after process_release has freed it.
THEOREM NobodyUsesFreed == Spec => []NoUseAfterFree
<1>1. PInv => NoUseAfterFree
  BY ChildRegistered, FrameFinds, AliveRuns DEF NoUseAfterFree
<1> QED BY <1>1, Always, PTL

-----------------------------------------------------------------------------
(* Zombies.                                                                *)

\* What a step may do to a zombie.
Final(p) == /\ state'[p] \in {"ZOMBIE", "DEAD"} /\ exit_status'[p] = exit_status[p]
            /\ live_threads'[p] = 0

\* A zombie has no thread, and nobody is attaching, detaching or freeing it.
LEMMA ZombieFacts ==
    ASSUME PInv, NEW p \in Pid, state[p] = "ZOMBIE"
    PROVE  /\ p # kernel_process /\ live_threads[p] = 0
           /\ \A t \in Task : tproc[t] # p
           /\ \A a \in Actor : At(a, "attach") \/ At(a, "detach") \/ At(a, "free") => P(a) # p
<1>1. VarTypes /\ ListTypes /\ CountsOK /\ ProcessesOK
  BY DEF PInv
<1>2. p # kernel_process
  BY <1>1 DEF ProcessesOK
<1>3. live_threads[p] = 0
  <2>1. live_threads[p] \in Nat /\ ~(live_threads[p] > 0)
    BY <1>1, <1>2 DEF VarTypes, CountsOK, CountOK
  <2> QED BY <2>1
<1>4. \A t \in Task : tproc[t] # p
  BY <1>2, ThreadRuns
<1>5. ASSUME NEW a \in Actor, At(a, "attach"), P(a) = p PROVE FALSE
  <2>1. FrameOK(a, todo[a][1]) /\ todo[a][1].op = "attach" /\ todo[a][1].p = p
    BY <1>5, HeadFacts
  <2> QED BY <1>4, <2>1 DEF FrameOK, Threaded
<1>6. ASSUME NEW a \in Actor, At(a, "detach"), P(a) = p PROVE FALSE
  <2>1. 1 \in 1..Len(todo[a]) /\ todo[a][1].op = "detach" /\ todo[a][1].p = p
    BY <1>6, HeadFacts
  <2>2. Carried(p, DetachOps) >= 1 /\ Carried(p, DetachOps) \in Nat /\ Threads(p) \in Nat
    BY <1>1, <2>1, CarriedSome, CarriedType, CountTypes, OpTable
  <2>3. live_threads[p] = Threads(p) + Carried(p, DetachOps)
    BY <1>1, <1>2 DEF CountsOK, CountOK
  <2> QED BY <1>3, <2>2, <2>3
<1>7. ASSUME NEW a \in Actor, At(a, "free"), P(a) = p PROVE FALSE
  <2>1. 1 \in 1..Len(todo[a]) /\ todo[a][1].op = "free" /\ todo[a][1].p = p
    BY <1>7, HeadFacts
  <2>2. Carried(p, FreeOps) >= 1 /\ Carried(p, FreeOps) \in Nat
    BY <1>1, <2>1, CarriedSome, CarriedType, OpTable
  <2>3. Carried(p, FreeOps) <= 0
    BY <1>1, <1>2 DEF CountsOK, CountOK
  <2> QED BY <2>2, <2>3
<1> QED BY <1>2, <1>3, <1>4, <1>5, <1>6, <1>7

\* No step takes a zombie anywhere but to its end.
LEMMA ZombieStep ==
    ASSUME PInv, [Next]_vars, NEW p \in Pid, state[p] = "ZOMBIE" PROVE Final(p)
<1>1. /\ p # kernel_process /\ live_threads[p] = 0 /\ \A t \in Task : tproc[t] # p
      /\ \A a \in Actor : At(a, "attach") \/ At(a, "detach") \/ At(a, "free") => P(a) # p
  BY ZombieFacts
<1>2. DOMAIN state = Pid /\ DOMAIN live_threads = Pid /\ DOMAIN exit_status = Pid
  BY DEF PInv, VarTypes
<1>3. ASSUME UNCHANGED <<state, live_threads, exit_status>> PROVE Final(p)
  BY <1>1, <1>3 DEF Final
<1>4. ASSUME NEW a \in Actor, Continue(a) PROVE Final(p)
  <2>1. CASE spawn_load(a)
    BY <1>3, <2>1 DEF spawn_load, procVars
  <2>2. CASE process_create(a)
    <3>1. PICK n \in Pid : n = next_process_id
      BY <2>2 DEF process_create
    <3>2. state[n] = "UNBORN"
      BY <3>1, UnbornFacts
    <3>3. state' = [state EXCEPT ![n] = "NEW"] /\ UNCHANGED <<live_threads, exit_status>>
      BY <2>2, <3>1 DEF process_create
    <3> QED BY <1>1, <1>2, <3>2, <3>3 DEF Final
  <2>3. CASE free_context(a)
    BY <1>3, <2>3 DEF free_context, procVars
  <2>4. CASE process_acquire_by_id(a)
    BY <1>3, <2>4 DEF process_acquire_by_id
  <2>5. CASE process_retain_child(a)
    BY <1>3, <2>5 DEF process_retain_child
  <2>6. CASE process_add_child(a)
    BY <1>3, <2>6 DEF process_add_child
  <2>7. CASE process_release(a)
    <3>1. \/ state' = state
          \/ state' = [state EXCEPT ![P(a)] = "DEAD"]
      BY <2>7 DEF process_release
    <3>2. UNCHANGED <<live_threads, exit_status>>
      BY <2>7 DEF process_release
    <3> QED BY <1>1, <1>2, <3>1, <3>2 DEF Final
  <2>8. CASE process_free(a)
    <3>1. \/ state' = state
          \/ state' = [state EXCEPT ![P(a)] = "FREED"]
      BY <2>8 DEF process_free
    <3>2. At(a, "free") /\ UNCHANGED <<live_threads, exit_status>>
      BY <2>8 DEF process_free
    <3> QED BY <1>1, <1>2, <3>1, <3>2 DEF Final
  <2>9. CASE address_space_release(a)
    BY <1>3, <2>9 DEF address_space_release, procVars
  <2>10. CASE process_thread_attach(a)
    <3>1. At(a, "attach") /\ UNCHANGED exit_status
      BY <2>10 DEF process_thread_attach
    <3>2. \/ UNCHANGED <<state, live_threads>>
          \/ /\ state' = [state EXCEPT ![P(a)] = "RUNNING"]
             /\ live_threads' = [live_threads EXCEPT ![P(a)] = @ + 1]
      BY <2>10 DEF process_thread_attach
    <3> QED BY <1>1, <1>2, <3>1, <3>2 DEF Final
  <2>11. CASE process_thread_detach(a)
    <3>1. At(a, "detach") /\ UNCHANGED exit_status
      BY <2>11 DEF process_thread_detach
    <3>2. /\ state' = [state EXCEPT ![P(a)] = LastDetach(P(a))]
          /\ live_threads' = [live_threads EXCEPT ![P(a)] = IF @ = 0 THEN 0 ELSE @ - 1]
      BY <2>11, Zenon DEF process_thread_detach
    <3> QED BY <1>1, <1>2, <3>1, <3>2 DEF Final
  <2>12. CASE spawn_task(a)
    BY <1>3, <2>12 DEF spawn_task, procVars
  <2>13. CASE task_bind_process(a)
    BY <1>3, <2>13 DEF task_bind_process
  <2>14. CASE task_publish(a)
    BY <1>3, <2>14 DEF task_publish, procVars
  <2>15. CASE task_exit(a)
    BY <1>3, <2>15 DEF task_exit, procVars
  <2>16. CASE task_free(a)
    BY <1>3, <2>16 DEF task_free, procVars
  <2> QED BY <1>4, <2>1, <2>2, <2>3, <2>4, <2>5, <2>6, <2>7, <2>8, <2>9, <2>10, <2>11, <2>12,
             <2>13, <2>14, <2>15, <2>16 DEF Continue
<1>5. ASSUME NEW a \in Actor, process_spawn_user(a) PROVE Final(p)
  BY <1>3, <1>5 DEF process_spawn_user, procVars
<1>6. ASSUME NEW t \in Task, task_reap(t) PROVE Final(p)
  BY <1>3, <1>6 DEF task_reap, procVars
<1>7. ASSUME NEW t \in Task, task_entry(t) PROVE Final(p)
  BY <1>3, <1>7 DEF task_entry, procVars
<1>8. ASSUME NEW a \in Task, NEW q \in Pid, process_waitpid(a, q) PROVE Final(p)
  BY <1>3, <1>8 DEF process_waitpid
<1>9. ASSUME NEW a \in Task, NEW t \in Task, user_thread_create(a, t) PROVE Final(p)
  BY <1>3, <1>9 DEF user_thread_create, procVars
<1>10. ASSUME NEW a \in Task, NEW c \in Status, process_set_exit_status(a, c) PROVE Final(p)
  <2>1. exit_status' = [exit_status EXCEPT ![tproc[a]] = c] /\ UNCHANGED <<state, live_threads>>
    BY <1>10 DEF process_set_exit_status
  <2> QED BY <1>1, <1>2, <2>1 DEF Final
<1>11. CASE UNCHANGED vars
  BY <1>3, <1>11 DEF vars, procVars
<1> QED BY <1>4, <1>5, <1>6, <1>7, <1>8, <1>9, <1>10, <1>11 DEF Next, Reap

\* What waitpid reports stays true: from the moment a process is a zombie it gets no thread
\* and keeps its status, and the only state after it is that of the last release.
THEOREM ZombiesAreFinal == Spec => ZombieIsFinal
<1>1. PInv /\ [Next]_vars => [\A p \in Pid : state[p] = "ZOMBIE" =>
                                 state'[p] \in {"ZOMBIE", "DEAD"} /\ exit_status'[p] = exit_status[p]
                                 /\ live_threads'[p] = 0]_vars
  BY ZombieStep DEF Final
<1> QED BY <1>1, Always, PTL DEF Spec, ZombieIsFinal

-----------------------------------------------------------------------------
(* What spawn holds.                                                       *)

\* The stages of process_spawn_user_internal, one by one.
LEMMA StageTable ==
    /\ Len(Stages) = 12
    /\ Stages[1] = StageOpen /\ Stages[2] = StageCheck /\ Stages[3] = StageBuffer
    /\ Stages[4] = StageRead /\ Stages[5] = StageLength /\ Stages[6] = StageImage
    /\ Stages[7] = StageVerify /\ Stages[8] = StageContext /\ Stages[9] = StageDetach
    /\ Stages[10] = StageAdopt /\ Stages[11] = StageSlot /\ Stages[12] = StageProcess
BY DEF Stages

\* What success and failure of each stage do.
LEMMA StageEffects ==
    /\ StageOpen.gets = {"file"} /\ StageOpen.drops = {} /\ StageOpen.frees = {}
    /\ StageCheck.gets = {} /\ StageCheck.drops = {} /\ StageCheck.frees = {"file"}
    /\ StageBuffer.gets = {"data"} /\ StageBuffer.drops = {} /\ StageBuffer.frees = {"file"}
    /\ StageRead.gets = {} /\ StageRead.drops = {"file"} /\ StageRead.frees = {"data", "file"}
    /\ StageLength.gets = {} /\ StageLength.drops = {} /\ StageLength.frees = {"data"}
    /\ StageImage.gets = {"directory"} /\ StageImage.drops = {"data"} /\ StageImage.frees = {"data"}
    /\ StageVerify.gets = {} /\ StageVerify.drops = {} /\ StageVerify.frees = {"directory"}
    /\ StageContext.gets = {"context"} /\ StageContext.drops = {} /\ StageContext.frees = {"directory"}
    /\ StageDetach.gets = {} /\ StageDetach.drops = {} /\ StageDetach.frees = {"context", "directory"}
    /\ StageAdopt.gets = {} /\ StageAdopt.drops = {} /\ StageAdopt.frees = {"directory", "context"}
    /\ StageSlot.gets = {} /\ StageSlot.drops = {} /\ StageSlot.frees = {"directory", "context"}
    /\ StageProcess.gets = {} /\ StageProcess.drops = {} /\ StageProcess.frees = {"directory", "context"}
BY DEF StageOpen, StageCheck, StageBuffer, StageRead, StageLength, StageImage, StageVerify,
       StageContext, StageDetach, StageAdopt, StageSlot, StageProcess, Stage

\* The resources after n stages.
After(n) == IF n = 0 THEN {} ELSE IF n <= 2 THEN {"file"} ELSE IF n = 3 THEN {"file", "data"}
            ELSE IF n <= 5 THEN {"data"} ELSE IF n <= 7 THEN {"directory"}
            ELSE {"directory", "context"}
LEMMA AfterStages ==
    \A n \in 1..12 : /\ After(n) = (After(n - 1) \cup Stages[n].gets) \ Stages[n].drops
                     /\ After(n - 1) \ Stages[n].frees = {}
<1> TAKE n \in 1..12
<1>0. /\ After(0) = {} /\ After(1) = {"file"} /\ After(2) = {"file"} /\ After(3) = {"file", "data"}
      /\ After(4) = {"data"} /\ After(5) = {"data"} /\ After(6) = {"directory"}
      /\ After(7) = {"directory"} /\ After(8) = {"directory", "context"}
      /\ After(9) = {"directory", "context"} /\ After(10) = {"directory", "context"}
      /\ After(11) = {"directory", "context"} /\ After(12) = {"directory", "context"}
  BY DEF After
<1>1. CASE n = 1
  <2>1. n - 1 = 0
    BY <1>1
  <2>2. After(n) = {"file"} /\ After(n - 1) = {}
    BY <1>0, <1>1, <2>1, Zenon
  <2>3. Stages[n].gets = {"file"} /\ Stages[n].drops = {} /\ Stages[n].frees = {}
    BY <1>1, StageTable, StageEffects, Zenon
  <2> QED BY <2>2, <2>3, Zenon
<1>2. CASE n = 2
  <2>1. n - 1 = 1
    BY <1>2
  <2>2. After(n) = {"file"} /\ After(n - 1) = {"file"}
    BY <1>0, <1>2, <2>1, Zenon
  <2>3. Stages[n].gets = {} /\ Stages[n].drops = {} /\ Stages[n].frees = {"file"}
    BY <1>2, StageTable, StageEffects, Zenon
  <2> QED BY <2>2, <2>3, Zenon
<1>3. CASE n = 3
  <2>1. n - 1 = 2
    BY <1>3
  <2>2. After(n) = {"file", "data"} /\ After(n - 1) = {"file"}
    BY <1>0, <1>3, <2>1, Zenon
  <2>3. Stages[n].gets = {"data"} /\ Stages[n].drops = {} /\ Stages[n].frees = {"file"}
    BY <1>3, StageTable, StageEffects, Zenon
  <2> QED BY <2>2, <2>3, Zenon
<1>4. CASE n = 4
  <2>1. n - 1 = 3
    BY <1>4
  <2>2. After(n) = {"data"} /\ After(n - 1) = {"file", "data"}
    BY <1>0, <1>4, <2>1, Zenon
  <2>3. Stages[n].gets = {} /\ Stages[n].drops = {"file"} /\ Stages[n].frees = {"data", "file"}
    BY <1>4, StageTable, StageEffects, Zenon
  <2> QED BY <2>2, <2>3, Zenon
<1>5. CASE n = 5
  <2>1. n - 1 = 4
    BY <1>5
  <2>2. After(n) = {"data"} /\ After(n - 1) = {"data"}
    BY <1>0, <1>5, <2>1, Zenon
  <2>3. Stages[n].gets = {} /\ Stages[n].drops = {} /\ Stages[n].frees = {"data"}
    BY <1>5, StageTable, StageEffects, Zenon
  <2> QED BY <2>2, <2>3, Zenon
<1>6. CASE n = 6
  <2>1. n - 1 = 5
    BY <1>6
  <2>2. After(n) = {"directory"} /\ After(n - 1) = {"data"}
    BY <1>0, <1>6, <2>1, Zenon
  <2>3. Stages[n].gets = {"directory"} /\ Stages[n].drops = {"data"} /\ Stages[n].frees = {"data"}
    BY <1>6, StageTable, StageEffects, Zenon
  <2> QED BY <2>2, <2>3, Zenon
<1>7. CASE n = 7
  <2>1. n - 1 = 6
    BY <1>7
  <2>2. After(n) = {"directory"} /\ After(n - 1) = {"directory"}
    BY <1>0, <1>7, <2>1, Zenon
  <2>3. Stages[n].gets = {} /\ Stages[n].drops = {} /\ Stages[n].frees = {"directory"}
    BY <1>7, StageTable, StageEffects, Zenon
  <2> QED BY <2>2, <2>3, Zenon
<1>8. CASE n = 8
  <2>1. n - 1 = 7
    BY <1>8
  <2>2. After(n) = {"directory", "context"} /\ After(n - 1) = {"directory"}
    BY <1>0, <1>8, <2>1, Zenon
  <2>3. Stages[n].gets = {"context"} /\ Stages[n].drops = {} /\ Stages[n].frees = {"directory"}
    BY <1>8, StageTable, StageEffects, Zenon
  <2> QED BY <2>2, <2>3, Zenon
<1>9. CASE n = 9
  <2>1. n - 1 = 8
    BY <1>9
  <2>2. After(n) = {"directory", "context"} /\ After(n - 1) = {"directory", "context"}
    BY <1>0, <1>9, <2>1, Zenon
  <2>3. Stages[n].gets = {} /\ Stages[n].drops = {} /\ Stages[n].frees = {"context", "directory"}
    BY <1>9, StageTable, StageEffects, Zenon
  <2> QED BY <2>2, <2>3, Zenon
<1>10. CASE n = 10
  <2>1. n - 1 = 9
    BY <1>10
  <2>2. After(n) = {"directory", "context"} /\ After(n - 1) = {"directory", "context"}
    BY <1>0, <1>10, <2>1, Zenon
  <2>3. Stages[n].gets = {} /\ Stages[n].drops = {} /\ Stages[n].frees = {"directory", "context"}
    BY <1>10, StageTable, StageEffects, Zenon
  <2> QED BY <2>2, <2>3, Zenon
<1>11. CASE n = 11
  <2>1. n - 1 = 10
    BY <1>11
  <2>2. After(n) = {"directory", "context"} /\ After(n - 1) = {"directory", "context"}
    BY <1>0, <1>11, <2>1, Zenon
  <2>3. Stages[n].gets = {} /\ Stages[n].drops = {} /\ Stages[n].frees = {"directory", "context"}
    BY <1>11, StageTable, StageEffects, Zenon
  <2> QED BY <2>2, <2>3, Zenon
<1>12. CASE n = 12
  <2>1. n - 1 = 11
    BY <1>12
  <2>2. After(n) = {"directory", "context"} /\ After(n - 1) = {"directory", "context"}
    BY <1>0, <1>12, <2>1, Zenon
  <2>3. Stages[n].gets = {} /\ Stages[n].drops = {} /\ Stages[n].frees = {"directory", "context"}
    BY <1>12, StageTable, StageEffects, Zenon
  <2> QED BY <2>2, <2>3, Zenon
<1> QED BY <1>1, <1>2, <1>3, <1>4, <1>5, <1>6, <1>7, <1>8, <1>9, <1>10, <1>11, <1>12

\* HeldAfter is that function: every stage that fails has given back everything.
LEMMA HeldStages ==
    /\ HeldAfter[Len(Stages)] = {"directory", "context"}
    /\ \A n \in 1..Len(Stages) : HeldAfter[n - 1] \ Stages[n].frees = {}
<1> DEFINE g == [n \in 0..Len(Stages) |-> After(n)]
<1>1. g = [n \in 0..Len(Stages) |->
             IF n = 0 THEN {} ELSE (g[n - 1] \cup Stages[n].gets) \ Stages[n].drops]
  <2> SUFFICES ASSUME NEW n \in 0..12
               PROVE  After(n) = IF n = 0 THEN {}
                                 ELSE (g[n - 1] \cup Stages[n].gets) \ Stages[n].drops
    BY StageTable
  <2>1. CASE n = 0
    BY <2>1 DEF After
  <2>2. CASE n # 0
    <3>1. n \in 1..12 /\ n - 1 \in 0..12
      BY <2>2
    <3>2. g[n - 1] = After(n - 1)
      BY <3>1, StageTable
    <3> QED BY <2>2, <3>1, <3>2, AfterStages
  <2> QED BY <2>1, <2>2
<1>2. HeldAfter = [n \in 0..Len(Stages) |->
             IF n = 0 THEN {} ELSE (HeldAfter[n - 1] \cup Stages[n].gets) \ Stages[n].drops]
  BY <1>1, Zenon DEF HeldAfter
<1> HIDE DEF g
<1>3. HeldAfter[0] = After(0)
  BY <1>2, StageTable DEF After
<1>4. ASSUME NEW n \in 1..12, HeldAfter[n - 1] = After(n - 1) PROVE HeldAfter[n] = After(n)
  <2>1. n \in 0..Len(Stages) /\ n # 0
    BY StageTable
  <2>2. HeldAfter[n] = (HeldAfter[n - 1] \cup Stages[n].gets) \ Stages[n].drops
    BY <1>2, <2>1
  <2> QED BY <1>4, <2>2, AfterStages
<1>5. HeldAfter[1] = After(1)
  BY <1>3, <1>4, 1 \in 1..12, 1 - 1 = 0
<1>6. HeldAfter[2] = After(2)
  BY <1>4, <1>5, 2 \in 1..12, 2 - 1 = 1
<1>7. HeldAfter[3] = After(3)
  BY <1>4, <1>6, 3 \in 1..12, 3 - 1 = 2
<1>8. HeldAfter[4] = After(4)
  BY <1>4, <1>7, 4 \in 1..12, 4 - 1 = 3
<1>9. HeldAfter[5] = After(5)
  BY <1>4, <1>8, 5 \in 1..12, 5 - 1 = 4
<1>10. HeldAfter[6] = After(6)
  BY <1>4, <1>9, 6 \in 1..12, 6 - 1 = 5
<1>11. HeldAfter[7] = After(7)
  BY <1>4, <1>10, 7 \in 1..12, 7 - 1 = 6
<1>12. HeldAfter[8] = After(8)
  BY <1>4, <1>11, 8 \in 1..12, 8 - 1 = 7
<1>13. HeldAfter[9] = After(9)
  BY <1>4, <1>12, 9 \in 1..12, 9 - 1 = 8
<1>14. HeldAfter[10] = After(10)
  BY <1>4, <1>13, 10 \in 1..12, 10 - 1 = 9
<1>15. HeldAfter[11] = After(11)
  BY <1>4, <1>14, 11 \in 1..12, 11 - 1 = 10
<1>16. HeldAfter[12] = After(12)
  BY <1>4, <1>15, 12 \in 1..12, 12 - 1 = 11
<1>17. \A n \in 0..12 : HeldAfter[n] = After(n)
  <2> TAKE n \in 0..12
  <2>1. \/ n = 0 \/ n = 1 \/ n = 2 \/ n = 3 \/ n = 4 \/ n = 5 \/ n = 6 \/ n = 7 \/ n = 8 \/ n = 9
        \/ n = 10 \/ n = 11 \/ n = 12
    OBVIOUS
  <2> QED BY <2>1, <1>3, <1>5, <1>6, <1>7, <1>8, <1>9, <1>10, <1>11, <1>12, <1>13, <1>14, <1>15,
             <1>16, Zenon
<1>18. \A n \in 1..12 : HeldAfter[n - 1] \ Stages[n].frees = {}
  <2> TAKE n \in 1..12
  <2>1. n - 1 \in 0..12
    OBVIOUS
  <2> QED BY <1>17, <2>1, AfterStages
<1>19. After(12) = {"directory", "context"}
  BY DEF After
<1> QED BY <1>16, <1>18, <1>19, StageTable

\* The end of a list decides what its caller keeps.
LEMMA KeepsTail ==
    ASSUME NEW r \in Seq(Frame), r # <<>>, r[1].op \notin KeepOps, NEW fs \in Seq(Frame),
           fs # <<>> => fs[Len(fs)].op \notin KeepOps
    PROVE  Keeps(fs \o Tail(r)) = Keeps(r)
<1>1. /\ Len(r) \in Nat /\ Len(r) >= 1 /\ Tail(r) \in Seq(Frame) /\ Len(Tail(r)) = Len(r) - 1
      /\ \A i \in 1..(Len(r) - 1) : Tail(r)[i] = r[i + 1]
  OBVIOUS
<1>2. CASE Len(r) = 1
  <2>1. Tail(r) = <<>>
    <3>1. PICK u \in Seq(Frame) : u = Tail(r) /\ Len(u) = 1 - 1
      BY <1>1, <1>2, Zenon
    <3>2. u = <<>>
      BY <3>1, NoFrames
    <3> QED BY <3>1, <3>2
  <2>2. fs \o Tail(r) = fs
    BY <2>1, NoFrames
  <2>3. Keeps(r) = {}
    BY <1>2 DEF Keeps, KeepOps
  <2>4. Keeps(fs) = {}
    BY DEF Keeps, KeepOps
  <2> QED BY <2>2, <2>3, <2>4
<1>3. CASE Len(r) # 1
  <2>1. PICK n \in Nat : n = Len(r)
    BY <1>1, Zenon
  <2>2. n >= 1 /\ n # 1
    BY <1>1, <1>3, <2>1, Zenon
  <2>3. n - 1 \in 1..(n - 1) /\ (n - 1) + 1 = n
    BY <2>2
  <2>4. PICK u \in Seq(Frame) : u = Tail(r) /\ Len(u) = n - 1 /\ u[n - 1] = r[n]
    <3>1. Len(Tail(r)) = n - 1 /\ \A i \in 1..(n - 1) : Tail(r)[i] = r[i + 1]
      BY <1>1, <2>1, Zenon
    <3>2. Tail(r)[n - 1] = r[n]
      BY <2>3, <3>1, Zenon
    <3> QED BY <1>1, <3>1, <3>2, Zenon
  <2>5. /\ fs \o u \in Seq(Frame) /\ Len(fs \o u) = Len(fs) + (n - 1) /\ Len(fs) \in Nat
        /\ (fs \o u)[Len(fs) + (n - 1)] = u[n - 1]
    BY <2>3, <2>4
  <2>6. fs \o u # <<>> /\ (fs \o u)[Len(fs \o u)] = r[n]
    <3>1. Len(fs \o u) # 0
      BY <2>2, <2>5
    <3> QED BY <2>4, <2>5, <3>1
  <2>7. Keeps(fs \o u) = Keeps(r)
    BY <2>1, <2>6 DEF Keeps
  <2> QED BY <2>4, <2>7
<1> QED BY <1>2, <1>3

\* The callers whose list, resources and task are left alone.
LEMMA HeldStep ==
    ASSUME ListTypes, HeldOK, NEW a \in Actor, NEW s, todo' = [todo EXCEPT ![a] = s],
           DOMAIN held' = Actor, NEW t,
           \A b \in Actor : b # a /\ b # t => held'[b] = held[b] /\ (b \in Task => tstate'[b] = tstate[b]),
           Keeping(a)' \/ Launching(a)', t \in Actor => Keeping(t)' \/ Launching(t)'
    PROVE  HeldOK'
<1> SUFFICES ASSUME NEW b \in Actor PROVE Keeping(b)' \/ Launching(b)'
  BY DEF HeldOK
<1>1. CASE b = a \/ b = t
  BY <1>1
<1>2. CASE b # a /\ b # t
  <2>1. todo'[b] = todo[b] /\ held'[b] = held[b] /\ (b \in Task => tstate'[b] = tstate[b])
    BY <1>2 DEF ListTypes
  <2> QED BY <2>1 DEF HeldOK, Keeping, Launching
<1> QED BY <1>1, <1>2

\* A caller that goes on with a list that keeps what it holds.
LEMMA HeldOn ==
    ASSUME ListTypes, HeldOK, NEW a \in Actor, NEW s, todo' = [todo EXCEPT ![a] = s],
           Keeping(a), Keeps(s) = Keeps(todo[a]), UNCHANGED <<held, tstate>>
    PROVE  HeldOK'
<1>1. todo'[a] = s
  BY DEF ListTypes
<1>2. Keeping(a)'
  BY <1>1 DEF Keeping
<1> QED BY <1>2, HeldStep DEF HeldOK

\* A caller that is in the middle of something keeps what the end of its list says.
LEMMA HeadKeeps ==
    ASSUME PInv, HeldOK, NEW a \in Actor, NEW op, At(a, op)
    PROVE  /\ Keeping(a) /\ todo[a] # <<>> /\ todo[a] \in Seq(Frame) /\ todo[a][1].op = op
           /\ op \in LastOps => /\ todo[a][Len(todo[a])].op = op
                                /\ \A fs \in Seq(Frame) : fs \o Tail(todo[a]) = fs
<1>1. /\ todo[a] # <<>> /\ todo[a] \in Seq(Frame) /\ todo[a][1].op = op
      /\ op \in LastOps => /\ Len(todo[a]) = 1 /\ \A fs \in Seq(Frame) : fs \o Tail(todo[a]) = fs
  BY HeadFacts
<1>2. Keeping(a)
  BY <1>1 DEF HeldOK, Launching
<1> QED BY <1>1, <1>2

\* The first frame of a list is done or replaced, and the end stays.
LEMMA HeldThen ==
    ASSUME PInv, HeldOK, NEW a \in Actor, NEW op, At(a, op), op \notin KeepOps,
           NEW fs \in Seq(Frame), fs # <<>> => fs[Len(fs)].op \notin KeepOps, Then(a, fs),
           UNCHANGED <<held, tstate>>
    PROVE  HeldOK'
<1>1. Keeping(a) /\ todo[a] # <<>> /\ todo[a] \in Seq(Frame) /\ todo[a][1].op = op
  BY HeadKeeps
<1>2. Keeps(fs \o Tail(todo[a])) = Keeps(todo[a])
  BY <1>1, KeepsTail
<1>3. ListTypes /\ todo' = [todo EXCEPT ![a] = fs \o Tail(todo[a])]
  BY DEF PInv, Then
<1> QED BY <1>1, <1>2, <1>3, HeldOn

\* A list that ends with the context is replaced by another one.
LEMMA HeldInstead ==
    ASSUME PInv, HeldOK, NEW a \in Actor, todo[a] # <<>>,
           todo[a][Len(todo[a])].op \in {"acquire", "task"},
           NEW s \in Seq(Frame), s # <<>>, s[Len(s)].op \in {"task", "context"}, Instead(a, s),
           UNCHANGED <<held, tstate>>
    PROVE  HeldOK'
<1>1. Keeping(a) /\ ListTypes /\ todo' = [todo EXCEPT ![a] = s]
  BY DEF HeldOK, Launching, PInv, Instead
<1>2. Keeps(s) = {"context"} /\ Keeps(todo[a]) = {"context"}
  BY DEF Keeps, KeepOps
<1> QED BY <1>1, <1>2, HeldOn

\* The steps of process_create's caller up to the new task.
LEMMA HeldMaking ==
    ASSUME PInv, HeldOK, NEW a \in Actor,
           process_acquire_by_id(a) \/ process_retain_child(a) \/ process_add_child(a)
    PROVE  HeldOK'
<1>1. CASE process_acquire_by_id(a)
  <2>1. At(a, "acquire") /\ UNCHANGED <<held, tstate>>
    BY <1>1 DEF process_acquire_by_id, taskVars
  <2>2. todo[a] # <<>> /\ todo[a][Len(todo[a])].op = "acquire" /\ P(a) \in Pid
    BY <2>1, HeadKeeps, HeadFacts DEF LastOps
  <2>3. CASE Instead(a, Undo(P(a)))
    <3>1. Undo(P(a)) \in Seq(Frame) /\ Len(Undo(P(a))) = 3 /\ Undo(P(a))[3] = F("context", P(a))
      BY <2>2, UndoFacts
    <3>2. F("context", P(a)).op = "context"
      BY DEF F
    <3>3. Undo(P(a)) # <<>>
      BY <3>1
    <3> QED BY <2>1, <2>2, <2>3, <3>1, <3>2, <3>3, HeldInstead
  <2>4. CASE Instead(a, <<F("retain", P(a)), F("release", parent_id[P(a)]), F("task", P(a))>>)
             /\ Registered(parent_id[P(a)])
    <3>1. parent_id[P(a)] \in Pid
      <4>1. FrameOK(a, todo[a][1]) /\ todo[a][1].op = "acquire" /\ todo[a][1].p = P(a)
        BY <2>1, HeadFacts
      <4>2. parent_id[P(a)] \in 1..(next_process_id - 1) /\ next_process_id \in 2..(MaxPid + 1)
        BY <4>1 DEF FrameOK, PInv, VarTypes
      <4> QED BY <4>2, KernelPid DEF Pid
    <3>2. F("retain", P(a)) \in Frame /\ F("release", parent_id[P(a)]) \in Frame
          /\ F("task", P(a)) \in Frame /\ F("task", P(a)).op = "task"
      BY <2>2, <3>1, FrameFacts
    <3>3. PICK s \in Seq(Frame) :
             s = <<F("retain", P(a)), F("release", parent_id[P(a)]), F("task", P(a))>>
      <4>1. <<F("retain", P(a)), F("release", parent_id[P(a)]), F("task", P(a))>> \in Seq(Frame)
        BY <3>2
      <4> QED BY <4>1, Zenon
    <3>4. s # <<>> /\ Len(s) = 3 /\ s[3].op = "task"
      BY <3>2, <3>3
    <3>5. Instead(a, s)
      BY <2>4, <3>3
    <3> QED BY <2>1, <2>2, <3>4, <3>5, HeldInstead
  <2> QED BY <1>1, <2>3, <2>4 DEF process_acquire_by_id
<1>2. ASSUME At(a, "retain") \/ At(a, "add")
      PROVE  /\ todo[a] # <<>> /\ todo[a][Len(todo[a])].op = "task" /\ P(a) \in Pid
             /\ parent_id[P(a)] \in Pid
  <2>1. /\ todo[a] # <<>> /\ Shape(a, todo[a]) /\ todo[a][1].op \in {"retain", "add"}
        /\ FrameOK(a, todo[a][1]) /\ todo[a][1].p = P(a) /\ P(a) \in Pid
    BY <1>2, HeadFacts
  <2>2. Len(todo[a]) = 3 /\ todo[a][3] = F("task", P(a))
    BY <2>1 DEF Shape
  <2>3. F("task", P(a)).op = "task"
    BY DEF F
  <2>4. parent_id[P(a)] \in 1..(next_process_id - 1) /\ next_process_id \in 2..(MaxPid + 1)
    BY <2>1 DEF FrameOK, PInv, VarTypes
  <2>5. parent_id[P(a)] \in Pid
    BY <2>4, KernelPid DEF Pid
  <2> QED BY <2>1, <2>2, <2>3, <2>5
<1>3. CASE process_retain_child(a)
  <2>1. At(a, "retain") /\ UNCHANGED <<held, tstate>>
    BY <1>3 DEF process_retain_child, taskVars
  <2>2. /\ todo[a] # <<>> /\ todo[a][Len(todo[a])].op = "task" /\ P(a) \in Pid
        /\ parent_id[P(a)] \in Pid
    BY <1>2, <2>1
  <2>3. CASE Then(a, <<F("add", P(a))>>)
    <3>1. F("add", P(a)) \in Frame /\ F("add", P(a)).op = "add"
      BY <2>2, FrameFacts
    <3>2. PICK fs \in Seq(Frame) : fs = <<F("add", P(a))>>
      <4>1. <<F("add", P(a))>> \in Seq(Frame)
        BY <3>1
      <4> QED BY <4>1, Zenon
    <3>3. fs[Len(fs)].op \notin KeepOps /\ "retain" \notin KeepOps /\ Then(a, fs)
      BY <2>3, <3>1, <3>2 DEF KeepOps
    <3> QED BY <2>1, <3>3, HeldThen
  <2>4. CASE Instead(a, <<F("release", parent_id[P(a)])>> \o Undo(P(a)))
    <3>1. /\ F("release", parent_id[P(a)]) \in Frame /\ F("release", P(a)) \in Frame
          /\ F("space", P(a)) \in Frame /\ F("context", P(a)) \in Frame
          /\ F("context", P(a)).op = "context"
      BY <2>2, FrameFacts
    <3>2. PICK s \in Seq(Frame) : s = <<F("release", parent_id[P(a)]), F("release", P(a)),
                                        F("space", P(a)), F("context", P(a))>>
      <4>1. <<F("release", parent_id[P(a)]), F("release", P(a)), F("space", P(a)),
              F("context", P(a))>> \in Seq(Frame)
        BY <3>1
      <4> QED BY <4>1, Zenon
    <3>3. s # <<>> /\ Len(s) = 4 /\ s[4].op = "context"
      BY <3>1, <3>2
    <3>4. Instead(a, s)
      <4>1. <<F("release", parent_id[P(a)])>> \o Undo(P(a)) = s
        BY <3>1, <3>2, Joined4 DEF Undo
      <4> QED BY <2>4, <4>1
    <3> QED BY <2>1, <2>2, <3>3, <3>4, HeldInstead
  <2> QED BY <1>3, <2>3, <2>4 DEF process_retain_child
<1>4. CASE process_add_child(a)
  <2>1. At(a, "add") /\ UNCHANGED <<held, tstate>>
    BY <1>4 DEF process_add_child, taskVars
  <2>2. /\ todo[a] # <<>> /\ todo[a][Len(todo[a])].op = "task" /\ P(a) \in Pid
        /\ parent_id[P(a)] \in Pid
    BY <1>2, <2>1
  <2>3. CASE Then(a, <<>>)
    <3>1. "add" \notin KeepOps /\ <<>> \in Seq(Frame)
      BY DEF KeepOps
    <3> QED BY <2>1, <2>3, <3>1, HeldThen
  <2>4. CASE Instead(a, <<F("release", P(a)), F("release", parent_id[P(a)])>> \o Undo(P(a)))
    <3>1. /\ F("release", parent_id[P(a)]) \in Frame /\ F("release", P(a)) \in Frame
          /\ F("space", P(a)) \in Frame /\ F("context", P(a)) \in Frame
          /\ F("context", P(a)).op = "context"
      BY <2>2, FrameFacts
    <3>2. PICK s \in Seq(Frame) : s = <<F("release", P(a)), F("release", parent_id[P(a)]),
                                        F("release", P(a)), F("space", P(a)), F("context", P(a))>>
      <4>1. <<F("release", P(a)), F("release", parent_id[P(a)]), F("release", P(a)),
              F("space", P(a)), F("context", P(a))>> \in Seq(Frame)
        BY <3>1
      <4> QED BY <4>1, Zenon
    <3>3. s # <<>> /\ Len(s) = 5 /\ s[5].op = "context"
      BY <3>1, <3>2
    <3>4. Instead(a, s)
      <4>1. <<F("release", P(a)), F("release", parent_id[P(a)])>> \o Undo(P(a)) = s
        BY <2>2, <3>2, UndoJoin
      <4> QED BY <2>4, <4>1
    <3> QED BY <2>1, <2>2, <3>3, <3>4, HeldInstead
  <2> QED BY <1>4, <2>3, <2>4 DEF process_add_child
<1> QED BY <1>1, <1>3, <1>4

\* The steps that do the first frame of a list and leave what is held alone.
LEMMA HeldWorking ==
    ASSUME PInv, HeldOK, NEW a \in Actor,
           \/ process_release(a) \/ process_free(a) \/ address_space_release(a)
           \/ process_thread_attach(a) \/ process_thread_detach(a) \/ task_bind_process(a)
    PROVE  HeldOK'
<1>1. ASSUME NEW op, At(a, op), op \notin KeepOps, Then(a, <<>>), UNCHANGED <<held, tstate>>
      PROVE  HeldOK'
  <2>1. <<>> \in Seq(Frame)
    OBVIOUS
  <2> QED BY <1>1, <2>1, HeldThen
<1>2. "release" \notin KeepOps /\ "free" \notin KeepOps /\ "space" \notin KeepOps
      /\ "attach" \notin KeepOps /\ "detach" \notin KeepOps /\ "bind" \notin KeepOps
  BY DEF KeepOps
<1>3. CASE process_release(a)
  <2>1. At(a, "release") /\ UNCHANGED <<held, tstate>>
    BY <1>3 DEF process_release, taskVars
  <2>2. P(a) \in Pid
    BY <2>1, HeadFacts
  <2>3. CASE Then(a, <<>>)
    BY <1>1, <1>2, <2>1, <2>3
  <2>4. CASE Then(a, <<F("space", P(a)), F("free", P(a))>>)
    <3>1. F("space", P(a)) \in Frame /\ F("free", P(a)) \in Frame /\ F("free", P(a)).op = "free"
      BY <2>2, FrameFacts
    <3>2. PICK fs \in Seq(Frame) : fs = <<F("space", P(a)), F("free", P(a))>>
      <4>1. <<F("space", P(a)), F("free", P(a))>> \in Seq(Frame)
        BY <3>1
      <4> QED BY <4>1, Zenon
    <3>3. fs[Len(fs)].op \notin KeepOps /\ Then(a, fs)
      BY <1>2, <2>4, <3>1, <3>2
    <3> QED BY <1>2, <2>1, <3>3, HeldThen
  <2> QED BY <1>3, <2>3, <2>4 DEF process_release
<1>4. CASE process_free(a)
  <2>1. At(a, "free") /\ Then(a, <<>>) /\ UNCHANGED <<held, tstate>>
    BY <1>4 DEF process_free, taskVars
  <2> QED BY <1>1, <1>2, <2>1
<1>5. CASE address_space_release(a)
  <2>1. At(a, "space") /\ Then(a, <<>>) /\ UNCHANGED <<held, tstate>>
    BY <1>5 DEF address_space_release, taskVars
  <2> QED BY <1>1, <1>2, <2>1
<1>6. CASE process_thread_attach(a)
  <2>1. At(a, "attach") /\ Then(a, <<>>) /\ UNCHANGED <<held, tstate>>
    BY <1>6 DEF process_thread_attach
  <2> QED BY <1>1, <1>2, <2>1
<1>7. CASE process_thread_detach(a)
  <2>1. At(a, "detach") /\ Then(a, <<>>) /\ UNCHANGED <<held, tstate>>
    BY <1>7 DEF process_thread_detach, taskVars
  <2> QED BY <1>1, <1>2, <2>1
<1>8. CASE task_bind_process(a)
  <2>1. At(a, "bind") /\ Then(a, <<FT("attach", P(a), T(a))>>) /\ UNCHANGED <<held, tstate>>
    BY <1>8 DEF task_bind_process, taskVars
  <2>2. P(a) \in Pid /\ T(a) = todo[a][1].t /\ FrameOK(a, todo[a][1]) /\ todo[a][1].op = "bind"
    BY <2>1, HeadFacts
  <2>3. T(a) \in Task
    BY <2>2 DEF FrameOK
  <2>4. FT("attach", P(a), T(a)) \in Frame /\ FT("attach", P(a), T(a)).op = "attach"
    BY <2>2, <2>3, FrameFacts
  <2>5. PICK fs \in Seq(Frame) : fs = <<FT("attach", P(a), T(a))>>
    <3>1. <<FT("attach", P(a), T(a))>> \in Seq(Frame)
      BY <2>4
    <3> QED BY <3>1, Zenon
  <2>6. fs[Len(fs)].op \notin KeepOps /\ Then(a, fs)
    BY <1>2, <2>1, <2>4, <2>5
  <2> QED BY <1>2, <2>1, <2>6, HeldThen
<1> QED BY <1>3, <1>4, <1>5, <1>6, <1>7, <1>8

\* Lists of an idle caller, or of one that has finished.
LEMMA KeepsNothing ==
    /\ Keeps(<<>>) = {}
    /\ \A f \in Frame : f.op \notin KeepOps => Keeps(<<f>>) = {}
    /\ \A f \in Frame : f.op = "create" => Keeps(<<f>>) = {"directory", "context"}
    /\ \A f \in Frame : f.op \in {"acquire", "task", "context"} => Keeps(<<f>>) = {"context"}
BY DEF Keeps, KeepOps

\* An idle caller holds nothing.
LEMMA ReadyKeeps ==
    ASSUME PInv, HeldOK, NEW a \in Actor, Ready(a)
    PROVE  Keeping(a) /\ todo[a] = <<>> /\ held[a] = {} /\ (a \in Task => tstate[a] = "ALIVE")
<1>1. Keeping(a) /\ todo[a] = <<>>
  BY DEF Ready, HeldOK, Launching
<1> QED BY <1>1, KeepsNothing DEF Keeping, Ready

\* An idle caller begins with a list that keeps nothing.
LEMMA HeldBegin ==
    ASSUME PInv, HeldOK, NEW a \in Actor, Ready(a), NEW f \in Frame, f.op \notin KeepOps,
           todo' = [todo EXCEPT ![a] = <<f>>], UNCHANGED <<held, tstate>>
    PROVE  HeldOK'
<1>1. Keeping(a) /\ todo[a] = <<>>
  BY ReadyKeeps
<1>2. Keeps(<<f>>) = Keeps(todo[a])
  BY <1>1, KeepsNothing
<1> QED BY <1>1, <1>2, HeldOn DEF PInv

\* spawn_load: all the stages succeed, or the one that fails has left nothing.
LEMMA HeldLoad ==
    ASSUME PInv, HeldOK, NEW a \in Actor, spawn_load(a) PROVE HeldOK'
<1>1. At(a, "load") /\ tstate' = tstate /\ ListTypes
  BY DEF spawn_load, taskVars, PInv
<1>2. Keeping(a) /\ \A fs \in Seq(Frame) : fs \o Tail(todo[a]) = fs
  BY <1>1, HeadKeeps DEF LastOps
<1>3. DOMAIN held = Actor /\ DOMAIN todo = Actor
  BY <1>1 DEF HeldOK, ListTypes
<1>4. ASSUME NEW fs \in Seq(Frame), Then(a, fs), held' = [held EXCEPT ![a] = Keeps(fs)]
      PROVE  HeldOK'
  <2>1. todo' = [todo EXCEPT ![a] = fs]
    <3>1. fs \o Tail(todo[a]) = fs
      BY <1>2
    <3>2. todo' = [todo EXCEPT ![a] = fs \o Tail(todo[a])]
      BY <1>4 DEF Then
    <3> QED BY <3>1, <3>2, Zenon
  <2>2. todo'[a] = fs /\ held'[a] = Keeps(fs) /\ DOMAIN held' = Actor
        /\ \A b \in Actor : b # a => held'[b] = held[b]
    BY <1>3, <1>4, <2>1
  <2>3. Keeping(a)'
    BY <1>1, <1>2, <2>2 DEF Keeping
  <2> QED BY <1>1, <2>1, <2>2, <2>3, HeldStep
<1>5. CASE held' = [held EXCEPT ![a] = HeldAfter[Len(Stages)]] /\ Then(a, <<F("create", kernel_process)>>)
  <2>1. F("create", kernel_process) \in Frame /\ F("create", kernel_process).op = "create"
    BY KernelPid, FrameFacts
  <2>2. <<F("create", kernel_process)>> \in Seq(Frame)
    BY <2>1
  <2>3. HeldAfter[Len(Stages)] = Keeps(<<F("create", kernel_process)>>)
    BY <2>1, HeldStages, KeepsNothing
  <2> QED BY <1>4, <1>5, <2>2, <2>3
<1>6. ASSUME NEW rest \in {HeldAfter[n - 1] \ Stages[n].frees : n \in 1..Len(Stages)},
             held' = [held EXCEPT ![a] = rest], Then(a, <<>>)
      PROVE  HeldOK'
  <2>1. rest = {}
    BY HeldStages
  <2>2. <<>> \in Seq(Frame) /\ Keeps(<<>>) = {}
    BY KeepsNothing
  <2> QED BY <1>4, <1>6, <2>1, <2>2
<1> QED BY <1>5, <1>6 DEF spawn_load

\* process_create takes over the directory, and spawn frees the context.
LEMMA HeldGiven ==
    ASSUME PInv, HeldOK, NEW a \in Actor, process_create(a) \/ free_context(a) PROVE HeldOK'
<1>1. DOMAIN held = Actor /\ DOMAIN todo = Actor /\ ListTypes
  BY DEF HeldOK, PInv, ListTypes
<1>2. CASE process_create(a)
  <2>1. PICK n \in Pid : n = next_process_id
    BY <1>2 DEF process_create
  <2>2. PICK f \in Frame : f = F("acquire", n) /\ f.op = "acquire"
    BY FrameFacts
  <2>3. /\ At(a, "create") /\ tstate' = tstate /\ todo' = [todo EXCEPT ![a] = <<f>>]
        /\ held' = [held EXCEPT ![a] = held[a] \ {"directory"}]
    BY <1>1, <1>2, <2>1, <2>2 DEF process_create, taskVars
  <2>4. Keeping(a) /\ held[a] = {"directory", "context"}
    <3>1. Keeping(a) /\ todo[a] # <<>> /\ todo[a][Len(todo[a])].op = "create"
      BY <2>3, HeadKeeps DEF LastOps
    <3> QED BY <3>1 DEF Keeping, Keeps
  <2>5. Keeps(<<f>>) = {"context"} /\ {"directory", "context"} \ {"directory"} = {"context"}
    BY <2>2, KeepsNothing
  <2>6. todo'[a] = <<f>> /\ held'[a] = Keeps(<<f>>) /\ DOMAIN held' = Actor
        /\ \A b \in Actor : b # a => held'[b] = held[b]
    BY <1>1, <2>3, <2>4, <2>5
  <2>7. Keeping(a)'
    BY <2>3, <2>4, <2>6 DEF Keeping
  <2> QED BY <1>1, <2>3, <2>6, <2>7, HeldStep
<1>3. CASE free_context(a)
  <2>1. /\ At(a, "context") /\ tstate' = tstate /\ Then(a, <<>>)
        /\ held' = [held EXCEPT ![a] = held[a] \ {"context"}]
    BY <1>1, <1>3 DEF free_context, taskVars
  <2>2. /\ Keeping(a) /\ todo[a] # <<>> /\ todo[a][Len(todo[a])].op = "context"
        /\ \A fs \in Seq(Frame) : fs \o Tail(todo[a]) = fs
    BY <2>1, HeadKeeps DEF LastOps
  <2>3. held[a] = {"context"}
    BY <2>2 DEF Keeping, Keeps, KeepOps
  <2>4. todo' = [todo EXCEPT ![a] = <<>>]
    <3>1. <<>> \o Tail(todo[a]) = <<>>
      <4>1. <<>> \in Seq(Frame)
        OBVIOUS
      <4> QED BY <2>2, <4>1, Zenon
    <3>2. todo' = [todo EXCEPT ![a] = <<>> \o Tail(todo[a])]
      BY <2>1 DEF Then
    <3> QED BY <3>1, <3>2, Zenon
  <2>5. todo'[a] = <<>> /\ held'[a] = {} /\ DOMAIN held' = Actor
        /\ \A b \in Actor : b # a => held'[b] = held[b]
    BY <1>1, <2>1, <2>3, <2>4
  <2>6. Keeping(a)'
    BY <2>1, <2>2, <2>5, KeepsNothing DEF Keeping
  <2> QED BY <1>1, <2>1, <2>4, <2>5, <2>6, HeldStep
<1> QED BY <1>2, <1>3

\* The maker of a task gives it the context, and keeps nothing itself.
LEMMA HeldNewTask ==
    ASSUME PInv, HeldOK, NEW a \in Actor, NEW t \in Task, tstate[t] = "UNUSED",
           a \in Task => tstate[a] = "ALIVE",
           NEW s \in Seq(Frame), s # <<>>, s[Len(s)].op = "publish", todo' = [todo EXCEPT ![a] = s],
           tstate' = [tstate EXCEPT ![t] = "NEW"], DOMAIN held' = Actor, held'[t] = {"launch"},
           held'[a] = {}, \A b \in Actor : b # a /\ b # t => held'[b] = held[b]
    PROVE  HeldOK'
<1>1. VarTypes /\ ListTypes /\ Shapes /\ t \in Actor /\ a # t
  BY DEF PInv, Actor
<1>2. todo[t] = <<>>
  BY <1>1 DEF Shapes, Shape
<1>3. todo'[a] = s /\ todo'[t] = <<>> /\ tstate'[t] = "NEW"
      /\ \A b \in Task : b # t => tstate'[b] = tstate[b]
  BY <1>1, <1>2 DEF VarTypes, ListTypes
<1>4. Launching(t)'
  BY <1>3 DEF Launching
<1>5. Keeping(a)'
  <2>1. Keeps(s) = {}
    BY DEF Keeps, KeepOps
  <2>2. held'[a] = Keeps(s)
    BY <2>1, Zenon
  <2>3. todo'[a] = s
    BY <1>3, Zenon
  <2>4. a \in Task => tstate'[a] # "NEW"
    BY <1>1, <1>3
  <2> QED BY <2>2, <2>3, <2>4, Zenon DEF Keeping
<1>6. \A b \in Actor : b # a /\ b # t =>
          held'[b] = held[b] /\ (b \in Task => tstate'[b] = tstate[b])
  BY <1>3, Zenon
<1>7. ASSUME NEW b \in Actor PROVE Keeping(b)' \/ Launching(b)'
  <2>1. CASE b = a
    BY <1>5, <2>1, Zenon
  <2>2. CASE b = t
    BY <1>4, <2>2, Zenon
  <2>3. CASE b # a /\ b # t
    <3>1. todo'[b] = todo[b] /\ held'[b] = held[b] /\ (b \in Task => tstate'[b] = tstate[b])
      BY <1>1, <1>6, <2>3 DEF ListTypes
    <3>2. Keeping(b) \/ Launching(b)
      BY Zenon DEF HeldOK
    <3> QED BY <3>1, <3>2 DEF Keeping, Launching
  <2> QED BY <2>1, <2>2, <2>3, Zenon
<1> QED BY <1>7 DEF HeldOK

\* spawn_task and user_thread_create.
LEMMA HeldTasks ==
    ASSUME PInv, HeldOK
    PROVE  /\ \A a \in Actor : spawn_task(a) => HeldOK'
           /\ \A a, t \in Task : user_thread_create(a, t) => HeldOK'
<1>1. DOMAIN held = Actor /\ DOMAIN todo = Actor /\ ListTypes /\ TasksOK /\ VarTypes
  BY DEF HeldOK, PInv, ListTypes
<1>2. ASSUME NEW a \in Actor, spawn_task(a) PROVE HeldOK'
  <2>1. At(a, "task")
    BY <1>2 DEF spawn_task
  <2>2. /\ Keeping(a) /\ todo[a] # <<>> /\ todo[a][Len(todo[a])].op = "task"
        /\ \A fs \in Seq(Frame) : fs \o Tail(todo[a]) = fs
    BY <2>1, HeadKeeps DEF LastOps
  <2>3. P(a) \in Pid /\ (a \in Task => tstate[a] = "ALIVE")
    BY <2>1, HeadFacts DEF Shape
  <2>4. held[a] = {"context"}
    BY <2>2 DEF Keeping, Keeps, KeepOps
  <2>5. ASSUME NEW t \in Task, tstate[t] = "UNUSED", tstate' = [tstate EXCEPT ![t] = "NEW"],
               held' = [held EXCEPT ![a] = @ \ {"context"}, ![t] = {"launch"}],
               Then(a, <<FT("bind", P(a), t), F("release", P(a)), F("space", P(a)),
                         FT("publish", P(a), t)>>)
        PROVE  HeldOK'
    <3>1. /\ FT("bind", P(a), t) \in Frame /\ F("release", P(a)) \in Frame
          /\ F("space", P(a)) \in Frame /\ FT("publish", P(a), t) \in Frame
          /\ FT("publish", P(a), t).op = "publish"
      BY <2>3, FrameFacts
    <3>2. PICK s \in Seq(Frame) : s = <<FT("bind", P(a), t), F("release", P(a)), F("space", P(a)),
                                        FT("publish", P(a), t)>>
      <4>1. <<FT("bind", P(a), t), F("release", P(a)), F("space", P(a)), FT("publish", P(a), t)>>
               \in Seq(Frame)
        BY <3>1
      <4> QED BY <4>1, Zenon
    <3>3. s # <<>> /\ s[Len(s)].op = "publish"
      BY <3>1, <3>2
    <3>4. todo' = [todo EXCEPT ![a] = s]
      <4>1. s \o Tail(todo[a]) = s
        BY <2>2, Zenon
      <4>2. todo' = [todo EXCEPT ![a] = s \o Tail(todo[a])]
        BY <2>5, <3>2 DEF Then
      <4> QED BY <4>1, <4>2, Zenon
    <3>5. a # t /\ t \in Actor
      BY <2>3, <2>5 DEF Actor
    <3>6. /\ DOMAIN held' = Actor /\ held'[t] = {"launch"} /\ held'[a] = {}
          /\ \A b \in Actor : b # a /\ b # t => held'[b] = held[b]
      BY <1>1, <2>4, <2>5, <3>5
    <3>7. tstate[t] = "UNUSED" /\ tstate' = [tstate EXCEPT ![t] = "NEW"]
          /\ (a \in Task => tstate[a] = "ALIVE")
      BY <2>3, <2>5, Zenon
    <3> QED BY <3>3, <3>4, <3>6, <3>7, HeldNewTask, Zenon
  <2>6. ASSUME Instead(a, Undo(P(a))), UNCHANGED <<held, tstate>> PROVE HeldOK'
    <3>1. Undo(P(a)) \in Seq(Frame) /\ Len(Undo(P(a))) = 3 /\ Undo(P(a))[3] = F("context", P(a))
      BY <2>3, UndoFacts
    <3>2. F("context", P(a)).op = "context"
      BY DEF F
    <3>3. Undo(P(a)) # <<>>
      BY <3>1
    <3> QED BY <2>2, <2>6, <3>1, <3>2, <3>3, HeldInstead
  <2> QED BY <1>2, <2>5, <2>6 DEF spawn_task
<1>3. ASSUME NEW a \in Task, NEW t \in Task, user_thread_create(a, t) PROVE HeldOK'
  <2>1. a \in Actor /\ t \in Actor /\ Ready(a) /\ tstate[t] = "UNUSED" /\ a # t
    BY <1>3 DEF user_thread_create, Ready, Actor
  <2>2. Keeping(a) /\ todo[a] = <<>> /\ held[a] = {} /\ tstate[a] = "ALIVE"
    BY <2>1, ReadyKeeps
  <2>3. CASE UNCHANGED <<tstate, held, todo>>
    BY <2>3 DEF HeldOK, Keeping, Launching
  <2>4. CASE /\ tstate' = [tstate EXCEPT ![t] = "NEW"] /\ held' = [held EXCEPT ![t] = {"launch"}]
             /\ todo' = [todo EXCEPT ![a] = <<FT("bind", tproc[a], t), FT("publish", tproc[a], t)>>]
    <3>1. tproc[a] \in Pid
      <4>1. tproc[a] \in 2..(next_process_id - 1) /\ next_process_id \in 2..(MaxPid + 1)
        BY <1>1, <2>2 DEF TasksOK, TaskOK, Being, VarTypes
      <4> QED BY <4>1, KernelPid DEF Pid
    <3>2. FT("bind", tproc[a], t) \in Frame /\ FT("publish", tproc[a], t) \in Frame
          /\ FT("publish", tproc[a], t).op = "publish"
      BY <3>1, FrameFacts
    <3>3. PICK s \in Seq(Frame) : s = <<FT("bind", tproc[a], t), FT("publish", tproc[a], t)>>
      <4>1. <<FT("bind", tproc[a], t), FT("publish", tproc[a], t)>> \in Seq(Frame)
        BY <3>2
      <4> QED BY <4>1, Zenon
    <3>4. s # <<>> /\ s[Len(s)].op = "publish" /\ todo' = [todo EXCEPT ![a] = s]
      BY <2>4, <3>2, <3>3
    <3>5. /\ DOMAIN held' = Actor /\ held'[t] = {"launch"} /\ held'[a] = {}
          /\ \A b \in Actor : b # a /\ b # t => held'[b] = held[b]
      BY <1>1, <2>1, <2>2, <2>4
    <3> QED BY <2>1, <2>2, <2>4, <3>4, <3>5, HeldNewTask
  <2> QED BY <1>3, <2>3, <2>4 DEF user_thread_create
<1> QED BY <1>2, <1>3

\* The last step of a list, that changes the state of a task.
LEMMA HeldDone ==
    ASSUME PInv, HeldOK, NEW a \in Actor, task_publish(a) \/ task_exit(a) \/ task_free(a)
    PROVE  HeldOK'
<1>1. VarTypes /\ ListTypes /\ DOMAIN held = Actor
  BY DEF PInv, HeldOK
<1>2. PICK op \in {"publish", "exit", "reaped"} : At(a, op) /\ Then(a, <<>>) /\ held' = held
  BY DEF task_publish, task_exit, task_free
<1>3. /\ Keeping(a) /\ todo[a] # <<>> /\ todo[a][Len(todo[a])].op = op
      /\ \A fs \in Seq(Frame) : fs \o Tail(todo[a]) = fs
  BY <1>2, HeadKeeps DEF LastOps
<1>4. FrameOK(a, todo[a][1]) /\ todo[a][1].op = op /\ T(a) = todo[a][1].t /\ Shape(a, todo[a])
  BY <1>2, HeadFacts
<1>5. held[a] = {}
  BY <1>3 DEF Keeping, Keeps, KeepOps
<1>6. todo' = [todo EXCEPT ![a] = <<>>]
  <2>1. <<>> \in Seq(Frame)
    OBVIOUS
  <2>2. <<>> \o Tail(todo[a]) = <<>>
    BY <1>3, <2>1, Zenon
  <2>3. todo' = [todo EXCEPT ![a] = <<>> \o Tail(todo[a])]
    BY <1>2 DEF Then
  <2> QED BY <2>2, <2>3, Zenon
<1>7. todo'[a] = <<>> /\ held'[a] = {} /\ \A b \in Actor : b # a => todo'[b] = todo[b]
  BY <1>1, <1>2, <1>5, <1>6 DEF ListTypes
<1>8. ASSUME NEW t \in Task, NEW v, tstate' = [tstate EXCEPT ![t] = v],
             a # t => Keeping(t)' \/ Launching(t)', a = t => v # "NEW"
      PROVE  HeldOK'
  <2>1. \A b \in Task : tstate'[b] = IF b = t THEN v ELSE tstate[b]
    BY <1>1, <1>8 DEF VarTypes
  <2>2. Keeping(a)'
    <3>1. a \in Task => tstate[a] # "NEW"
      BY <1>3, Zenon DEF Keeping
    <3>2. a \in Task => tstate'[a] # "NEW"
      BY <1>8, <2>1, <3>1
    <3>3. held'[a] = Keeps(todo'[a])
      BY <1>7, KeepsNothing, Zenon
    <3> QED BY <3>2, <3>3, Zenon DEF Keeping
  <2>3. \A b \in Actor : b # a /\ b # t =>
            held'[b] = held[b] /\ (b \in Task => tstate'[b] = tstate[b])
    BY <1>2, <2>1, Zenon
  <2>4. ListTypes /\ DOMAIN held' = Actor
    BY <1>1, <1>2, Zenon
  <2>5. t \in Actor => Keeping(t)' \/ Launching(t)'
    BY <1>8, <2>2, Zenon
  <2> QED BY <1>6, <2>2, <2>3, <2>4, <2>5, HeldStep, Zenon
<1>9. CASE task_publish(a)
  <2>1. op = "publish" /\ tstate' = [tstate EXCEPT ![T(a)] = "ALIVE"]
    BY <1>2, <1>9 DEF task_publish, At
  <2>2. T(a) \in Task /\ tstate[T(a)] = "NEW"
    BY <1>4, <2>1 DEF FrameOK
  <2>3. PICK t \in Task : t = T(a)
    BY <2>2
  <2>4. Launching(t) /\ a # t
    <3>1. t \in Actor
      BY DEF Actor
    <3> QED BY <1>4, <2>2, <2>3, <3>1 DEF HeldOK, Keeping, Shape
  <2>5. Launching(t)'
    <3>1. t \in Actor /\ tstate'[t] = "ALIVE"
      BY <1>1, <2>1, <2>3 DEF Actor, VarTypes
    <3> QED BY <1>2, <1>7, <2>4, <3>1 DEF Launching
  <2> QED BY <1>8, <2>1, <2>3, <2>5
<1>10. CASE task_exit(a)
  <2>1. op = "exit" /\ tstate' = [tstate EXCEPT ![a] = "ZOMBIE"]
    BY <1>2, <1>10 DEF task_exit, At
  <2>2. a \in Task
    BY <1>4, <2>1 DEF FrameOK
  <2> QED BY <1>8, <2>1, <2>2
<1>11. CASE task_free(a)
  <2>1. op = "reaped" /\ tstate' = [tstate EXCEPT ![T(a)] = "UNUSED"]
    BY <1>2, <1>11 DEF task_free, At
  <2>2. T(a) \in Task /\ tstate[T(a)] = "ZOMBIE" /\ a = reaper
    BY <1>4, <2>1 DEF FrameOK
  <2>3. PICK t \in Task : t = T(a)
    BY <2>2
  <2>4. a # t /\ Keeping(t)
    <3>1. t \in Actor /\ t # reaper
      BY ProcessAssumption DEF Actor
    <3> QED BY <2>2, <2>3, <3>1 DEF HeldOK, Launching
  <2>5. Keeping(t)'
    <3>1. t \in Actor /\ tstate'[t] = "UNUSED"
      BY <1>1, <2>1, <2>3 DEF Actor, VarTypes
    <3> QED BY <1>2, <1>7, <2>4, <3>1 DEF Keeping
  <2> QED BY <1>8, <2>1, <2>3, <2>5
<1> QED BY <1>9, <1>10, <1>11

\* The calls that begin, the reaper, and the entry of a new task.
LEMMA HeldCalls ==
    ASSUME PInv, HeldOK
    PROVE  /\ \A a \in Actor : process_spawn_user(a) => HeldOK'
           /\ \A t \in Task : task_reap(t) => HeldOK'
           /\ \A t \in Task : task_entry(t) => HeldOK'
           /\ \A a \in Task : \A p \in Pid : process_waitpid(a, p) => HeldOK'
           /\ \A a \in Task : \A c \in Status : process_set_exit_status(a, c) => HeldOK'
<1>1. VarTypes /\ ListTypes /\ TasksOK /\ DOMAIN held = Actor
  BY DEF PInv, HeldOK
<1>2. ASSUME NEW a \in Actor, process_spawn_user(a) PROVE HeldOK'
  <2>1. F("load", kernel_process) \in Frame /\ F("load", kernel_process).op = "load"
    BY KernelPid, FrameFacts
  <2>2. "load" \notin KeepOps
    BY DEF KeepOps
  <2> QED BY <1>2, <2>1, <2>2, HeldBegin DEF process_spawn_user, taskVars
<1>3. ASSUME NEW t \in Task, task_reap(t) PROVE HeldOK'
  <2>1. Ready(reaper) /\ tstate[t] = "ZOMBIE" /\ UNCHANGED <<held, tstate>> /\ reaper \in Actor
        /\ todo' = [todo EXCEPT ![reaper] = ReapFrames(tproc[t], t)]
    BY <1>3 DEF task_reap, Actor
  <2>2. Keeping(reaper) /\ todo[reaper] = <<>>
    BY <2>1, ReadyKeeps
  <2>3. tproc[t] \in Pid
    <3>1. Being(t)
      BY <1>1, <2>1, <2>2 DEF TasksOK, TaskOK, Reaping
    <3>2. tproc[t] \in 2..(next_process_id - 1) /\ next_process_id \in 2..(MaxPid + 1)
      BY <1>1, <3>1 DEF Being, VarTypes
    <3> QED BY <3>2, KernelPid DEF Pid
  <2>4. /\ F("detach", tproc[t]) \in Frame /\ F("space", tproc[t]) \in Frame
        /\ F("release", tproc[t]) \in Frame /\ FT("reaped", tproc[t], t) \in Frame
        /\ FT("reaped", tproc[t], t).op = "reaped"
    BY <2>3, FrameFacts
  <2>5. PICK s \in Seq(Frame) : s = <<F("detach", tproc[t]), F("space", tproc[t]),
                                      F("release", tproc[t]), FT("reaped", tproc[t], t)>>
    <3>1. <<F("detach", tproc[t]), F("space", tproc[t]), F("release", tproc[t]),
            FT("reaped", tproc[t], t)>> \in Seq(Frame)
      BY <2>4
    <3> QED BY <3>1, Zenon
  <2>6. s[Len(s)].op = "reaped" /\ todo' = [todo EXCEPT ![reaper] = s]
    BY <2>1, <2>4, <2>5 DEF ReapFrames
  <2>7. Keeps(s) = {} /\ Keeps(todo[reaper]) = {}
    BY <2>2, <2>6, KeepsNothing DEF Keeps, KeepOps
  <2> QED BY <1>1, <2>1, <2>2, <2>6, <2>7, HeldOn
<1>4. ASSUME NEW t \in Task, task_entry(t) PROVE HeldOK'
  <2>1. /\ "launch" \in held[t] /\ held' = [held EXCEPT ![t] = {}] /\ UNCHANGED <<tstate, todo>>
        /\ t \in Actor /\ tstate[t] = "ALIVE"
    BY <1>4 DEF task_entry, taskVars, Actor
  <2>2. todo[t] = <<>>
    BY <2>1 DEF HeldOK, Keeping, Launching, Keeps
  <2>3. DOMAIN held' = Actor /\ held'[t] = {} /\ \A b \in Actor : b # t => held'[b] = held[b]
    BY <1>1, <2>1
  <2>4. Keeping(t)'
    BY <2>1, <2>2, <2>3, KeepsNothing DEF Keeping
  <2>5. ASSUME NEW b \in Actor, b # t PROVE Keeping(b)' \/ Launching(b)'
    BY <2>1, <2>3, <2>5 DEF HeldOK, Keeping, Launching
  <2> QED BY <2>3, <2>4, <2>5 DEF HeldOK
<1>5. ASSUME NEW a \in Task, NEW p \in Pid, process_waitpid(a, p) PROVE HeldOK'
  <2>1. F("release", p) \in Frame /\ F("release", p).op = "release" /\ a \in Actor
    BY FrameFacts DEF Actor
  <2>2. "release" \notin KeepOps
    BY DEF KeepOps
  <2>3. Ready(a) /\ todo' = [todo EXCEPT ![a] = <<F("release", p)>>] /\ UNCHANGED <<held, tstate>>
    BY <1>5 DEF process_waitpid, taskVars
  <2> QED BY <2>1, <2>2, <2>3, HeldBegin
<1>6. ASSUME NEW a \in Task, NEW c \in Status, process_set_exit_status(a, c) PROVE HeldOK'
  <2>1. Ready(a) /\ todo' = [todo EXCEPT ![a] = <<F("exit", tproc[a])>>] /\ UNCHANGED <<held, tstate>>
        /\ tstate[a] = "ALIVE" /\ a \in Actor
    BY <1>6 DEF process_set_exit_status, taskVars, Ready, Actor
  <2>2. tproc[a] \in Pid
    <3>1. tproc[a] \in 2..(next_process_id - 1) /\ next_process_id \in 2..(MaxPid + 1)
      BY <1>1, <2>1 DEF TasksOK, TaskOK, Being, VarTypes
    <3> QED BY <3>1, KernelPid DEF Pid
  <2>3. F("exit", tproc[a]) \in Frame /\ F("exit", tproc[a]).op = "exit"
    BY <2>2, FrameFacts
  <2>4. "exit" \notin KeepOps
    BY DEF KeepOps
  <2> QED BY <2>1, <2>3, <2>4, HeldBegin
<1> QED BY <1>2, <1>3, <1>4, <1>5, <1>6

\* Whichever stage of a spawn fails, everything it had is given back when it returns, and
\* the context of a new task has one owner until the task frees it.
THEOREM SpawnLeaksNothing == Spec => []NothingLeaked
<1>1. Init => HeldOK
  <2> SUFFICES ASSUME Init PROVE HeldOK
    OBVIOUS
  <2>1. /\ DOMAIN held = Actor /\ \A a \in Actor : held[a] = {} /\ todo[a] = <<>>
        /\ \A t \in Task : tstate[t] = "UNUSED"
    BY DEF Init
  <2> QED BY <2>1, KeepsNothing DEF HeldOK, Keeping
<1>2. PInv /\ HeldOK /\ [Next]_vars => HeldOK'
  <2> SUFFICES ASSUME PInv, HeldOK, [Next]_vars PROVE HeldOK'
    OBVIOUS
  <2>1. ASSUME NEW a \in Actor, Continue(a) PROVE HeldOK'
    BY <2>1, HeldLoad, HeldGiven, HeldMaking, HeldWorking, HeldTasks, HeldDone DEF Continue
  <2>2. CASE UNCHANGED vars
    BY <2>2 DEF HeldOK, Keeping, Launching, vars, taskVars
  <2> QED BY <2>1, <2>2, HeldCalls, HeldTasks DEF Next, Reap
<1>3. HeldOK => NothingLeaked
  <2> SUFFICES ASSUME HeldOK, NEW a \in Actor, todo[a] = <<>>
               PROVE  held[a] \subseteq (IF a \in Task /\ tstate[a] \in {"NEW", "ALIVE"}
                                         THEN {"launch"} ELSE {})
    BY DEF NothingLeaked
  <2>1. CASE Keeping(a)
    BY <2>1, KeepsNothing DEF Keeping
  <2>2. CASE Launching(a)
    BY <2>2 DEF Launching
  <2> QED BY <2>1, <2>2 DEF HeldOK
<1> QED BY <1>1, <1>2, <1>3, Always, PTL DEF Spec

=============================================================================
