----------------------------- MODULE AhciProofs -----------------------------
(***************************************************************************)
(* Proofs about Ahci for any disk, window, requests and buffers, and any   *)
(* number of system calls and of preemptible kernel tasks.  Of the device  *)
(* nothing is assumed: it may be slow, fail half way, or stop for good.    *)
(* While callers have met in the driver only Base holds; the rest of the   *)
(* invariant is established anew by a caller that is alone with an idle    *)
(* slot, and kept until callers meet again.                                *)
(***************************************************************************)
EXTENDS Ahci, TLAPS

-----------------------------------------------------------------------------
(* The inductive invariant                                                 *)

CacheRecord == [data : [Slot -> Value], lba : Sector, count : 0..Window,
                valid : BOOLEAN]
CallRecord == [op : Op, lba : Sector, count : 0..NSectors, done : 0..NSectors, clean : BOOLEAN]

Types ==
    /\ disk \in [Sector -> Value] /\ cache \in CacheRecord
    /\ buf \in [Task -> [Sector -> Value]] /\ call \in [Task -> CallRecord]
    /\ pc \in [Task -> {"out", "invalidate", "slot", "issue", "poll", "publish", "copy"}]
    /\ result \in {"none", "ok", "fail"}
    /\ ci \in BOOLEAN /\ tfes \in BOOLEAN /\ err \in BOOLEAN /\ overlapped \in BOOLEAN

\* The command in the table stays within the disk and the memory it names.
CommandOK(m) ==
    /\ m \in Command /\ m.lba + m.n <= NSectors /\ m.off + m.n <= NSectors
    /\ m.mem = Cache => m.op = "read"
TableOK == (table # NULL => CommandOK(table)) /\ (ci => CommandOK(table))
IssueOK == \A t \in Task : pc[t] = "issue" => CommandOK(table)
DevOK == dev # NULL => ci /\ dev \in [cmd : {table}, pos : 0..table.n]

\* A call within the disk; where it is in the driver follows from its kind.
CallOK ==
    \A t \in Task : pc[t] # "out" =>
        /\ call[t].lba + call[t].count <= NSectors /\ call[t].done < call[t].count
        /\ Small(t) => call[t].done = 0
        /\ pc[t] \in {"publish", "copy"} => Small(t)
        /\ pc[t] = "invalidate" => call[t].done = 0

\* What holds also of callers that have preempted one another.
Base == Types /\ TableOK /\ IssueOK /\ DevOK /\ CallOK

OneCaller == \A t, u \in Task : pc[t] # "out" /\ pc[u] # "out" => t = u

\* The window is not valid while its contents or the disk may change: from the
\* invalidation to the end of the call, and as long as the slot is active.
WindowClosed(t) == Small(t) \/ call[t].op = "write"
ClosedByCall ==
    \A t \in Task : pc[t] \in {"slot", "issue", "poll", "publish"} /\ WindowClosed(t)
                    => ~cache.valid
ClosedBySlot == ci /\ (table.mem = Cache \/ table.op = "write") => ~cache.valid
WindowExact ==
    cache.valid => /\ cache.lba + cache.count <= NSectors
                   /\ \A i \in 0..(cache.count - 1) : cache.data[i] = disk[cache.lba + i]

\* Sector i of command m has been moved: memory and disk agree.
Moved(m, i) ==
    disk[m.lba + i] = IF m.mem = Cache THEN cache.data[i] ELSE buf[m.mem][m.off + i]
\* What has been moved of the command a task is waiting for.
Issued == \A t \in Task : pc[t] = "issue" => ~ci /\ table = Round(t)
Polled ==
    \A t \in Task : pc[t] = "poll" =>
        /\ table = Round(t)
        /\ dev # NULL => \A i \in 0..(dev.pos - 1) : Moved(table, i)
        /\ ~ci /\ ~err => \A i \in 0..(table.n - 1) : Moved(table, i)
Filled ==
    \A t \in Task : pc[t] = "publish" =>
        ~ci /\ \A i \in 0..(ReadAhead(t) - 1) : cache.data[i] = disk[call[t].lba + i]

\* What a large call has moved in its earlier rounds, unless a command given up
\* by an earlier caller interferes, which it does only before the first round.
MovedTo(t, d) == \A s \in 0..(d - 1) : buf[t][s] = disk[call[t].lba + s]
Progress ==
    \A t \in Task : pc[t] \in {"slot", "issue", "poll"} /\ ~Small(t) /\ call[t].clean =>
        MovedTo(t, call[t].done)
CleanStart ==
    \A t \in Task : pc[t] \in {"invalidate", "slot"} /\ call[t].clean /\ ci => table.mem = Cache

IInv == /\ Types /\ TableOK /\ IssueOK /\ DevOK /\ CallOK /\ OneCaller
        /\ ClosedByCall /\ ClosedBySlot /\ WindowExact
        /\ Issued /\ Polled /\ Filled /\ Progress /\ CleanStart
HInv == Base /\ (~overlapped => IInv)

-----------------------------------------------------------------------------
(* Helpers                                                                 *)

\* What holds of each task, and vacuously of one that is not in the driver.
TaskInv == /\ CallOK /\ IssueOK /\ OneCaller /\ ClosedByCall /\ Issued /\ Polled /\ Filled
           /\ Progress /\ CleanStart

\* In the states of IInv whoever is in the driver is alone there.
LEMMA OthersOut ==
    ASSUME IInv, NEW t \in Task, pc[t] # "out"
    PROVE  \A u \in Task \ {t} : pc[u] = "out"
  BY DEF IInv, OneCaller

\* When the caller leaves, nobody is in the driver.
LEMMA AllOut ==
    ASSUME \A u \in Task : pc'[u] = "out"
    PROVE  TaskInv'
  BY DEF TaskInv, CallOK, IssueOK, OneCaller, ClosedByCall, Issued, Polled, Filled, Progress,
         CleanStart

\* The command of a round is within the disk, the window and the buffer.
LEMMA RoundOK ==
    ASSUME Types, CallOK, NEW t \in Task, pc[t] # "out"
    PROVE  /\ CommandOK(Round(t))
           /\ Small(t) => /\ Round(t).mem = Cache /\ Round(t).lba = call[t].lba
                          /\ Round(t).n = ReadAhead(t)
           /\ ~Small(t) => /\ Round(t).mem = t /\ Round(t).op = call[t].op
                           /\ Round(t).lba = call[t].lba + call[t].done
                           /\ Round(t).off = call[t].done
                           /\ Round(t).n = Chunk(t)
           /\ ReadAhead(t) \in 1..Window /\ call[t].lba + ReadAhead(t) <= NSectors
           /\ Chunk(t) \in 1..Window /\ call[t].done + Chunk(t) <= call[t].count
           /\ call[t].done + Chunk(t) < call[t].count \/ call[t].done + Chunk(t) = call[t].count
<1>1. /\ NSectors \in Nat /\ Window \in Nat /\ NSectors > 0 /\ Window > 0
      /\ Cache \notin Task /\ t \in Task
  BY AhciAssumption DEF Task
<1>2. /\ call[t].op \in {"read", "write"} /\ call[t].lba \in Nat /\ call[t].lba < NSectors
      /\ call[t].count \in Nat /\ call[t].done \in Nat
      /\ call[t].lba + call[t].count <= NSectors /\ call[t].done < call[t].count
  BY <1>1 DEF Types, CallRecord, CallOK, Sector, Op
<1>3. ReadAhead(t) \in 1..Window /\ call[t].lba + ReadAhead(t) <= NSectors
  BY <1>1, <1>2 DEF ReadAhead, Least
<1>4. /\ Chunk(t) \in 1..Window /\ call[t].done + Chunk(t) <= call[t].count
      /\ call[t].done + Chunk(t) < call[t].count \/ call[t].done + Chunk(t) = call[t].count
  BY <1>1, <1>2 DEF Chunk, Least
<1>5. CASE Small(t)
  <2>1. Round(t) = [op |-> "read", lba |-> call[t].lba, n |-> ReadAhead(t), mem |-> Cache, off |-> 0]
    BY <1>5 DEF Round
  <2> QED BY <1>1, <1>2, <1>3, <1>4, <1>5, <2>1 DEF CommandOK, Command, Sector, Op
<1>6. CASE ~Small(t)
  <2>1. Round(t) = [op |-> call[t].op, lba |-> call[t].lba + call[t].done, n |-> Chunk(t),
                    mem |-> t, off |-> call[t].done]
    BY <1>6 DEF Round
  <2> QED BY <1>1, <1>2, <1>3, <1>4, <1>6, <2>1 DEF CommandOK, Command, Sector, Op
<1> QED BY <1>5, <1>6

\* The disk is idle and the window closed at the start.
LEMMA InitIInv == Init => IInv /\ HInv
<1> SUFFICES ASSUME Init PROVE IInv /\ HInv
  OBVIOUS
<1>1. /\ NSectors \in Nat /\ Window \in Nat /\ NSectors > 0 /\ Window > 0
      /\ 0 \in Sector /\ 0 \in 0..Window /\ 0 \in 0..NSectors
  BY AhciAssumption DEF Sector
<1>2. Before \in [Sector -> Value] /\ disk \in [Sector -> Value]
  BY AhciAssumption DEF Before, Init, Sector
<1>3. cache \in CacheRecord /\ ~cache.valid
  <2>1. PICK b \in Patterns : b \in [Sector -> Value]
    BY AhciAssumption DEF Sector
  <2>2. [i \in Slot |-> b[0]] \in [Slot -> Value]
    BY <1>1, <2>1
  <2>3. Erased \in [Slot -> Value]
    BY <2>2 DEF Erased
  <2> QED BY <1>1, <2>3 DEF Init, CacheRecord
<1>4. NoCall \in CallRecord
  BY <1>1 DEF NoCall, CallRecord, Op
<1>5. Types
  BY <1>2, <1>3, <1>4 DEF Init, Types
<1>6. \A t \in Task : pc[t] = "out"
  BY DEF Init
<1>7. TaskInv
  BY <1>6 DEF TaskInv, CallOK, IssueOK, OneCaller, ClosedByCall, Issued, Polled, Filled, Progress,
              CleanStart
<1> QED BY <1>3, <1>5, <1>7
        DEF Init, IInv, HInv, Base, TaskInv, TableOK, DevOK, ClosedBySlot, WindowExact

-----------------------------------------------------------------------------
(* What holds also while callers meet                                      *)

\* A call leaves the driver.
LEMMA ReturnBase ==
    ASSUME Base, NEW t \in Task, NEW r \in {"ok", "fail"}, Return(t, r),
           UNCHANGED <<disk, devVars>>, overlapped' \in BOOLEAN,
           cache' \in CacheRecord, buf' \in [Task -> [Sector -> Value]]
    PROVE  Base'
<1>1. NoCall \in CallRecord
  BY AhciAssumption DEF NoCall, CallRecord, Op, Sector
<1>2. /\ pc' = [pc EXCEPT ![t] = "out"] /\ call' = [call EXCEPT ![t] = NoCall] /\ result' = r
      /\ UNCHANGED <<disk, table, ci, tfes, err, dev>>
  BY DEF Return, Goto, devVars
<1>3. Types'
  BY <1>1, <1>2 DEF Base, Types
<1>4. TableOK' /\ DevOK'
  BY <1>2 DEF Base, TableOK, DevOK
<1>5. \A u \in Task : pc'[u] # "out" => u # t /\ pc'[u] = pc[u] /\ call'[u] = call[u]
  BY <1>2 DEF Base, Types
<1>6. IssueOK' /\ CallOK'
  BY <1>2, <1>5 DEF Base, IssueOK, CallOK, Small
<1> QED BY <1>3, <1>4, <1>6 DEF Base

\* A call gives up: the window may be closed, never opened.
LEMMA FailsBase ==
    ASSUME Base, NEW t \in Task, Fails(t), UNCHANGED <<disk, devVars, buf, overlapped>>
    PROVE  Base'
<1>1. cache' \in CacheRecord
  BY DEF Fails, Base, Types, CacheRecord
<1>2. Return(t, "fail") /\ buf' \in [Task -> [Sector -> Value]] /\ overlapped' \in BOOLEAN
  BY DEF Fails, Base, Types
<1> QED BY <1>1, <1>2, ReturnBase

\* A call within the disk enters the driver.
LEMMA BeginBase ==
    ASSUME Base, NEW t \in Task, NEW op \in Op, NEW lba \in Nat, NEW n \in Nat,
           NEW b \in Patterns, Begin(t, op, lba, n, b)
    PROVE  Base'
<1>0. /\ NSectors \in Nat /\ Window \in Nat /\ NSectors > 0 /\ Window > 0
  BY AhciAssumption
<1>1. UNCHANGED <<disk, cache, table, ci, tfes, err, dev>> /\ overlapped' \in BOOLEAN
  BY DEF Begin, devVars
<1>2. CASE ~InRange(lba, n)
  <2>1. Return(t, "fail") /\ UNCHANGED <<disk, devVars>>
    BY <1>1, <1>2 DEF Begin, devVars
  <2>2. cache' \in CacheRecord /\ buf' \in [Task -> [Sector -> Value]]
    BY <1>1, <1>2 DEF Begin, Base, Types
  <2> QED BY <1>1, <2>1, <2>2, ReturnBase
<1>3. CASE InRange(lba, n)
  <2>0. PICK fresh \in BOOLEAN : fresh = ~Abandoned
    OBVIOUS
  <2> DEFINE cl == [op |-> op, lba |-> lba, count |-> n, done |-> 0, clean |-> fresh]
             p  == IF op = "write" THEN "invalidate"
                   ELSE IF n > Window THEN "slot"
                   ELSE IF Contains(lba, n) THEN "copy" ELSE "invalidate"
  <2>1. /\ call' = [call EXCEPT ![t] = cl] /\ UNCHANGED result
        /\ buf' = [buf EXCEPT ![t] = IF op = "write" THEN b ELSE Before]
        /\ pc' = [pc EXCEPT ![t] = p]
    BY <1>3, <2>0 DEF Begin, Goto
  <2>2. n # 0 /\ lba \in Sector /\ n \in 0..NSectors /\ lba + n <= NSectors
    BY <1>0, <1>3 DEF InRange, Sector
  <2>3. cl \in CallRecord
    BY <1>0, <2>2 DEF CallRecord
  <2>4. /\ Before \in [Sector -> Value] /\ b \in [Sector -> Value]
    BY AhciAssumption DEF Before, Sector
  <2>5. /\ p \in {"invalidate", "slot", "copy"}
        /\ p = "copy" => op = "read" /\ ~(n > Window)
    BY DEF Op
  <2>6. /\ call'[t] = cl /\ pc'[t] = p
        /\ \A u \in Task \ {t} : pc'[u] = pc[u] /\ call'[u] = call[u]
    BY <2>1 DEF Base, Types
  <2>7. Types'
    <3>1. call' \in [Task -> CallRecord]
      BY <2>1, <2>3 DEF Base, Types
    <3>2. buf' \in [Task -> [Sector -> Value]]
      BY <2>1, <2>4 DEF Base, Types
    <3> HIDE DEF p
    <3>3. pc' \in [Task -> {"out", "invalidate", "slot", "issue", "poll", "publish", "copy"}]
      BY <2>1, <2>5 DEF Base, Types
    <3> QED BY <1>1, <2>1, <3>1, <3>2, <3>3 DEF Base, Types
  <2>8. TableOK' /\ DevOK'
    BY <1>1 DEF Base, TableOK, DevOK
  <2>9. call'[t].op = op /\ call'[t].lba = lba /\ call'[t].count = n /\ call'[t].done = 0
    BY <2>6
  <2> HIDE DEF p, cl
  <2>10. IssueOK'
    BY <1>1, <2>5, <2>6 DEF Base, IssueOK
  <2>11. ASSUME NEW u \in Task, pc'[u] # "out"
         PROVE  /\ call'[u].lba + call'[u].count <= NSectors /\ call'[u].done < call'[u].count
                /\ Small(u)' => call'[u].done = 0
                /\ pc'[u] \in {"publish", "copy"} => Small(u)'
                /\ pc'[u] = "invalidate" => call'[u].done = 0
    <3>1. CASE u = t
      BY <1>0, <2>2, <2>5, <2>6, <2>9, <3>1 DEF Small
    <3>2. CASE u # t
      BY <2>6, <2>11, <3>2 DEF Base, CallOK, Small
    <3> QED BY <3>1, <3>2
  <2>12. CallOK'
    BY <2>11 DEF CallOK
  <2> QED BY <2>7, <2>8, <2>10, <2>12 DEF Base
<1> QED BY <1>2, <1>3

\* A step of a call inside the driver that changes neither the call nor, but for the
\* window and what it says of itself, the memory.
LEMMA GotoBase ==
    ASSUME Base, NEW t \in Task, pc[t] # "out",
           NEW p \in {"slot", "issue", "poll", "publish", "copy"}, Goto(t, p),
           UNCHANGED <<disk, err, dev, call, buf, result>>,
           cache' \in CacheRecord, ci' \in BOOLEAN, tfes' \in BOOLEAN, overlapped' \in BOOLEAN,
           TableOK', DevOK', p = "issue" => CommandOK(table)',
           \A u \in Task : pc[u] = "issue" => CommandOK(table)',
           p \in {"publish", "copy"} => Small(t)
    PROVE  Base'
<1>1. pc' = [pc EXCEPT ![t] = p]
  BY DEF Goto
<1>2. Types'
  BY <1>1 DEF Base, Types
<1>3. pc'[t] = p /\ \A u \in Task \ {t} : pc'[u] = pc[u]
  BY <1>1 DEF Base, Types
<1>4. IssueOK'
  BY <1>3 DEF Base, IssueOK
<1>5. CallOK'
  BY <1>3 DEF Base, CallOK, Small
<1> QED BY <1>2, <1>4, <1>5 DEF Base

LEMMA InvalidateBase ==
    ASSUME Base, NEW t \in Task, Invalidate(t)
    PROVE  Base' /\ ~cache'.valid
<1>1. /\ pc[t] = "invalidate" /\ Goto(t, "slot") /\ overlapped' \in BOOLEAN
      /\ cache' = [cache EXCEPT !.valid = FALSE, !.count = 0]
      /\ UNCHANGED <<disk, table, ci, tfes, err, dev, call, buf, result>>
  BY DEF Invalidate, Invalidated, devVars
<1>2. cache' \in CacheRecord /\ ~cache'.valid
  <2>1. cache \in CacheRecord /\ 0 \in 0..Window
    BY AhciAssumption DEF Base, Types
  <2>2. cache' = [data |-> cache.data, lba |-> cache.lba, count |-> 0, valid |-> FALSE]
    BY <1>1, <2>1 DEF CacheRecord
  <2> QED BY <2>1, <2>2 DEF CacheRecord
<1>3. /\ TableOK' /\ DevOK' /\ ci' \in BOOLEAN /\ tfes' \in BOOLEAN
      /\ \A u \in Task : pc[u] = "issue" => CommandOK(table)'
  BY <1>1 DEF Base, TableOK, IssueOK, DevOK, Types, CommandOK
<1>4. Base'
  BY <1>1, <1>2, <1>3, GotoBase
<1> QED BY <1>2, <1>4

LEMMA BuildBase ==
    ASSUME Base, NEW t \in Task, BuildCommand(t)
    PROVE  Base'
<1>1. CASE Fails(t) /\ UNCHANGED <<disk, devVars, buf, overlapped>>
  BY <1>1, FailsBase
<1>2. CASE SlotFree(t) /\ tfes' = FALSE /\ table' = Round(t) /\ Goto(t, "issue")
           /\ UNCHANGED <<cache, call, result, disk, ci, err, dev, buf, overlapped>>
  <2>1. pc[t] = "slot" /\ ~ci
    BY <1>2 DEF BuildCommand, SlotFree
  <2>2. CommandOK(Round(t))
    BY <2>1, RoundOK DEF Base
  <2>3. CommandOK(table)'
    BY <1>2, <2>2 DEF CommandOK
  <2>4. TableOK' /\ DevOK'
    BY <1>2, <2>1, <2>3 DEF Base, TableOK, DevOK
  <2>5. cache' \in CacheRecord /\ ci' \in BOOLEAN /\ overlapped' \in BOOLEAN
    BY <1>2 DEF Base, Types
  <2> QED BY <1>2, <2>1, <2>3, <2>4, <2>5, GotoBase
<1> QED BY <1>1, <1>2 DEF BuildCommand, devVars

LEMMA IssueBase ==
    ASSUME Base, NEW t \in Task, IssueCommand(t)
    PROVE  Base'
<1>1. /\ pc[t] = "issue" /\ Goto(t, "poll") /\ ci' = TRUE
      /\ UNCHANGED <<disk, cache, table, tfes, err, dev, call, buf, result, overlapped>>
  BY DEF IssueCommand
<1>2. CommandOK(table) /\ CommandOK(table)'
  BY <1>1 DEF Base, IssueOK, CommandOK
<1>3. TableOK' /\ DevOK'
  BY <1>1, <1>2 DEF Base, TableOK, DevOK
<1>4. cache' \in CacheRecord /\ tfes' \in BOOLEAN /\ overlapped' \in BOOLEAN
  BY <1>1 DEF Base, Types
<1> QED BY <1>1, <1>2, <1>3, <1>4, GotoBase

LEMMA DoneBase ==
    ASSUME Base, NEW t \in Task, CommandDone(t)
    PROVE  Base'
<1>1. /\ pc[t] = "poll" /\ UNCHANGED <<disk, cache, table, ci, tfes, err, dev, buf, overlapped>>
  BY DEF CommandDone, devVars
<1>2. /\ TableOK' /\ DevOK' /\ cache' \in CacheRecord /\ ci' \in BOOLEAN /\ tfes' \in BOOLEAN
      /\ overlapped' \in BOOLEAN /\ buf' \in [Task -> [Sector -> Value]]
      /\ \A u \in Task : pc[u] = "issue" => CommandOK(table)'
  BY <1>1 DEF Base, TableOK, IssueOK, DevOK, Types, CommandOK
<1>3. CASE Small(t)
  <2>1. Goto(t, "publish") /\ UNCHANGED <<call, result>>
    BY <1>3 DEF CommandDone
  <2> QED BY <1>1, <1>2, <1>3, <2>1, GotoBase
<1>4. CASE ~Small(t) /\ call[t].done + Chunk(t) < call[t].count
  <2>1. Round(t).n = Chunk(t) /\ Chunk(t) \in 1..Window
    BY <1>1, <1>4, RoundOK DEF Base
  <2>2. /\ call' = [call EXCEPT ![t].done = call[t].done + Chunk(t)]
        /\ pc' = [pc EXCEPT ![t] = "slot"] /\ UNCHANGED result
    BY <1>4, <2>1 DEF CommandDone, Goto
  <2>3. pc'[t] = "slot" /\ \A u \in Task \ {t} : pc'[u] = pc[u] /\ call'[u] = call[u]
    BY <2>2 DEF Base, Types
  <2>4. /\ call[t] \in CallRecord /\ call[t].done \in Nat /\ call[t].count \in Nat
        /\ NSectors \in Nat /\ Window \in Nat /\ call[t].count <= NSectors
    BY AhciAssumption DEF Base, Types, CallRecord
  <2>5. call'[t] = [call[t] EXCEPT !.done = call[t].done + Chunk(t)]
    BY <2>2 DEF Base, Types
  <2>6. call[t].done + Chunk(t) \in 0..NSectors
    BY <1>4, <2>1, <2>4
  <2>7. /\ call'[t] \in CallRecord
        /\ call'[t].op = call[t].op /\ call'[t].lba = call[t].lba
        /\ call'[t].count = call[t].count
        /\ call'[t].done = call[t].done + Chunk(t)
    BY <2>4, <2>5, <2>6 DEF CallRecord
  <2>8. Types'
    BY <1>1, <2>2, <2>7 DEF Base, Types
  <2>9. IssueOK'
    BY <1>1, <2>3 DEF Base, IssueOK
  <2>10. ASSUME NEW u \in Task, pc'[u] # "out"
         PROVE  /\ call'[u].lba + call'[u].count <= NSectors /\ call'[u].done < call'[u].count
                /\ Small(u)' => call'[u].done = 0
                /\ pc'[u] \in {"publish", "copy"} => Small(u)'
                /\ pc'[u] = "invalidate" => call'[u].done = 0
    <3>1. CASE u = t
      BY <1>1, <1>4, <2>3, <2>7, <3>1 DEF Base, CallOK, Small
    <3>2. CASE u # t
      BY <2>3, <2>10, <3>2 DEF Base, CallOK, Small
    <3> QED BY <3>1, <3>2
  <2>11. CallOK'
    BY <2>10 DEF CallOK
  <2> QED BY <1>2, <2>8, <2>9, <2>11 DEF Base
<1>5. CASE ~Small(t) /\ ~(call[t].done + Chunk(t) < call[t].count)
  <2>1. Round(t).n = Chunk(t)
    BY <1>1, <1>5, RoundOK DEF Base
  <2>2. Return(t, "ok") /\ UNCHANGED <<disk, devVars>>
    BY <1>1, <1>5, <2>1 DEF CommandDone, devVars
  <2> QED BY <1>2, <2>2, ReturnBase
<1> QED BY <1>3, <1>4, <1>5

LEMMA PublishBase ==
    ASSUME Base, NEW t \in Task, PublishCache(t)
    PROVE  /\ Base' /\ cache'.data = cache.data /\ cache'.lba = call[t].lba
           /\ cache'.count = ReadAhead(t)
<1>1. /\ pc[t] = "publish" /\ Goto(t, "copy")
      /\ cache' = [cache EXCEPT !.lba = call[t].lba, !.count = ReadAhead(t), !.valid = TRUE]
      /\ UNCHANGED <<disk, table, ci, tfes, err, dev, call, buf, result, overlapped>>
  BY DEF PublishCache, devVars
<1>2. ReadAhead(t) \in 0..Window /\ call[t].lba \in Sector
  <2>1. ReadAhead(t) \in 1..Window
    BY <1>1, RoundOK DEF Base
  <2> QED BY <2>1, AhciAssumption DEF Base, Types, CallRecord
<1>3. /\ cache' \in CacheRecord /\ cache'.data = cache.data /\ cache'.lba = call[t].lba
      /\ cache'.count = ReadAhead(t)
  <2>1. cache \in CacheRecord
    BY DEF Base, Types
  <2>2. cache' = [data |-> cache.data, lba |-> call[t].lba, count |-> ReadAhead(t), valid |-> TRUE]
    BY <1>1, <2>1 DEF CacheRecord
  <2> QED BY <1>2, <2>1, <2>2 DEF CacheRecord
<1>4. /\ TableOK' /\ DevOK' /\ ci' \in BOOLEAN /\ tfes' \in BOOLEAN /\ overlapped' \in BOOLEAN
      /\ \A u \in Task : pc[u] = "issue" => CommandOK(table)'
  BY <1>1 DEF Base, TableOK, IssueOK, DevOK, Types, CommandOK
<1>5. Small(t)
  BY <1>1 DEF Base, CallOK
<1>6. Base'
  BY <1>1, <1>3, <1>4, <1>5, GotoBase
<1> QED BY <1>3, <1>6

\* What is copied out of the window lies in the window and in the buffer.
LEMMA CopyInside ==
    ASSUME Base, NEW t \in Task, pc[t] = "copy", Contains(call[t].lba, call[t].count),
           NEW s \in 0..(call[t].count - 1)
    PROVE  /\ call[t].lba - cache.lba + s \in 0..(cache.count - 1)
           /\ call[t].lba - cache.lba + s \in Slot
           /\ call[t].lba + s \in Sector
           /\ cache.lba + (call[t].lba - cache.lba + s) = call[t].lba + s
<1>1. /\ call[t].lba \in Nat /\ call[t].count \in Nat /\ cache.lba \in Nat /\ cache.count \in Nat
      /\ NSectors \in Nat /\ Window \in Nat /\ cache.count <= Window
  BY AhciAssumption DEF Base, Types, CallRecord, CacheRecord, Sector
<1>2. /\ cache.valid /\ call[t].lba >= cache.lba /\ call[t].lba - cache.lba < cache.count
      /\ call[t].count <= cache.count - (call[t].lba - cache.lba)
  BY DEF Contains
<1>3. call[t].lba - cache.lba + s \in 0..(cache.count - 1)
  BY <1>1, <1>2
<1>4. call[t].lba + s \in Sector
  BY <1>1 DEF Base, CallOK, Sector
<1> QED BY <1>1, <1>3, <1>4 DEF Slot

LEMMA CopyBase ==
    ASSUME Base, NEW t \in Task, CopyOut(t)
    PROVE  Base'
<1>1. /\ pc[t] = "copy" /\ UNCHANGED <<disk, cache, devVars, overlapped>>
      /\ Return(t, "ok") \/ Return(t, "fail")
  BY DEF CopyOut
<1>2. buf' \in [Task -> [Sector -> Value]]
  <2>1. CASE Contains(call[t].lba, call[t].count)
    <3> DEFINE b == [s \in Sector |-> IF s < call[t].count
                       THEN cache.data[call[t].lba - cache.lba + s] ELSE buf[t][s]]
    <3>1. buf' = [buf EXCEPT ![t] = b]
      BY <2>1 DEF CopyOut, Base, Types
    <3>2. ASSUME NEW s \in Sector PROVE b[s] \in Value
      <4>1. CASE s < call[t].count
        <5>1. s \in 0..(call[t].count - 1)
          BY <4>1, AhciAssumption DEF Sector, Base, Types, CallRecord
        <5>2. call[t].lba - cache.lba + s \in Slot
          BY <1>1, <2>1, <5>1, CopyInside
        <5> QED BY <4>1, <5>2 DEF Base, Types, CacheRecord
      <4>2. CASE ~(s < call[t].count)
        BY <4>2 DEF Base, Types
      <4> QED BY <4>1, <4>2
    <3>3. b \in [Sector -> Value]
      BY <3>2
    <3> HIDE DEF b
    <3> QED BY <3>1, <3>3 DEF Base, Types
  <2>2. CASE ~Contains(call[t].lba, call[t].count)
    BY <2>2 DEF CopyOut, Base, Types
  <2> QED BY <2>1, <2>2
<1>3. cache' \in CacheRecord /\ overlapped' \in BOOLEAN
  BY <1>1 DEF Base, Types
<1> QED BY <1>1, <1>2, <1>3, ReturnBase

LEMMA FetchBase ==
    ASSUME Base, DevFetch
    PROVE  Base'
<1>1. /\ ci /\ dev' = [cmd |-> table, pos |-> 0]
      /\ UNCHANGED <<disk, cache, table, ci, tfes, err, pc, call, result, overlapped, buf>>
  BY DEF DevFetch, taskVars
<1>2. table.n \in Nat
  BY <1>1, AhciAssumption DEF Base, TableOK, CommandOK, Command
<1>3. DevOK'
  BY <1>1, <1>2 DEF DevOK
<1>4. Types' /\ TableOK' /\ IssueOK' /\ CallOK'
  BY <1>1 DEF Base, Types, TableOK, IssueOK, CallOK, CommandOK, Small
<1> QED BY <1>3, <1>4 DEF Base

LEMMA EndBase ==
    ASSUME Base, DevEnd
    PROVE  Base'
<1>1. /\ dev # NULL /\ dev' = NULL /\ ci' \in BOOLEAN /\ tfes' \in BOOLEAN /\ err' \in BOOLEAN
      /\ UNCHANGED <<disk, cache, table, pc, call, result, overlapped, buf>>
  BY DEF DevEnd, taskVars, Base, Types
<1>2. ci
  BY <1>1 DEF Base, DevOK
<1>3. Types' /\ CallOK' /\ IssueOK'
  BY <1>1 DEF Base, Types, CallOK, IssueOK, CommandOK, Small
<1>4. TableOK' /\ DevOK'
  BY <1>1, <1>2 DEF Base, TableOK, DevOK, CommandOK
<1> QED BY <1>3, <1>4 DEF Base

\* What one sector moved by the device changes: of the disk for a write, else of the
\* window or of the buffer the command names; afterwards memory and disk agree there.
LEMMA TransferEffect ==
    ASSUME Base, DevTransfer
    PROVE  LET m == table  i == dev.pos
           IN  /\ ci /\ dev # NULL /\ CommandOK(m) /\ i \in 0..(m.n - 1)
               /\ dev' = [cmd |-> m, pos |-> i + 1]
               /\ UNCHANGED <<table, ci, tfes, err, pc, call, result, overlapped>>
               /\ \/ /\ m.op = "write" /\ m.mem \in Task /\ UNCHANGED <<cache, buf>>
                     /\ disk' = [disk EXCEPT ![m.lba + i] = buf[m.mem][m.off + i]]
                  \/ /\ m.op = "read" /\ m.mem = Cache /\ UNCHANGED <<disk, buf>>
                     /\ cache' = [cache EXCEPT !.data[i] = disk[m.lba + i]]
                  \/ /\ m.op = "read" /\ m.mem \in Task /\ UNCHANGED <<disk, cache>>
                     /\ buf' = [buf EXCEPT ![m.mem][m.off + i] = disk[m.lba + i]]
<1>1. /\ dev # NULL /\ dev.pos < dev.cmd.n /\ dev' = [dev EXCEPT !.pos = @ + 1]
      /\ UNCHANGED <<table, ci, tfes, err, pc, call, result, overlapped>>
  BY DEF DevTransfer, taskVars
<1>2. ci /\ dev \in [cmd : {table}, pos : 0..table.n]
  BY <1>1 DEF Base, DevOK
<1>3. CommandOK(table) /\ dev.cmd = table
  BY <1>2 DEF Base, TableOK
<1>4. table.n \in Nat /\ table.op \in {"read", "write"} /\ table.mem \in Task \cup {Cache}
  BY <1>3, AhciAssumption DEF CommandOK, Command, Op
<1>5. dev.pos \in 0..(table.n - 1) /\ dev' = [cmd |-> table, pos |-> dev.pos + 1]
  BY <1>1, <1>2, <1>3, <1>4
<1>6. table.mem = Cache => table.op = "read"
  BY <1>3 DEF CommandOK
<1> QED BY <1>1, <1>2, <1>3, <1>4, <1>5, <1>6 DEF DevTransfer

\* The same point by point.
LEMMA TransferPoints ==
    ASSUME Base, DevTransfer
    PROVE  LET m == table  i == dev.pos
           IN  /\ disk' \in [Sector -> Value]
               /\ \A s \in Sector : disk'[s] # disk[s] => m.op = "write" /\ m.mem \in Task /\ s = m.lba + i
               /\ m.op = "write" => disk'[m.lba + i] = buf[m.mem][m.off + i]
               /\ cache' \in CacheRecord /\ cache'.lba = cache.lba /\ cache'.count = cache.count
               /\ cache'.valid = cache.valid
               /\ \A j \in Slot : cache'.data[j] # cache.data[j] => m.op = "read" /\ m.mem = Cache /\ j = i
               /\ m.mem = Cache => m.op = "read" /\ cache'.data[i] = disk[m.lba + i]
               /\ buf' \in [Task -> [Sector -> Value]]
               /\ \A t \in Task : \A s \in Sector :
                     buf'[t][s] # buf[t][s] => m.op = "read" /\ m.mem = t /\ s = m.off + i
               /\ m.op = "read" /\ m.mem \in Task => buf'[m.mem][m.off + i] = disk[m.lba + i]
<1> DEFINE m == table
           i == dev.pos
<1>0. /\ ci /\ dev # NULL /\ CommandOK(m) /\ i \in 0..(m.n - 1)
      /\ dev' = [cmd |-> m, pos |-> i + 1]
      /\ UNCHANGED <<table, ci, tfes, err, pc, call, result, overlapped>>
      /\ \/ /\ m.op = "write" /\ m.mem \in Task /\ UNCHANGED <<cache, buf>>
            /\ disk' = [disk EXCEPT ![m.lba + i] = buf[m.mem][m.off + i]]
         \/ /\ m.op = "read" /\ m.mem = Cache /\ UNCHANGED <<disk, buf>>
            /\ cache' = [cache EXCEPT !.data[i] = disk[m.lba + i]]
         \/ /\ m.op = "read" /\ m.mem \in Task /\ UNCHANGED <<disk, cache>>
            /\ buf' = [buf EXCEPT ![m.mem][m.off + i] = disk[m.lba + i]]
  BY TransferEffect
<1>1. /\ NSectors \in Nat /\ Window \in Nat /\ m.lba \in Nat /\ m.off \in Nat /\ m.n \in Nat
      /\ i \in Nat /\ m.n <= Window /\ Cache \notin Task
      /\ m.lba + m.n <= NSectors /\ m.off + m.n <= NSectors
  BY <1>0, AhciAssumption DEF CommandOK, Command, Sector, Task
<1>2. m.lba + i \in Sector /\ m.off + i \in Sector /\ i \in Slot
  BY <1>0, <1>1 DEF Sector, Slot
<1>3. /\ disk \in [Sector -> Value] /\ cache \in CacheRecord
      /\ buf \in [Task -> [Sector -> Value]]
  BY DEF Base, Types
<1> HIDE DEF m, i
\* The three cases of the transfer, point by point.
<1>4. /\ disk' \in [Sector -> Value]
      /\ \A s \in Sector : disk'[s] # disk[s] => m.op = "write" /\ m.mem \in Task /\ s = m.lba + i
      /\ m.op = "write" => disk'[m.lba + i] = buf[m.mem][m.off + i]
  <2>1. CASE m.op = "write"
    <3>1. m.mem \in Task /\ disk' = [disk EXCEPT ![m.lba + i] = buf[m.mem][m.off + i]]
      BY <1>0, <2>1
    <3>2. buf[m.mem][m.off + i] \in Value
      BY <1>2, <1>3, <3>1
    <3>3. disk' \in [Sector -> Value]
      BY <1>3, <3>1, <3>2
    <3>4. disk'[m.lba + i] = buf[m.mem][m.off + i]
      BY <1>2, <1>3, <3>1
    <3>5. \A s \in Sector : s # m.lba + i => disk'[s] = disk[s]
      BY <1>3, <3>1
    <3> QED BY <2>1, <3>1, <3>3, <3>4, <3>5
  <2>2. CASE m.op # "write"
    BY <1>0, <1>3, <2>2
  <2> QED BY <2>1, <2>2
<1>5. /\ cache' \in CacheRecord /\ cache'.lba = cache.lba /\ cache'.count = cache.count
      /\ cache'.valid = cache.valid
      /\ \A j \in Slot : cache'.data[j] # cache.data[j] => m.op = "read" /\ m.mem = Cache /\ j = i
      /\ m.mem = Cache => m.op = "read" /\ cache'.data[i] = disk[m.lba + i]
  <2>1. CASE m.mem = Cache
    <3>1. m.op = "read" /\ cache' = [cache EXCEPT !.data[i] = disk[m.lba + i]]
      BY <1>0, <1>1, <2>1
    <3>2. disk[m.lba + i] \in Value /\ cache.data \in [Slot -> Value]
      BY <1>2, <1>3 DEF CacheRecord
    <3>3. cache' = [data |-> [cache.data EXCEPT ![i] = disk[m.lba + i]], lba |-> cache.lba,
                    count |-> cache.count, valid |-> cache.valid]
      BY <1>3, <3>1 DEF CacheRecord
    <3>4. [cache.data EXCEPT ![i] = disk[m.lba + i]] \in [Slot -> Value]
      BY <1>2, <3>2
    <3>5. cache' \in CacheRecord
      BY <1>3, <3>3, <3>4 DEF CacheRecord
    <3>6. cache'.lba = cache.lba /\ cache'.count = cache.count /\ cache'.valid = cache.valid
          /\ cache'.data = [cache.data EXCEPT ![i] = disk[m.lba + i]]
      BY <3>3
    <3> QED BY <1>2, <2>1, <3>1, <3>2, <3>5, <3>6
  <2>2. CASE m.mem # Cache
    BY <1>0, <1>3, <2>2
  <2> QED BY <2>1, <2>2
<1>6. /\ buf' \in [Task -> [Sector -> Value]]
      /\ \A t \in Task : \A s \in Sector :
            buf'[t][s] # buf[t][s] => m.op = "read" /\ m.mem = t /\ s = m.off + i
      /\ m.op = "read" /\ m.mem \in Task => buf'[m.mem][m.off + i] = disk[m.lba + i]
  <2>1. CASE m.op = "read" /\ m.mem \in Task
    <3>1. buf' = [buf EXCEPT ![m.mem][m.off + i] = disk[m.lba + i]]
      BY <1>0, <1>1, <2>1
    <3>2. disk[m.lba + i] \in Value /\ buf[m.mem] \in [Sector -> Value]
      BY <1>2, <1>3, <2>1
    <3>3. buf' = [buf EXCEPT ![m.mem] = [buf[m.mem] EXCEPT ![m.off + i] = disk[m.lba + i]]]
      BY <1>3, <2>1, <3>1
    <3>4. [buf[m.mem] EXCEPT ![m.off + i] = disk[m.lba + i]] \in [Sector -> Value]
      BY <1>2, <3>2
    <3> QED BY <1>2, <1>3, <2>1, <3>2, <3>3, <3>4
  <2>2. CASE ~(m.op = "read" /\ m.mem \in Task)
    BY <1>0, <1>1, <1>3, <2>2
  <2> QED BY <2>1, <2>2
<1> QED BY <1>4, <1>5, <1>6 DEF m, i

LEMMA TransferBase ==
    ASSUME Base, DevTransfer
    PROVE  Base'
<1>1. /\ ci /\ CommandOK(table) /\ dev.pos \in 0..(table.n - 1)
      /\ dev' = [cmd |-> table, pos |-> dev.pos + 1]
      /\ UNCHANGED <<table, ci, tfes, err, pc, call, result, overlapped>>
  BY TransferEffect
<1>2. /\ disk' \in [Sector -> Value] /\ cache' \in CacheRecord
      /\ buf' \in [Task -> [Sector -> Value]]
  BY TransferPoints
<1>3. Types' /\ TableOK' /\ IssueOK' /\ CallOK'
  BY <1>1, <1>2 DEF Base, Types, TableOK, IssueOK, CallOK, CommandOK, Small
<1>4. DevOK'
  <2>1. table.n \in Nat /\ table' = table
    BY <1>1, AhciAssumption DEF CommandOK, Command
  <2>2. dev' = [cmd |-> table', pos |-> dev.pos + 1] /\ dev.pos + 1 \in 0..table'.n /\ ci'
    BY <1>1, <2>1
  <2> QED BY <2>2 DEF DevOK
<1> QED BY <1>3, <1>4 DEF Base

-----------------------------------------------------------------------------
(* The callers, when nobody preempts another one                           *)

\* ahci_read_dma or ahci_write_dma gives up: the window may be closed, never opened.
LEMMA FailsIInv ==
    ASSUME IInv, Base', NEW t \in Task, pc[t] # "out", Fails(t),
           UNCHANGED <<disk, devVars, buf>>
    PROVE  IInv'
<1>1. \A u \in Task : pc'[u] = "out"
  BY OthersOut DEF Fails, Return, Goto, IInv, Types
<1>2. TaskInv'
  BY <1>1, AllOut
<1>3. /\ cache'.data = cache.data /\ cache'.lba = cache.lba
      /\ cache'.count = cache.count /\ (cache'.valid => cache.valid)
  BY DEF Fails, IInv, Types, CacheRecord
<1>4. ClosedBySlot'
  BY <1>3 DEF IInv, ClosedBySlot, devVars
<1>5. WindowExact'
  BY <1>3 DEF IInv, WindowExact
<1> QED BY <1>2, <1>4, <1>5 DEF IInv, Base, TaskInv

\* A call outside the disk comes back at once; whoever is in the driver stays there.
LEMMA RejectIInv ==
    ASSUME IInv, Base', NEW t \in Task, pc[t] = "out", Return(t, "fail"),
           UNCHANGED <<disk, cache, devVars, buf>>
    PROVE  IInv'
<1>1. /\ pc' = [pc EXCEPT ![t] = "out"] /\ call' = [call EXCEPT ![t] = NoCall]
      /\ UNCHANGED <<disk, cache, table, ci, tfes, err, dev, buf>>
  BY DEF Return, Goto, devVars
<1>2. \A u \in Task : pc'[u] = pc[u] /\ (pc[u] # "out" => call'[u] = call[u])
  BY <1>1 DEF IInv, Types
<1>3. \A u \in Task : pc[u] # "out" =>
          /\ Round(u)' = Round(u) /\ ReadAhead(u)' = ReadAhead(u)
          /\ Small(u)' <=> Small(u)
  BY <1>2 DEF Round, Small, ReadAhead, Chunk
<1>4. OneCaller' /\ ClosedBySlot' /\ WindowExact'
  BY <1>1, <1>2 DEF IInv, OneCaller, ClosedBySlot, WindowExact
<1>5. ClosedByCall' /\ Issued' /\ Filled'
  BY <1>1, <1>2, <1>3 DEF IInv, ClosedByCall, WindowClosed, Issued, Filled
<1>6. Polled'
  BY <1>1, <1>2, <1>3 DEF IInv, Polled, Moved
<1>7. Progress' /\ CleanStart'
  BY <1>1, <1>2, <1>3 DEF IInv, Progress, CleanStart, MovedTo
<1> QED BY <1>4, <1>5, <1>6, <1>7 DEF IInv, Base

\* A call enters the driver where nobody is.  It is clean when no command given up
\* earlier can still reach a buffer.
LEMMA BeginIInv ==
    ASSUME IInv, Base', NEW t \in Task, NEW op \in Op, NEW lba \in Nat, NEW n \in Nat,
           NEW b \in Patterns, Begin(t, op, lba, n, b), InRange(lba, n),
           \A u \in Task : pc[u] = "out"
    PROVE  IInv'
<1>0. /\ NSectors \in Nat /\ Window \in Nat /\ NSectors > 0 /\ Window > 0
  BY AhciAssumption
<1>1. UNCHANGED <<disk, cache, devVars>>
  BY DEF Begin
<1>2. ClosedBySlot' /\ WindowExact'
  BY <1>1 DEF IInv, ClosedBySlot, WindowExact, devVars
<1>3. PICK fresh \in BOOLEAN : fresh = ~Abandoned
  OBVIOUS
<1> DEFINE cl == [op |-> op, lba |-> lba, count |-> n, done |-> 0, clean |-> fresh]
           p  == IF op = "write" THEN "invalidate"
                 ELSE IF n > Window THEN "slot"
                 ELSE IF Contains(lba, n) THEN "copy" ELSE "invalidate"
<1>4. call' = [call EXCEPT ![t] = cl] /\ pc' = [pc EXCEPT ![t] = p]
  BY <1>3 DEF Begin, Goto
<1>5. /\ p \in {"invalidate", "slot", "copy"}
      /\ p = "slot" => op = "read" /\ n > Window
  BY DEF Op
<1>6. /\ call'[t] = cl /\ pc'[t] = p /\ \A u \in Task \ {t} : pc'[u] = "out"
  BY <1>4 DEF IInv, Types
<1>7. ~Abandoned /\ ci => table.mem = Cache
  <2>1. ci => table.mem \in Task \cup {Cache}
    BY DEF IInv, TableOK, CommandOK, Command
  <2> QED BY <2>1 DEF Abandoned
<1>8. /\ call'[t].op = op /\ call'[t].lba = lba /\ call'[t].count = n /\ call'[t].done = 0
      /\ call'[t].clean <=> ~Abandoned
  <2>1. /\ call'[t].op = op /\ call'[t].lba = lba /\ call'[t].count = n /\ call'[t].done = 0
        /\ call'[t].clean = fresh
    BY <1>6
  <2> HIDE DEF cl
  <2>2. fresh <=> ~Abandoned
    BY <1>3, Zenon
  <2> QED BY <2>1, <2>2, Zenon
<1>9. Small(t)' <=> op = "read" /\ n <= Window
  BY <1>8 DEF Small
<1> HIDE DEF p, cl
<1>10. OneCaller'
  BY <1>6 DEF OneCaller
<1>11. ClosedByCall'
  BY <1>0, <1>5, <1>6, <1>8, <1>9 DEF ClosedByCall, WindowClosed
<1>12. Issued' /\ Polled' /\ Filled'
  BY <1>5, <1>6 DEF Issued, Polled, Filled
<1>13. Progress'
  BY <1>6, <1>8 DEF Progress, MovedTo
<1>14. CleanStart'
  BY <1>1, <1>6, <1>7, <1>8 DEF CleanStart, devVars
<1> QED BY <1>2, <1>10, <1>11, <1>12, <1>13, <1>14 DEF IInv, Base

\* The window is closed before the command that fills it and before any write.
LEMMA InvalidateIInv ==
    ASSUME IInv, Base', NEW t \in Task, Invalidate(t)
    PROVE  IInv'
<1>1. /\ pc[t] = "invalidate" /\ pc' = [pc EXCEPT ![t] = "slot"]
      /\ UNCHANGED <<disk, devVars, call, buf, result>>
      /\ \A u \in Task \ {t} : pc[u] = "out"
  BY OthersOut DEF Invalidate, Goto
<1>2. ~cache'.valid
  BY InvalidateBase DEF IInv, Base
<1>3. pc'[t] = "slot" /\ \A u \in Task \ {t} : pc'[u] = "out"
  BY <1>1 DEF IInv, Types
<1>4. ClosedByCall' /\ ClosedBySlot' /\ WindowExact'
  BY <1>2 DEF ClosedByCall, ClosedBySlot, WindowExact
<1>5. OneCaller' /\ Issued' /\ Polled' /\ Filled'
  BY <1>3 DEF OneCaller, Issued, Polled, Filled
<1>6. CleanStart'
  BY <1>1, <1>3 DEF IInv, CleanStart, devVars
<1>7. Progress'
  BY <1>1, <1>3 DEF IInv, Progress, CallOK, Small, MovedTo
<1> QED BY <1>4, <1>5, <1>6, <1>7 DEF IInv, Base

\* However callers have met before: one that is alone and closes the window while the
\* slot is idle leaves nothing of it behind.
LEMMA ResetIInv ==
    ASSUME Base, Base', NEW t \in Task, Invalidate(t), Alone(t), ~ci
    PROVE  IInv'
<1>1. /\ pc[t] = "invalidate" /\ pc' = [pc EXCEPT ![t] = "slot"]
      /\ UNCHANGED <<disk, devVars, call, buf, result>>
      /\ \A u \in Task \ {t} : pc[u] = "out"
  BY DEF Invalidate, Goto, Alone
<1>2. ~cache'.valid /\ ~ci'
  BY <1>1, InvalidateBase DEF devVars
<1>3. pc'[t] = "slot" /\ \A u \in Task \ {t} : pc'[u] = "out"
  BY <1>1 DEF Base, Types
<1>4. ClosedByCall' /\ ClosedBySlot' /\ WindowExact' /\ CleanStart'
  BY <1>2 DEF ClosedByCall, ClosedBySlot, WindowExact, CleanStart
<1>5. OneCaller' /\ Issued' /\ Polled' /\ Filled'
  BY <1>3 DEF OneCaller, Issued, Polled, Filled
<1>6. call'[t].done = 0
  BY <1>1 DEF Base, CallOK
<1>7. Progress'
  BY <1>3, <1>6 DEF Progress, MovedTo
<1> QED BY <1>4, <1>5, <1>7 DEF IInv, Base

\* The command is built only when slot 0 is not active.
LEMMA BuildIInv ==
    ASSUME IInv, Base', NEW t \in Task, BuildCommand(t)
    PROVE  IInv'
<1>0. pc[t] = "slot" /\ \A u \in Task \ {t} : pc[u] = "out"
  BY OthersOut DEF BuildCommand
<1>1. CASE Fails(t) /\ UNCHANGED <<disk, devVars, buf>>
  BY <1>0, <1>1, FailsIInv
<1>2. CASE SlotFree(t) /\ tfes' = FALSE /\ table' = Round(t) /\ Goto(t, "issue")
           /\ UNCHANGED <<cache, call, result, disk, ci, err, dev, buf>>
  <2>1. pc' = [pc EXCEPT ![t] = "issue"] /\ ~ci
    BY <1>2 DEF SlotFree, Goto
  <2>2. pc'[t] = "issue" /\ \A u \in Task \ {t} : pc'[u] = "out"
    BY <1>0, <2>1 DEF IInv, Types
  <2>3. WindowExact' /\ ClosedByCall' /\ ClosedBySlot'
    BY <1>0, <1>2, <2>1, <2>2 DEF IInv, WindowExact, ClosedByCall, ClosedBySlot, WindowClosed, Small
  <2>4. OneCaller' /\ Polled' /\ Filled' /\ CleanStart'
    BY <2>2 DEF OneCaller, Polled, Filled, CleanStart
  <2>5. Issued'
    <3>1. Round(t)' = Round(t)
      BY <1>2 DEF Round, Small, ReadAhead, Chunk
    <3> QED BY <1>2, <2>1, <2>2, <3>1 DEF Issued
  <2>6. Progress'
    BY <1>0, <1>2, <2>2 DEF IInv, Progress, Small, MovedTo
  <2> QED BY <2>3, <2>4, <2>5, <2>6 DEF IInv, Base
<1> QED BY <1>1, <1>2 DEF BuildCommand, devVars

\* The slot becomes active with the window closed, if the command can change what
\* the window shows.
LEMMA IssueIInv ==
    ASSUME IInv, Base', NEW t \in Task, IssueCommand(t)
    PROVE  IInv'
<1>1. /\ pc[t] = "issue" /\ pc' = [pc EXCEPT ![t] = "poll"] /\ ci' = TRUE
      /\ \A u \in Task \ {t} : pc[u] = "out"
      /\ UNCHANGED <<disk, cache, table, tfes, err, dev, call, buf, result>>
  BY OthersOut DEF IssueCommand, Goto
<1>2. pc'[t] = "poll" /\ \A u \in Task \ {t} : pc'[u] = "out"
  BY <1>1 DEF IInv, Types
<1>3. ~ci /\ table = Round(t) /\ dev = NULL
  BY <1>1 DEF IInv, Issued, DevOK
<1>4. (table.mem = Cache => Small(t)) /\ (table.op = "write" => call[t].op = "write")
  <2>1. Cache # t
    BY AhciAssumption DEF Task
  <2>2. Small(t) => Round(t).op # "write"
    BY DEF Round
  <2> QED BY <1>1, <1>3, <2>1, <2>2, RoundOK DEF IInv
<1>5. ClosedBySlot'
  BY <1>1, <1>4 DEF IInv, ClosedByCall, ClosedBySlot, WindowClosed
<1>6. WindowExact' /\ ClosedByCall'
  BY <1>1, <1>2 DEF IInv, WindowExact, ClosedByCall, WindowClosed, Small
<1>7. OneCaller' /\ Issued' /\ Filled' /\ CleanStart'
  BY <1>2 DEF OneCaller, Issued, Filled, CleanStart
<1>8. Polled'
  <2>1. Round(t)' = Round(t)
    BY <1>1 DEF Round, Small, ReadAhead, Chunk
  <2> QED BY <1>1, <1>2, <1>3, <2>1 DEF Polled
<1>9. Progress'
  BY <1>1, <1>2 DEF IInv, Progress, Small, MovedTo
<1> QED BY <1>5, <1>6, <1>7, <1>8, <1>9 DEF IInv, Base

\* The command whose end the poll saw has moved its sectors, and with the earlier
\* rounds that is what the call has done.
LEMMA DoneMoved ==
    ASSUME IInv, NEW t \in Task, pc[t] = "poll", EndedWell(t)
    PROVE  /\ Small(t) => \A i \in 0..(ReadAhead(t) - 1) : cache.data[i] = disk[call[t].lba + i]
           /\ ~Small(t) /\ call[t].clean => MovedTo(t, call[t].done + Chunk(t))
<1>0. ~ci /\ ~err /\ table = Round(t)
  BY DEF EndedWell, IInv, Polled
<1>1. \A i \in 0..(Round(t).n - 1) : Moved(Round(t), i)
  BY <1>0 DEF IInv, Polled
<1>2. /\ call[t].lba \in Nat /\ call[t].done \in Nat /\ Chunk(t) \in Nat /\ ReadAhead(t) \in Nat
      /\ Cache # t
  <2>1. call[t].lba \in Nat /\ call[t].done \in Nat
    BY AhciAssumption DEF IInv, Types, CallRecord, Sector
  <2>2. Window \in Nat /\ Cache # t
    BY AhciAssumption DEF Task
  <2> QED BY <2>1, <2>2, RoundOK DEF IInv
<1>3. ASSUME Small(t), NEW i \in 0..(ReadAhead(t) - 1)
      PROVE  cache.data[i] = disk[call[t].lba + i]
  <2>1. Round(t).mem = Cache /\ Round(t).lba = call[t].lba /\ Round(t).n = ReadAhead(t)
    BY <1>3, RoundOK DEF IInv
  <2>2. Moved(Round(t), i)
    BY <1>1, <2>1
  <2> QED BY <2>1, <2>2 DEF Moved
<1>4. ASSUME ~Small(t), call[t].clean, NEW s \in 0..((call[t].done + Chunk(t)) - 1)
      PROVE  buf[t][s] = disk[call[t].lba + s]
  <2>1. /\ Round(t).mem = t /\ Round(t).lba = call[t].lba + call[t].done
        /\ Round(t).off = call[t].done /\ Round(t).n = Chunk(t)
    BY <1>4, RoundOK DEF IInv
  <2>2. CASE s < call[t].done
    <3>1. s \in 0..(call[t].done - 1)
      BY <1>2, <2>2
    <3> QED BY <1>4, <3>1 DEF IInv, Progress, MovedTo
  <2>3. CASE ~(s < call[t].done)
    <3> DEFINE i == s - call[t].done
    <3>1. i \in 0..(Round(t).n - 1) /\ call[t].lba + call[t].done + i = call[t].lba + s
          /\ call[t].done + i = s
      BY <1>2, <2>1, <2>3
    <3>2. Moved(Round(t), i)
      BY <1>1, <3>1
    <3> HIDE DEF i
    <3> QED BY <1>2, <2>1, <3>1, <3>2 DEF Moved
  <2> QED BY <2>2, <2>3
<1> QED BY <1>3, <1>4 DEF MovedTo

\* One round of a call has ended well.
LEMMA DoneIInv ==
    ASSUME IInv, Base', NEW t \in Task, CommandDone(t)
    PROVE  IInv'
<1>1. /\ pc[t] = "poll" /\ EndedWell(t) /\ ~ci /\ UNCHANGED <<disk, cache, devVars, buf>>
      /\ \A u \in Task \ {t} : pc[u] = "out"
  BY OthersOut DEF CommandDone, EndedWell
<1>2. ClosedBySlot' /\ WindowExact'
  BY <1>1 DEF IInv, ClosedBySlot, WindowExact, devVars
<1>3. CASE Small(t)
  <2>1. pc' = [pc EXCEPT ![t] = "publish"] /\ UNCHANGED <<call, result>>
    BY <1>3 DEF CommandDone, Goto
  <2>2. pc'[t] = "publish" /\ \A u \in Task \ {t} : pc'[u] = "out"
    BY <1>1, <2>1 DEF IInv, Types
  <2>3. OneCaller' /\ ClosedByCall'
    BY <1>1, <1>3, <2>1, <2>2 DEF IInv, OneCaller, ClosedByCall, WindowClosed, Small
  <2>4. Filled'
    BY <1>1, <1>3, <2>1, <2>2, DoneMoved DEF Filled, ReadAhead, devVars
  <2>5. Issued' /\ Polled' /\ Progress' /\ CleanStart'
    BY <2>2 DEF Issued, Polled, Progress, CleanStart
  <2> QED BY <1>2, <2>3, <2>4, <2>5 DEF IInv, Base
<1>4. CASE ~Small(t) /\ call[t].done + Chunk(t) < call[t].count
  <2>1. Round(t).n = Chunk(t) /\ Chunk(t) \in 1..Window
    BY <1>1, <1>4, RoundOK DEF IInv
  <2>2. /\ call' = [call EXCEPT ![t].done = call[t].done + Chunk(t)]
        /\ pc' = [pc EXCEPT ![t] = "slot"]
    BY <1>4, <2>1 DEF CommandDone, Goto
  <2>3. pc'[t] = "slot" /\ \A u \in Task \ {t} : pc'[u] = "out"
    BY <1>1, <2>2 DEF IInv, Types
  <2>4. call[t] \in CallRecord /\ call'[t] = [call[t] EXCEPT !.done = call[t].done + Chunk(t)]
    BY <2>2 DEF IInv, Types
  <2>5. /\ call'[t].op = call[t].op /\ call'[t].lba = call[t].lba
        /\ call'[t].count = call[t].count
        /\ call'[t].done = call[t].done + Chunk(t)
    BY <2>4 DEF CallRecord
  <2>6. call'[t].clean = call[t].clean
    BY <2>4 DEF CallRecord
  <2>7. ~Small(t)'
    BY <1>4, <2>5 DEF Small
  <2>8. OneCaller' /\ Issued' /\ Polled' /\ Filled'
    BY <2>3 DEF OneCaller, Issued, Polled, Filled
  <2>9. ClosedByCall'
    BY <1>1, <2>3, <2>5, <2>7 DEF IInv, ClosedByCall, WindowClosed
  <2>10. CleanStart'
    BY <1>1, <2>3 DEF CleanStart, devVars
  <2>11. Progress'
    <3> SUFFICES ASSUME call'[t].clean PROVE MovedTo(t, call[t].done)'
      BY <2>3 DEF Progress
    <3>1. call[t].clean
      BY <2>6, Zenon
    <3>2. PICK d : d = call[t].done + Chunk(t)
      OBVIOUS
    <3>3. MovedTo(t, d)
      BY <1>1, <1>4, <3>1, <3>2, DoneMoved
    <3>4. call'[t].done = d /\ call'[t].lba = call[t].lba /\ buf' = buf /\ disk' = disk
      BY <1>1, <2>5, <3>2
    <3> QED BY <3>3, <3>4 DEF MovedTo
  <2> QED BY <1>2, <2>8, <2>9, <2>10, <2>11 DEF IInv, Base
<1>5. CASE ~Small(t) /\ ~(call[t].done + Chunk(t) < call[t].count)
  <2>1. Round(t).n = Chunk(t)
    BY <1>1, <1>5, RoundOK DEF IInv
  <2>2. Return(t, "ok")
    BY <1>5, <2>1 DEF CommandDone
  <2>3. \A u \in Task : pc'[u] = "out"
    BY <1>1, <2>2 DEF Return, Goto, IInv, Types
  <2>4. TaskInv'
    BY <2>3, AllOut
  <2> QED BY <1>2, <2>4 DEF IInv, Base, TaskInv
<1> QED BY <1>3, <1>4, <1>5

\* The window is opened on what the command that has just ended read.
LEMMA PublishIInv ==
    ASSUME IInv, Base', NEW t \in Task, PublishCache(t)
    PROVE  IInv'
<1>1. /\ pc[t] = "publish" /\ pc' = [pc EXCEPT ![t] = "copy"]
      /\ UNCHANGED <<disk, devVars, call, buf, result>>
      /\ \A u \in Task \ {t} : pc[u] = "out"
  BY OthersOut DEF PublishCache, Goto
<1>2. pc'[t] = "copy" /\ \A u \in Task \ {t} : pc'[u] = "out"
  BY <1>1 DEF IInv, Types
<1>3. ~ci /\ \A i \in 0..(ReadAhead(t) - 1) : cache.data[i] = disk[call[t].lba + i]
  BY <1>1 DEF IInv, Filled
<1>4. call[t].lba + ReadAhead(t) <= NSectors
  BY <1>1, RoundOK DEF IInv
<1>5. cache'.data = cache.data /\ cache'.lba = call[t].lba /\ cache'.count = ReadAhead(t)
  BY PublishBase DEF IInv, Base
<1>6. ClosedBySlot'
  BY <1>1, <1>3 DEF ClosedBySlot, devVars
<1>7. WindowExact'
  BY <1>1, <1>3, <1>4, <1>5 DEF WindowExact
<1>8. OneCaller' /\ ClosedByCall' /\ Issued' /\ Polled' /\ Filled' /\ Progress' /\ CleanStart'
  BY <1>2 DEF OneCaller, ClosedByCall, Issued, Polled, Filled, Progress, CleanStart
<1> QED BY <1>6, <1>7, <1>8 DEF IInv, Base

\* What is copied out of the window is what the disk holds.
LEMMA CopyMoved ==
    ASSUME IInv, NEW t \in Task, pc[t] = "copy", Contains(call[t].lba, call[t].count),
           NEW s \in 0..(call[t].count - 1)
    PROVE  cache.data[call[t].lba - cache.lba + s] = disk[call[t].lba + s]
<1>1. /\ call[t].lba - cache.lba + s \in 0..(cache.count - 1)
      /\ cache.lba + (call[t].lba - cache.lba + s) = call[t].lba + s
  BY CopyInside DEF IInv, Base
<1>2. cache.data[call[t].lba - cache.lba + s] = disk[cache.lba + (call[t].lba - cache.lba + s)]
  BY <1>1 DEF IInv, WindowExact, Contains
<1> QED BY <1>1, <1>2

\* The copy out of the window ends the call.
LEMMA CopyIInv ==
    ASSUME IInv, Base', NEW t \in Task, CopyOut(t)
    PROVE  IInv'
<1>1. /\ pc[t] = "copy" /\ UNCHANGED <<disk, cache, devVars>>
      /\ Return(t, "ok") \/ Return(t, "fail")
  BY DEF CopyOut
<1>2. \A u \in Task : pc'[u] = "out"
  BY <1>1, OthersOut, SMTT(30) DEF Return, Goto, IInv, Types
<1>3. TaskInv'
  BY <1>2, AllOut
<1>4. ClosedBySlot' /\ WindowExact'
  BY <1>1 DEF IInv, ClosedBySlot, WindowExact, devVars
<1> QED BY <1>3, <1>4 DEF IInv, Base, TaskInv

-----------------------------------------------------------------------------
(* The device, when nobody preempts another one                            *)

\* The device fetches the command.
LEMMA FetchIInv ==
    ASSUME IInv, Base', DevFetch
    PROVE  IInv'
<1>1. /\ ci /\ dev' = [cmd |-> table, pos |-> 0]
      /\ UNCHANGED <<disk, cache, table, ci, tfes, err, pc, call, result, buf>>
  BY DEF DevFetch, taskVars
<1>2. Polled'
  <2>1. dev'.pos = 0
    BY <1>1
  <2> QED BY <1>1, <2>1 DEF IInv, Polled, Round, Small, ReadAhead, Chunk
<1>3. OneCaller' /\ ClosedByCall' /\ ClosedBySlot' /\ WindowExact'
  BY <1>1 DEF IInv, OneCaller, ClosedByCall, ClosedBySlot, WindowExact, Small, WindowClosed
<1>4. Issued' /\ Filled'
  BY <1>1 DEF IInv, Issued, Filled
<1>5. Progress' /\ CleanStart'
  BY <1>1 DEF IInv, Progress, CleanStart, Small, MovedTo
<1> QED BY <1>2, <1>3, <1>4, <1>5 DEF IInv, Base

\* A command ends, well only when every sector has been moved.
LEMMA EndIInv ==
    ASSUME IInv, Base', DevEnd
    PROVE  IInv'
<1>1. /\ dev # NULL /\ dev' = NULL
      /\ UNCHANGED <<disk, cache, table, pc, call, result, buf>>
      /\ ~ci' /\ ~err' => dev.pos = dev.cmd.n
  BY DEF DevEnd, taskVars, IInv, Types
<1>2. ci /\ dev.cmd = table
  BY <1>1 DEF IInv, DevOK
<1>3. OneCaller' /\ ClosedByCall' /\ WindowExact'
  BY <1>1 DEF IInv, OneCaller, ClosedByCall, WindowExact, Small, WindowClosed
<1>4. ClosedBySlot'
  BY <1>1, <1>2 DEF IInv, ClosedBySlot
<1>5. Polled'
  <2> SUFFICES ASSUME NEW t \in Task, pc[t] = "poll"
               PROVE  table = Round(t) /\ (~ci' /\ ~err' => \A i \in 0..(table.n - 1) : Moved(table, i))
    BY <1>1 DEF Polled, Round, Small, ReadAhead, Chunk, Moved
  <2> QED BY <1>1, <1>2 DEF IInv, Polled
<1>6. Issued' /\ Filled'
  BY <1>1, <1>2 DEF IInv, Issued, Filled
<1>7. Progress'
  BY <1>1 DEF IInv, Progress, Small, MovedTo
<1>8. CleanStart'
  BY <1>1, <1>2 DEF IInv, CleanStart
<1> QED BY <1>3, <1>4, <1>5, <1>6, <1>7, <1>8 DEF IInv, Base

\* The device moves one sector: into the window only while it is closed, and never
\* over what earlier rounds of a clean call have moved.
LEMMA TransferIInv ==
    ASSUME IInv, Base', DevTransfer
    PROVE  IInv'
<1> DEFINE m == table
           i == dev.pos
<1>0. /\ ci /\ dev # NULL /\ CommandOK(m) /\ i \in 0..(m.n - 1)
      /\ dev' = [cmd |-> m, pos |-> i + 1]
      /\ UNCHANGED <<table, ci, tfes, err, pc, call, result, overlapped>>
      /\ \/ /\ m.op = "write" /\ m.mem \in Task /\ UNCHANGED <<cache, buf>>
            /\ disk' = [disk EXCEPT ![m.lba + i] = buf[m.mem][m.off + i]]
         \/ /\ m.op = "read" /\ m.mem = Cache /\ UNCHANGED <<disk, buf>>
            /\ cache' = [cache EXCEPT !.data[i] = disk[m.lba + i]]
         \/ /\ m.op = "read" /\ m.mem \in Task /\ UNCHANGED <<disk, cache>>
            /\ buf' = [buf EXCEPT ![m.mem][m.off + i] = disk[m.lba + i]]
  BY TransferEffect DEF IInv, Base
<1>1. /\ NSectors \in Nat /\ Window \in Nat /\ m.lba \in Nat /\ m.off \in Nat /\ m.n \in Nat
      /\ i \in Nat /\ m.n <= Window /\ Cache \notin Task
      /\ m.lba + m.n <= NSectors /\ m.off + m.n <= NSectors
  BY <1>0, AhciAssumption DEF CommandOK, Command, Sector, Task
<1>2. m.lba + i \in Sector /\ m.off + i \in Sector /\ i \in Slot
  BY <1>0, <1>1 DEF Sector, Slot
<1>3. Base
  BY DEF IInv, Base
<1>4. /\ disk' \in [Sector -> Value]
      /\ \A s \in Sector : disk'[s] # disk[s] => m.op = "write" /\ m.mem \in Task /\ s = m.lba + i
      /\ m.op = "write" => disk'[m.lba + i] = buf[m.mem][m.off + i]
  BY <1>3, TransferPoints
<1>5. /\ cache' \in CacheRecord /\ cache'.lba = cache.lba /\ cache'.count = cache.count
      /\ cache'.valid = cache.valid
      /\ \A j \in Slot : cache'.data[j] # cache.data[j] => m.op = "read" /\ m.mem = Cache /\ j = i
      /\ m.mem = Cache => m.op = "read" /\ cache'.data[i] = disk[m.lba + i]
  BY <1>3, TransferPoints
<1>6. /\ buf' \in [Task -> [Sector -> Value]]
      /\ \A t \in Task : \A s \in Sector :
            buf'[t][s] # buf[t][s] => m.op = "read" /\ m.mem = t /\ s = m.off + i
      /\ m.op = "read" /\ m.mem \in Task => buf'[m.mem][m.off + i] = disk[m.lba + i]
  BY <1>3, TransferPoints
<1> HIDE DEF m, i
<1>10. OneCaller' /\ Issued' /\ CleanStart'
  BY <1>0 DEF IInv, OneCaller, Issued, CleanStart, Small, Round, ReadAhead, Chunk
<1>11. ClosedByCall' /\ ClosedBySlot'
  BY <1>0, <1>5 DEF IInv, ClosedByCall, ClosedBySlot, WindowClosed, Small
<1>12. WindowExact'
  <2> SUFFICES ASSUME cache'.valid
               PROVE  /\ cache'.lba + cache'.count <= NSectors
                      /\ \A j \in 0..(cache'.count - 1) : cache'.data[j] = disk'[cache'.lba + j]
    BY DEF WindowExact
  <2>1. cache.valid
    BY <1>5, Zenon
  <2>2. m.mem # Cache /\ m.op # "write"
    BY <1>0, <2>1 DEF IInv, ClosedBySlot, m
  <2>3. disk' = disk /\ cache' = cache
    BY <1>0, <2>2
  <2> QED BY <2>1, <2>3 DEF IInv, WindowExact
<1>13. Polled'
  <2>0. dev'.pos - 1 = i /\ ci' /\ table' = m /\ \A t \in Task : Round(t)' = Round(t)
    BY <1>0, <1>1 DEF m, Round, Small, ReadAhead, Chunk
  <2> SUFFICES ASSUME NEW t \in Task, pc[t] = "poll"
               PROVE  m = Round(t) /\ \A j \in 0..i : Moved(m, j)'
    BY <1>0, <2>0 DEF Polled, m
  <2>1. m = Round(t) /\ \A j \in 0..(i - 1) : Moved(m, j)
    BY <1>0 DEF IInv, Polled, m, i
  <2>2. ASSUME NEW j \in 0..i PROVE Moved(m, j)'
    <3>1. m.lba + j \in Sector /\ m.off + j \in Sector /\ j \in Slot /\ m' = m
      BY <1>0, <1>1 DEF Sector, Slot, m
    <3>2. CASE j = i
      BY <1>0, <1>1, <1>4, <1>5, <1>6, <3>1, <3>2 DEF Moved
    <3>3. CASE j # i
      <4>1. Moved(m, j)
        BY <1>1, <2>1, <3>3
      <4>2. m.lba + j # m.lba + i /\ m.off + j # m.off + i
        BY <1>1, <3>3
      <4>3. disk'[m.lba + j] = disk[m.lba + j] /\ cache'.data[j] = cache.data[j]
        BY <1>4, <1>5, <3>1, <3>3, <4>2
      <4>4. m.mem \in Task => buf'[m.mem][m.off + j] = buf[m.mem][m.off + j]
        BY <1>6, <3>1, <4>2
      <4>5. m.mem \in Task \/ m.mem = Cache
        BY <1>0
      <4> QED BY <3>1, <4>1, <4>3, <4>4, <4>5 DEF Moved
    <3> QED BY <3>2, <3>3
  <2> QED BY <2>1, <2>2
<1>14. Filled'
  BY <1>0 DEF IInv, Filled
<1>15. Progress'
  <2> SUFFICES ASSUME NEW t \in Task, pc[t] \in {"slot", "issue", "poll"}, ~Small(t),
                      call[t].clean, NEW s \in 0..(call[t].done - 1)
               PROVE  buf'[t][s] = disk'[call[t].lba + s]
    BY <1>0 DEF Progress, Small, MovedTo
  <2>1. buf[t][s] = disk[call[t].lba + s]
    BY DEF IInv, Progress, MovedTo
  <2>2. /\ call[t].lba \in Nat /\ call[t].count \in Nat /\ call[t].done \in Nat
        /\ call[t].lba + call[t].count <= NSectors /\ call[t].done < call[t].count
    BY AhciAssumption DEF IInv, Types, CallRecord, CallOK, Sector
  <2>3. s \in Sector /\ call[t].lba + s \in Sector
    BY <1>1, <2>2 DEF Sector
  <2>4. CASE pc[t] = "slot"
    <3>1. m.mem = Cache
      BY <1>0, <2>4 DEF IInv, CleanStart, m
    <3>2. UNCHANGED <<disk, buf>>
      BY <1>0, <1>1, <3>1
    <3> QED BY <2>1, <3>2
  <2>5. CASE pc[t] = "issue"
    BY <1>0, <2>5 DEF IInv, Issued
  <2>6. CASE pc[t] = "poll"
    <3>1. m.lba = call[t].lba + call[t].done /\ m.off = call[t].done
      BY <2>6, RoundOK DEF IInv, Polled, m
    <3>2. call[t].lba + s # m.lba + i /\ s # m.off + i
      BY <1>1, <2>2, <3>1
    <3>3. disk'[call[t].lba + s] = disk[call[t].lba + s] /\ buf'[t][s] = buf[t][s]
      BY <1>4, <1>6, <2>3, <3>2
    <3> QED BY <2>1, <3>3
  <2> QED BY <2>4, <2>5, <2>6
<1> QED BY <1>10, <1>11, <1>12, <1>13, <1>14, <1>15 DEF IInv, Base

-----------------------------------------------------------------------------
(* The theorems                                                            *)

\* A step that changes nothing.
LEMMA StutterHInv ==
    ASSUME HInv, UNCHANGED vars
    PROVE  HInv'
<1>1. UNCHANGED <<disk, cache, table, ci, tfes, err, dev, pc, call, buf, result, overlapped>>
  BY DEF vars
<1>2. Types' /\ TableOK' /\ IssueOK' /\ DevOK' /\ CallOK'
  BY <1>1 DEF HInv, Base, Types, TableOK, IssueOK, DevOK, CallOK, CommandOK, Small
<1>3. ASSUME IInv PROVE IInv'
  <2>1. OneCaller' /\ ClosedByCall' /\ ClosedBySlot' /\ WindowExact'
    BY <1>1, <1>3 DEF IInv, OneCaller, ClosedByCall, ClosedBySlot, WindowExact, Small,
                      WindowClosed
  <2>2. \A t \in Task : /\ Round(t)' = Round(t) /\ ReadAhead(t)' = ReadAhead(t)
                        /\ Small(t)' <=> Small(t)
    BY <1>1 DEF Round, Small, ReadAhead, Chunk
  <2>3. Issued' /\ Filled'
    BY <1>1, <1>3, <2>2 DEF IInv, Issued, Filled
  <2>4. Polled'
    BY <1>1, <1>3, <2>2 DEF IInv, Polled, Moved
  <2>5. Progress' /\ CleanStart'
    BY <1>1, <1>3, <2>2 DEF IInv, Progress, CleanStart, MovedTo
  <2> QED BY <1>2, <2>1, <2>3, <2>4, <2>5 DEF IInv
<1> QED BY <1>1, <1>2, <1>3 DEF HInv, Base

\* A call may meet another one only where it enters the driver; the meeting is over where
\* a caller that is alone closes the window over an idle slot.
LEMMA NextHInv == HInv /\ [Next]_vars => HInv'
<1> SUFFICES ASSUME HInv, Next PROVE HInv'
  BY StutterHInv
<1>0. Base
  BY DEF HInv
<1>1. CASE DevFetch \/ DevTransfer \/ DevEnd
  <2>1. Base' /\ overlapped' = overlapped
    BY <1>0, <1>1, FetchBase, TransferBase, EndBase DEF DevFetch, DevTransfer, DevEnd, taskVars
  <2>2. IInv => IInv'
    BY <1>1, <2>1, FetchIInv, TransferIInv, EndIInv
  <2> QED BY <2>1, <2>2 DEF HInv
<1>2. ASSUME NEW r \in Requests, NEW b \in Patterns, Begin(r[1], r[2], r[3], r[4], b)
      PROVE  HInv'
  <2>1. r[1] \in Task /\ r[2] \in Op /\ r[3] \in Nat /\ r[4] \in Nat
    BY AhciAssumption DEF Task, Op
  <2>2. Base'
    BY <1>0, <1>2, <2>1, BeginBase
  <2>3. CASE InRange(r[3], r[4])
    <3>1. ASSUME ~overlapped' PROVE IInv'
      <4>1. IInv /\ \A u \in Task : pc[u] = "out"
        BY <1>2, <2>3, <3>1 DEF Begin, Alone, HInv
      <4> QED BY <1>2, <2>1, <2>2, <2>3, <4>1, BeginIInv
    <3> QED BY <2>2, <3>1 DEF HInv
  <2>4. CASE ~InRange(r[3], r[4])
    <3>1. /\ pc[r[1]] = "out" /\ Return(r[1], "fail") /\ UNCHANGED <<disk, cache, devVars, buf>>
          /\ ~overlapped' => ~overlapped
      BY <1>2, <2>4 DEF Begin
    <3>2. IInv => IInv'
      BY <2>1, <2>2, <3>1, RejectIInv
    <3> QED BY <2>2, <3>1, <3>2 DEF HInv
  <2> QED BY <2>3, <2>4
<1>3. ASSUME NEW t \in Task, Invalidate(t) PROVE HInv'
  <2>1. Base'
    BY <1>0, <1>3, InvalidateBase
  <2>2. ASSUME ~overlapped' PROVE IInv'
    <3>1. ~overlapped \/ (Alone(t) /\ ~ci)
      BY <1>3, <2>2 DEF Invalidate
    <3>2. CASE ~overlapped
      BY <1>3, <2>1, <3>2, InvalidateIInv DEF HInv
    <3>3. CASE Alone(t) /\ ~ci
      BY <1>0, <1>3, <2>1, <3>3, ResetIInv
    <3> QED BY <3>1, <3>2, <3>3
  <2> QED BY <2>1, <2>2 DEF HInv
<1>4. ASSUME NEW t \in Task, CommandFailed(t) \/ PollTimeout(t) PROVE HInv'
  <2>1. /\ pc[t] # "out" /\ Fails(t) /\ UNCHANGED <<disk, devVars, buf>>
        /\ UNCHANGED <<disk, devVars, buf, overlapped>> /\ overlapped' = overlapped
    BY <1>4 DEF CommandFailed, PollTimeout
  <2>2. Base'
    BY <1>0, <2>1, FailsBase
  <2> QED BY <2>1, <2>2, FailsIInv DEF HInv
<1>5. ASSUME NEW t \in Task,
             BuildCommand(t) \/ IssueCommand(t) \/ CommandDone(t) \/ PublishCache(t) \/ CopyOut(t)
      PROVE  HInv'
  <2>1. Base'
    BY <1>0, <1>5, BuildBase, IssueBase, DoneBase, PublishBase, CopyBase
  <2>2. overlapped' = overlapped
    BY <1>5 DEF BuildCommand, IssueCommand, CommandDone, PublishCache, CopyOut
  <2>3. IInv => IInv'
    BY <1>5, <2>1, BuildIInv, IssueIInv, DoneIInv, PublishIInv, CopyIInv
  <2> QED BY <2>1, <2>2, <2>3 DEF HInv
<1> QED BY <1>1, <1>2, <1>3, <1>4, <1>5 DEF Next, Step

\* The invariant holds in every reachable state.
LEMMA SpecHInv == Spec => []HInv
  BY InitIInv, NextHInv, PTL DEF Spec

\* For any disk, window, requests and callers, whatever the device does: no command
\* reaches beyond the disk; and while the read-ahead window is valid it holds what the
\* disk holds, also when commands have failed half way or were given up and end late,
\* unless callers have met and none has been alone with an idle slot since.
THEOREM WindowCoherent == Spec => []CacheCoherent
<1>1. HInv => CacheCoherent
  <2> SUFFICES ASSUME HInv PROVE CacheCoherent
    OBVIOUS
  <2>1. /\ cache.data \in [Slot -> Value] /\ cache.valid \in BOOLEAN
        /\ cache.lba \in Sector /\ cache.count \in 0..Window
    BY DEF HInv, Base, Types, CacheRecord
  <2>2. table # NULL => table \in Command /\ table.lba + table.n <= NSectors
    BY DEF HInv, Base, TableOK, CommandOK
  <2>3. dev # NULL => dev.cmd \in Command /\ dev.pos \in 0..dev.cmd.n
    BY DEF HInv, Base, DevOK, TableOK, CommandOK
  <2>4. {ci, tfes, err} \subseteq BOOLEAN /\ overlapped \in BOOLEAN
    BY DEF HInv, Base, Types
  <2>5. TypeOK
    BY <2>1, <2>2, <2>3, <2>4 DEF TypeOK, HInv, Base, Types
  <2> QED BY <2>5 DEF CacheCoherent, Coherent, HInv, IInv, WindowExact
<1> QED BY <1>1, SpecHInv, PTL

\* A step on which a call leaves the driver with 0 leaves the whole range moved.
LEMMA ReturnsMoved ==
    ASSUME IInv, Next, NEW t \in Task, pc[t] # "out", pc'[t] = "out",
           result' = "ok", call[t].clean, NEW s \in 0..(call[t].count - 1)
    PROVE  buf'[t][s] = disk'[call[t].lba + s]
<1>0. /\ pc \in [Task -> {"out", "invalidate", "slot", "issue", "poll", "publish", "copy"}]
      /\ result \in {"none", "ok", "fail"}
      /\ buf \in [Task -> [Sector -> Value]]
      /\ call[t].count \in Nat /\ call[t].count <= NSectors /\ NSectors \in Nat
  BY AhciAssumption DEF IInv, Types, CallRecord
<1>1. ~(DevFetch \/ DevTransfer \/ DevEnd)
  BY DEF DevFetch, DevTransfer, DevEnd, taskVars
<1>2. PICK u \in Task : (\E op, lba, n, b : Begin(u, op, lba, n, b)) \/ Step(u)
  <2>1. \A r \in Requests : r[1] \in Task
    BY AhciAssumption DEF Task
  <2> QED BY <1>1, <2>1 DEF Next
<1>3. ASSUME NEW r, Return(u, r) PROVE u = t /\ r = "ok"
  BY <1>0, <1>3 DEF Return, Goto
<1>4. u = t
  <2>1. ASSUME u # t, NEW p, Goto(u, p) PROVE FALSE
    BY <1>0, <2>1 DEF Goto
  <2> QED BY <1>2, <2>1
          DEF Step, Begin, Return, Fails, Invalidate, BuildCommand, IssueCommand, CommandDone,
              CommandFailed, PollTimeout, PublishCache, CopyOut
<1>5. CommandDone(t) \/ CopyOut(t)
  <2>1. ASSUME Fails(t) PROVE FALSE
    BY <1>3, <1>4, <2>1 DEF Fails
  <2>2. ASSUME NEW p, Goto(t, p) PROVE p = "out"
    BY <1>0, <2>2 DEF Goto
  <2>3. \A op, lba, n, b : ~Begin(t, op, lba, n, b)
    BY DEF Begin
  <2> QED BY <1>2, <1>4, <2>1, <2>2, <2>3
          DEF Step, Invalidate, BuildCommand, IssueCommand, CommandFailed, PollTimeout,
              PublishCache
<1>6. CASE CommandDone(t)
  <2>1. /\ pc[t] = "poll" /\ EndedWell(t) /\ UNCHANGED <<disk, buf>>
        /\ ~Small(t) /\ ~(call[t].done + Round(t).n < call[t].count)
    BY <1>0, <1>6 DEF CommandDone, Goto
  <2>2. call[t].done + Chunk(t) = call[t].count
    BY <2>1, RoundOK DEF IInv
  <2>3. MovedTo(t, call[t].count)
    BY <2>1, <2>2, DoneMoved
  <2> QED BY <2>1, <2>3 DEF MovedTo
<1>7. CASE CopyOut(t)
  <2>1. CASE Contains(call[t].lba, call[t].count)
    <3>1. /\ pc[t] = "copy" /\ disk' = disk
          /\ buf' = [buf EXCEPT ![t] = [x \in Sector |->
                        IF x < call[t].count THEN cache.data[call[t].lba - cache.lba + x] ELSE @[x]]]
      BY <1>7, <2>1 DEF CopyOut
    <3>2. s \in Sector /\ s < call[t].count
      BY <1>0 DEF Sector
    <3>3. buf'[t][s] = cache.data[call[t].lba - cache.lba + s]
      BY <1>0, <3>1, <3>2
    <3>4. cache.data[call[t].lba - cache.lba + s] = disk[call[t].lba + s]
      BY <2>1, <3>1, CopyMoved
    <3> QED BY <3>1, <3>3, <3>4
  <2>2. CASE ~Contains(call[t].lba, call[t].count)
    <3>1. Return(t, "fail")
      BY <1>7, <2>2 DEF CopyOut
    <3> QED BY <1>3, <1>4, <3>1
  <2> QED BY <2>1, <2>2
<1> QED BY <1>5, <1>6, <1>7

\* For any disk, window, requests and callers, whatever the device does: a clean call that
\* returns 0 has moved every sector of its range, unless callers have met and none has
\* been alone with an idle slot since.
THEOREM CompletedMoved == Spec => CompletedExact
<1>1. HInv /\ [Next]_vars =>
        [\A t \in Task :
          ~overlapped /\ pc[t] # "out" /\ pc'[t] = "out" /\ result' = "ok" /\ call[t].clean =>
            \A s \in 0..(call[t].count - 1) : buf'[t][s] = disk'[call[t].lba + s]]_vars
  BY ReturnsMoved DEF HInv
<1> QED BY <1>1, SpecHInv, PTL DEF Spec, CompletedExact

=============================================================================
