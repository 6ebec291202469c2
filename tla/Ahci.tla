-------------------------------- MODULE Ahci --------------------------------
(***************************************************************************)
(* The disk driver: device/ahci.c behind fs/block_device.c.                *)
(*                                                                         *)
(* The driver has one command slot with one command table, polls for the   *)
(* end of the command and gives up after a while, which does not stop the  *)
(* device.  Small reads go through a window of sectors that are read       *)
(* ahead.  There is no lock.  A system call runs with interrupts off, but  *)
(* a kernel task, like the one that starts programs from the desktop, can  *)
(* be preempted between any two steps, and another caller enters: that is  *)
(* remembered in overlapped until a caller that is alone, with the slot    *)
(* idle, closes the window.  The device fetches the command table when the *)
(* slot is issued and moves sector by sector, until it is done or reports  *)
(* an error.                                                               *)
(***************************************************************************)
EXTENDS Integers, Sequences, FiniteSets

CONSTANTS
    KernelTask, UserTask,
    NSectors,     \* device->sector_count
    Window,       \* AHCI_MAX_SECTORS_PER_COMMAND = AHCI_READ_CACHE_SECTORS
    Value,        \* contents of a sector
    Patterns,     \* what callers write: contents for a buffer of NSectors
    Requests,     \* the <<task, operation, lba, count>> they ask for
    Cache, NULL

ASSUME AhciAssumption ==
    /\ NSectors \in Nat \ {0} /\ Window \in Nat \ {0}
    /\ Patterns # {} /\ Patterns \subseteq [0..(NSectors - 1) -> Value]
    /\ Requests \subseteq (KernelTask \cup UserTask) \X {"read", "write"} \X Nat \X Nat
    /\ Cache \notin KernelTask \cup UserTask

Task   == KernelTask \cup UserTask
Sector == 0..(NSectors - 1)
Slot   == 0..(Window - 1)
Op     == {"read", "write"}
\* A command: sectors lba .. lba + n - 1, from or to the memory at offset off of
\* the read-ahead window or of a caller's buffer.
Command == [op : Op, lba : Sector, n : 1..Window, mem : Task \cup {Cache}, off : Sector]
Before == CHOOSE b \in Patterns : TRUE   \* what is in a buffer to read into
Erased == CHOOSE d \in [Slot -> Value] : TRUE   \* what is in the window at first
NoCall == [op |-> "read", lba |-> 0, count |-> 0, done |-> 0, clean |-> TRUE]

VARIABLES
    disk,     \* what the sectors hold
    cache,    \* [data, lba, count, valid]: ahci_read_cache*
    table,    \* the command table and header, or NULL
    ci,       \* bit 0 of PxCI
    tfes,     \* PxIS.TFES: the engine has stopped on an error
    err,      \* ERR in PxTFD after the last command
    dev,      \* the command the device works on and how far it is, or NULL
    pc,       \* where a task is in the driver
    call,     \* its arguments, the sectors done, and clean (see CompletedExact)
    buf,      \* its buffer
    result,   \* what the last call returned
    overlapped \* history: callers have met, and the driver was not alone again since

vars == <<disk, cache, table, ci, tfes, err, dev, pc, call, buf, result, overlapped>>
devVars == <<table, ci, tfes, err, dev>>

Init ==
    /\ disk \in Patterns
    /\ cache = [data |-> Erased, lba |-> 0, count |-> 0, valid |-> FALSE]
    /\ table = NULL /\ ci = FALSE /\ tfes = FALSE /\ err = FALSE /\ dev = NULL
    /\ pc = [t \in Task |-> "out"] /\ call = [t \in Task |-> NoCall]
    /\ buf = [t \in Task |-> Before]
    /\ result = "none"
    /\ overlapped = FALSE

\* A system call is not interrupted.
MayRun(t) == \A u \in UserTask \ {t} : pc[u] = "out"
Alone(t) == \A u \in Task \ {t} : pc[u] = "out"

Small(t) == call[t].op = "read" /\ call[t].count <= Window
Least(a, b) == IF a < b THEN a ELSE b

\* ahci_read_cache_contains
Contains(lba, n) ==
    /\ cache.valid
    /\ lba >= cache.lba /\ lba - cache.lba < cache.count
    /\ n <= cache.count - (lba - cache.lba)

\* The tests of block_read, block_write and their drivers.
InRange(lba, n) == n # 0 /\ lba < NSectors /\ n <= NSectors - lba

\* A command that was given up and can still write into a caller's buffer.
Abandoned == ci /\ table.mem # Cache /\ pc[table.mem] # "poll"

Goto(t, p) == pc' = [pc EXCEPT ![t] = p]
Return(t, r) == /\ Goto(t, "out") /\ result' = r
                /\ call' = [call EXCEPT ![t] = NoCall]

-----------------------------------------------------------------------------
\* block_read and block_write up to the first access to the hardware.  A large
\* read bypasses the window.
Begin(t, op, lba, n, b) ==
    /\ MayRun(t) /\ pc[t] = "out"
    /\ IF ~InRange(lba, n)
         THEN Return(t, "fail") /\ UNCHANGED buf
         ELSE /\ call' = [call EXCEPT ![t] = [op |-> op, lba |-> lba, count |-> n,
                                              done |-> 0, clean |-> ~Abandoned]]
              /\ buf' = [buf EXCEPT ![t] = IF op = "write" THEN b ELSE Before]
              /\ UNCHANGED result
              /\ Goto(t, IF op = "write" THEN "invalidate"
                         ELSE IF n > Window THEN "slot"
                         ELSE IF Contains(lba, n) THEN "copy" ELSE "invalidate")
    /\ overlapped' = (overlapped \/ (InRange(lba, n) /\ ~Alone(t)))
    /\ UNCHANGED <<disk, cache, devVars>>

\* The window is invalid before a command that fills it and before any write.
KeepOnWrite(t) == IF call[t].op = "write" THEN cache
                  ELSE [cache EXCEPT !.valid = FALSE, !.count = 0]
Invalidated(t) == [cache EXCEPT !.valid = FALSE, !.count = 0]
Invalidate(t) ==
    /\ MayRun(t) /\ pc[t] = "invalidate"
    /\ cache' = Invalidated(t)
    /\ Goto(t, "slot")
    /\ overlapped' = (overlapped /\ ~(Alone(t) /\ ~ci))
    /\ UNCHANGED <<disk, devVars, call, buf, result>>

\* ahci_read_dma or ahci_write_dma returns false.
Fails(t) ==
    /\ cache' = IF call[t].op = "write" THEN [cache EXCEPT !.valid = FALSE] ELSE cache
    /\ Return(t, "fail")

\* The command of the current round: the window ahead of lba, as far as the disk
\* goes, or the next chunk of the caller's buffer.
ReadAhead(t) == Least(Window, NSectors - call[t].lba)
Chunk(t) == Least(Window, call[t].count - call[t].done)
Round(t) ==
    IF Small(t)
      THEN [op |-> "read", lba |-> call[t].lba, n |-> ReadAhead(t), mem |-> Cache, off |-> 0]
      ELSE [op |-> call[t].op, lba |-> call[t].lba + call[t].done,
            n |-> Chunk(t),
            mem |-> t, off |-> call[t].done]

\* Slot 0 must not be active; the device must become ready in time.  Then the
\* error state is cleared and the command is built.
\* (A kernel task can lose the CPU between the test and the building; nothing but
\* types is claimed of callers that meet.)
SlotFree(t) == ~ci
BuildCommand(t) ==
    /\ MayRun(t) /\ pc[t] = "slot"
    /\ \/ /\ SlotFree(t)
          /\ tfes' = FALSE /\ table' = Round(t)
          /\ Goto(t, "issue")
          /\ UNCHANGED <<cache, call, result>>
       \/ /\ Fails(t)
          /\ UNCHANGED <<tfes, table>>
    /\ UNCHANGED <<disk, ci, err, dev, buf, overlapped>>

IssueCommand(t) ==
    /\ MayRun(t) /\ pc[t] = "issue"
    /\ ci' = TRUE
    /\ Goto(t, "poll")
    /\ UNCHANGED <<disk, cache, table, tfes, err, dev, call, buf, result, overlapped>>

\* One round of the polling loop that leaves it: an error, the end of the
\* command, or the end of the caller's patience.
AnyEnd(t) == ~tfes /\ ~ci
EndedWell(t) == ~tfes /\ ~ci /\ ~err
CommandDone(t) ==
    LET done == call[t].done + Round(t).n
    IN  /\ MayRun(t) /\ pc[t] = "poll" /\ EndedWell(t)
        /\ IF Small(t)
             THEN Goto(t, "publish") /\ UNCHANGED <<call, result>>
             ELSE IF done < call[t].count
             THEN /\ call' = [call EXCEPT ![t].done = done]
                  /\ Goto(t, "slot") /\ UNCHANGED result
             ELSE Return(t, "ok")
        /\ UNCHANGED <<disk, cache, devVars, buf, overlapped>>

CommandFailed(t) ==
    /\ MayRun(t) /\ pc[t] = "poll"
    /\ tfes \/ (~ci /\ err)
    /\ Fails(t)
    /\ UNCHANGED <<disk, devVars, buf, overlapped>>

PollTimeout(t) ==
    /\ MayRun(t) /\ pc[t] = "poll"
    /\ Fails(t)
    /\ UNCHANGED <<disk, devVars, buf, overlapped>>

\* The window is described by its new position and declared valid.
PublishCache(t) ==
    /\ MayRun(t) /\ pc[t] = "publish"
    /\ cache' = [cache EXCEPT !.lba = call[t].lba, !.count = ReadAhead(t), !.valid = TRUE]
    /\ Goto(t, "copy")
    /\ UNCHANGED <<disk, devVars, call, buf, result, overlapped>>

\* The range must now be in the window, from where it is copied.
CopyOut(t) ==
    LET at == call[t].lba - cache.lba
    IN  /\ MayRun(t) /\ pc[t] = "copy"
        /\ IF Contains(call[t].lba, call[t].count)
             THEN /\ buf' = [buf EXCEPT ![t] = [s \in Sector |->
                                IF s < call[t].count THEN cache.data[at + s] ELSE @[s]]]
                  /\ Return(t, "ok")
             ELSE Return(t, "fail") /\ UNCHANGED buf
        /\ UNCHANGED <<disk, cache, devVars, overlapped>>

-----------------------------------------------------------------------------
(* The device.                                                             *)
taskVars == <<pc, call, result, overlapped>>

DevFetch ==
    /\ ci /\ ~tfes /\ dev = NULL
    /\ dev' = [cmd |-> table, pos |-> 0]
    /\ UNCHANGED <<disk, cache, table, ci, tfes, err, taskVars, buf>>

DevTransfer ==
    LET m == dev.cmd  i == dev.pos
    IN  /\ dev # NULL /\ dev.pos < dev.cmd.n
        /\ dev' = [dev EXCEPT !.pos = @ + 1]
        /\ IF m.op = "write"
             THEN /\ disk' = [disk EXCEPT ![m.lba + i] = buf[m.mem][m.off + i]]
                  /\ UNCHANGED <<cache, buf>>
             ELSE /\ IF m.mem = Cache
                       THEN cache' = [cache EXCEPT !.data[i] = disk[m.lba + i]] /\ UNCHANGED buf
                       ELSE /\ buf' = [buf EXCEPT ![m.mem][m.off + i] = disk[m.lba + i]]
                            /\ UNCHANGED cache
                  /\ UNCHANGED disk
        /\ UNCHANGED <<table, ci, tfes, err, taskVars>>

\* A command ends: well, with ERR in the status, or with a task file error, after
\* which the slot stays active and the engine stands still.
DevEnd ==
    /\ dev # NULL /\ dev' = NULL
    /\ \/ dev.pos = dev.cmd.n /\ ci' = FALSE /\ err' = FALSE /\ UNCHANGED tfes
       \/ ci' = FALSE /\ err' = TRUE /\ UNCHANGED tfes
       \/ tfes' = TRUE /\ err' = TRUE /\ UNCHANGED ci
    /\ UNCHANGED <<disk, cache, table, taskVars, buf>>

-----------------------------------------------------------------------------
Step(t) == \/ Invalidate(t) \/ BuildCommand(t) \/ IssueCommand(t) \/ CommandDone(t)
           \/ CommandFailed(t) \/ PollTimeout(t) \/ PublishCache(t) \/ CopyOut(t)

Next ==
    \/ \E r \in Requests, b \in Patterns : Begin(r[1], r[2], r[3], r[4], b)
    \/ \E t \in Task : Step(t)
    \/ DevFetch \/ DevTransfer \/ DevEnd

\* Of the device nothing is assumed.
Spec == Init /\ [][Next]_vars

-----------------------------------------------------------------------------
\* Types.  No command reaches beyond the end of the disk.
TypeOK ==
    /\ disk \in [Sector -> Value]
    /\ cache.data \in [Slot -> Value] /\ cache.valid \in BOOLEAN /\ overlapped \in BOOLEAN
    /\ cache.lba \in Sector /\ cache.count \in 0..Window
    /\ table # NULL => table \in Command /\ table.lba + table.n <= NSectors
    /\ {ci, tfes, err} \subseteq BOOLEAN
    /\ dev # NULL => dev.cmd \in Command /\ dev.pos \in 0..dev.cmd.n
    /\ pc \in [Task -> {"out", "invalidate", "slot", "issue", "poll", "publish", "copy"}]
    /\ result \in {"none", "ok", "fail"}

\* "Any write may overlap the current read-ahead window. Keep correctness simple"
\* (ahci.c:1440-1445): while the window is valid it holds what the disk holds, also when
\* commands have failed half way or were given up and end late.  Of callers that preempt
\* one another this is false (WindowNeverStale); what is claimed is that the harm is over
\* as soon as a single caller has closed the window over an idle slot.
Coherent == cache.valid => \A i \in 0..(cache.count - 1) : cache.data[i] = disk[cache.lba + i]
CacheCoherent == TypeOK /\ (~overlapped => Coherent)

\* A call that returns 0 has moved every sector: its buffer and the disk agree over the
\* whole range, but for calls that met another one (see CacheCoherent).  A call that began
\* while a command that an earlier caller gave up was still running on a buffer is not
\* clean; nothing is claimed of it.
CompletedExact ==
    [][\A t \in Task :
          ~overlapped /\ pc[t] # "out" /\ pc'[t] = "out" /\ result' = "ok" /\ call[t].clean =>
            \A s \in 0..(call[t].count - 1) : buf'[t][s] = disk'[call[t].lba + s]]_vars

\* CacheCoherent without its condition, which is how ahci.c:1440-1445 puts it.  It is
\* false when a kernel task is preempted in the driver: see MCAhciPreempt.cfg.
WindowNeverStale == Coherent
=============================================================================
