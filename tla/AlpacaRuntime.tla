--------------------------- MODULE AlpacaRuntime ---------------------------
(***************************************************************************)
(* The Alpaca runtime under power failures, as compiled into               *)
(* src/bld/alpaca/cuckoo.S, together with the code the Alpaca compiler     *)
(* puts around every access to a variable a task may read and then write:  *)
(*   - a scalar is copied to its private copy when the task starts, used   *)
(*     there, and entered in the commit list before the transition;        *)
(*   - an array element is copied when it is read and not yet written, and *)
(*     entered in the commit list by its first write of this boot, which   *)
(*     a boot stamp in isDirty remembers.                                  *)
(* transition_to() switches to the other context, and task_prologue(),     *)
(* which also runs first thing after a reboot, copies the listed private   *)
(* copies to the originals.                                                *)
(*                                                                         *)
(* Every action makes at most one write to non-volatile memory, so a power *)
(* failure can fall between any two of them.  What a task computes is left *)
(* open: it reads and writes what it likes and goes on where it likes.     *)
(***************************************************************************)
EXTENDS Integers, FiniteSets

CONSTANTS
    Arr,         \* elements of shared arrays (_global_filter[i])
    Scal,        \* shared scalars (_global_index1, ...)
    Value, InitValue,
    Task, InitTask,
    War,         \* War[t]: the variables task t may read and then write
    NoVar, NoTask,
    MaxBoots,    \* the largest boot stamp, 16#FFFF in the code
    GbufSize     \* entries of data_src / data_dest / data_size, 131 in the code

Var == Arr \cup Scal

ASSUME VarAssumption == /\ Arr \cap Scal = {}
                        /\ NoVar \notin Arr \cup Scal
ASSUME ValueAssumption == InitValue \in Value
ASSUME TaskAssumption == /\ InitTask \in Task
                         /\ NoTask \notin Task
                         /\ War \in [Task -> SUBSET Var]
ASSUME BootsAssumption == MaxBoots \in Nat \ {0}
ASSUME GbufAssumption == /\ GbufSize \in Nat \ {0}
                         /\ \A t \in Task : /\ IsFiniteSet(War[t])
                                           /\ Cardinality(War[t]) <= GbufSize

VARIABLES
    \* non-volatile
    mem,          \* the originals, _global_x
    bak,          \* the private copies, _global_x_bak
    isDirty,      \* _global_x_isDirty: stamp of the boot that last wrote the copy
    numBoots,     \* _numBoots
    data_dest,    \* the commit list; data_src is always the copy of the same variable
    num_dirty_gv, \* its length
    gv_index,     \* the entry task_prologue() copies next
    ctx,          \* context_0 and context_1
    curctx,       \* which of them is current
    \* volatile
    pc,           \* where the processor is
    todo,         \* variables the loop or straight-line sequence at pc has yet to treat
    arg,          \* the variable write_to_gbuf() was called for
    nextTask,     \* the argument of transition_to()
    reg           \* the register a read loads

nv == <<mem, bak, isDirty, numBoots, data_dest, num_dirty_gv, gv_index, ctx, curctx>>
volatile == <<pc, todo, arg, nextTask, reg>>
vars == <<nv, volatile>>

task == ctx[curctx].task
needCommit == ctx[curctx].needCommit

WarArr == War[task] \cap Arr
WarScal == War[task] \cap Scal

PC == {"prologue", "clear", "wrap", "inc", "test", "copy", "advance", "resetNum",
       "resetIndex", "resetFlag", "drop", "privatize", "run", "entry", "count", "mark",
       "precommit", "setTask", "setFlag", "switch"}

TypeOK ==
    /\ mem \in [Var -> Value]
    /\ bak \in [Var -> Value]
    /\ isDirty \in [Arr -> 0..MaxBoots]
    /\ numBoots \in 0..MaxBoots
    /\ data_dest \in [0..GbufSize-1 -> Var \cup {NoVar}]
    /\ num_dirty_gv \in 0..GbufSize
    /\ gv_index \in 0..GbufSize
    /\ ctx \in [{0, 1} -> [task : Task \cup {NoTask}, needCommit : BOOLEAN]]
    /\ curctx \in {0, 1}
    /\ pc \in PC
    /\ todo \in SUBSET Var
    /\ arg \in Var \cup {NoVar}
    /\ nextTask \in Task \cup {NoTask}
    /\ reg \in Value

Init ==
    /\ mem = [v \in Var |-> InitValue]
    /\ bak = [v \in Var |-> InitValue]
    /\ isDirty = [v \in Arr |-> 0]
    /\ numBoots = 0
    /\ data_dest = [i \in 0..GbufSize-1 |-> NoVar]
    /\ num_dirty_gv = 0
    /\ gv_index = 0
    /\ ctx = [c \in {0, 1} |-> [task |-> IF c = 0 THEN InitTask ELSE NoTask,
                                needCommit |-> FALSE]]
    /\ curctx = 0
    /\ pc = "prologue"
    /\ todo = {}
    /\ arg = NoVar
    /\ nextTask = NoTask
    /\ reg = InitValue

-----------------------------------------------------------------------------
(* task_prologue(): from main() after a reboot, and from transition_to().  *)

\* (Bug) The stamps outlive the wrap of _numBoots.
TestWrap_KeepsStamps ==
    /\ pc = "prologue"
    /\ pc' = "inc"
    /\ UNCHANGED <<nv, todo, arg, nextTask, reg>>

\* A boot stamp that would not fit any more makes the prologue forget all
\* the stamps first.
TestWrap ==
    /\ pc = "prologue"
    /\ IF numBoots = MaxBoots
       THEN pc' = (IF Arr = {} THEN "wrap" ELSE "clear") /\ todo' = Arr
       ELSE pc' = "inc" /\ UNCHANGED todo
    /\ UNCHANGED <<nv, arg, nextTask, reg>>

\* clear_isDirty(): my_memset of the stamps.
ClearIsDirty(v) ==
    /\ pc = "clear"
    /\ v \in todo
    /\ isDirty' = [isDirty EXCEPT ![v] = 0]
    /\ todo' = todo \ {v}
    /\ pc' = IF todo' = {} THEN "wrap" ELSE pc
    /\ UNCHANGED <<mem, bak, numBoots, data_dest, num_dirty_gv, gv_index, ctx, curctx,
                   arg, nextTask, reg>>

\* (Bug) _numBoots is wider than the stamps.
WrapNumBoots_Wide ==
    /\ pc = "wrap"
    /\ numBoots' = numBoots + 1
    /\ pc' = "inc"
    /\ UNCHANGED <<mem, bak, isDirty, data_dest, num_dirty_gv, gv_index, ctx, curctx,
                   todo, arg, nextTask, reg>>

\* ++_numBoots, which takes 16#FFFF to 0.
WrapNumBoots ==
    /\ pc = "wrap"
    /\ numBoots' = (numBoots + 1) % (MaxBoots + 1)
    /\ pc' = "inc"
    /\ UNCHANGED <<mem, bak, isDirty, data_dest, num_dirty_gv, gv_index, ctx, curctx,
                   todo, arg, nextTask, reg>>

IncNumBoots ==
    /\ pc = "inc"
    /\ numBoots' = (numBoots + 1) % (MaxBoots + 1)
    /\ pc' = "test"
    /\ UNCHANGED <<mem, bak, isDirty, data_dest, num_dirty_gv, gv_index, ctx, curctx,
                   todo, arg, nextTask, reg>>

\* if (curctx->needCommit) while (gv_index < num_dirty_gv) ...
TestCommit ==
    /\ pc = "test"
    /\ pc' = IF needCommit THEN IF gv_index < num_dirty_gv THEN "copy" ELSE "resetNum"
             ELSE "drop"
    /\ UNCHANGED <<nv, todo, arg, nextTask, reg>>

\* memcpy(data_dest[gv_index], data_src[gv_index], data_size[gv_index])
CopyEntry ==
    /\ pc = "copy"
    /\ LET v == data_dest[gv_index] IN mem' = [mem EXCEPT ![v] = bak[v]]
    /\ pc' = "advance"
    /\ UNCHANGED <<bak, isDirty, numBoots, data_dest, num_dirty_gv, gv_index, ctx, curctx,
                   todo, arg, nextTask, reg>>

AdvanceIndex ==
    /\ pc = "advance"
    /\ gv_index' = gv_index + 1
    /\ pc' = "test"
    /\ UNCHANGED <<mem, bak, isDirty, numBoots, data_dest, num_dirty_gv, ctx, curctx,
                   todo, arg, nextTask, reg>>

\* num_dirty_gv = 0; gv_index = 0; curctx->needCommit = 0, in this order.
ResetNum ==
    /\ pc = "resetNum"
    /\ num_dirty_gv' = 0
    /\ pc' = "resetIndex"
    /\ UNCHANGED <<mem, bak, isDirty, numBoots, data_dest, gv_index, ctx, curctx,
                   todo, arg, nextTask, reg>>

\* (Bug) The cursor is not put back.
ResetIndex_Forgets == /\ pc = "resetIndex"
                      /\ pc' = "resetFlag"
                      /\ UNCHANGED <<nv, todo, arg, nextTask, reg>>

ResetIndex ==
    /\ pc = "resetIndex"
    /\ gv_index' = 0
    /\ pc' = "resetFlag"
    /\ UNCHANGED <<mem, bak, isDirty, numBoots, data_dest, num_dirty_gv, ctx, curctx,
                   todo, arg, nextTask, reg>>

\* The prologue returns and control goes to the first instruction of the task.
EnterTask == pc' = "privatize" /\ todo' = WarScal

ResetFlag ==
    /\ pc = "resetFlag"
    /\ ctx' = [ctx EXCEPT ![curctx].needCommit = FALSE]
    /\ EnterTask
    /\ UNCHANGED <<mem, bak, isDirty, numBoots, data_dest, num_dirty_gv, gv_index, curctx,
                   arg, nextTask, reg>>

\* (Bug) The list of an interrupted attempt is kept.
DropList_Keeps == pc = "drop" /\ EnterTask /\ UNCHANGED <<nv, arg, nextTask, reg>>

\* Nothing to commit: whatever an interrupted attempt entered in the list is dropped.
DropList ==
    /\ pc = "drop"
    /\ num_dirty_gv' = 0
    /\ EnterTask
    /\ UNCHANGED <<mem, bak, isDirty, numBoots, data_dest, gv_index, ctx, curctx,
                   arg, nextTask, reg>>
-----------------------------------------------------------------------------
(* The running task.                                                       *)

\* mov &_global_x, &_global_x_bak at the start of the task, for each scalar.
Privatize ==
    /\ pc = "privatize"
    /\ \/ \E v \in todo : /\ bak' = [bak EXCEPT ![v] = mem[v]]
                          /\ todo' = todo \ {v}
                          /\ UNCHANGED pc
       \/ /\ todo = {}
          /\ pc' = "run"
          /\ UNCHANGED <<bak, todo>>
    /\ UNCHANGED <<mem, isDirty, numBoots, data_dest, num_dirty_gv, gv_index, ctx, curctx,
                   arg, nextTask, reg>>

\* (Bug) Reads fetch the original again over what the task has written.
Read_AlwaysFetches(v) ==
    /\ pc = "run"
    /\ bak' = IF v \in WarArr THEN [bak EXCEPT ![v] = mem[v]] ELSE bak
    /\ reg' = IF v \in War[task] THEN bak'[v] ELSE mem[v]
    /\ UNCHANGED <<mem, isDirty, numBoots, data_dest, num_dirty_gv, gv_index, ctx, curctx,
                   pc, todo, arg, nextTask>>

\* A scalar is read from its private copy, a variable the task never writes
\* from the original, and an array element from its private copy, which is
\* fetched first unless this boot has written it.
Read(v) ==
    /\ pc = "run"
    /\ bak' = IF v \in WarArr /\ isDirty[v] # numBoots
              THEN [bak EXCEPT ![v] = mem[v]] ELSE bak
    /\ reg' = IF v \in War[task] THEN bak'[v] ELSE mem[v]
    /\ UNCHANGED <<mem, isDirty, numBoots, data_dest, num_dirty_gv, gv_index, ctx, curctx,
                   pc, todo, arg, nextTask>>

\* Writes go to the private copy.  The first write of this boot to an array
\* element goes on with write_to_gbuf() and then stamps the element.
Write(v, x) ==
    /\ pc = "run"
    /\ v \in War[task]
    /\ bak' = [bak EXCEPT ![v] = x]
    /\ IF v \in Arr /\ isDirty[v] # numBoots
       THEN pc' = "entry" /\ arg' = v
       ELSE UNCHANGED <<pc, arg>>
    /\ UNCHANGED <<mem, isDirty, numBoots, data_dest, num_dirty_gv, gv_index, ctx, curctx,
                   todo, nextTask, reg>>

\* write_to_gbuf(): the entry, then the count.  The code does not check the
\* bound: an entry past the end would be lost here.
GbufEntry ==
    /\ pc = "entry"
    /\ data_dest' = [data_dest EXCEPT ![num_dirty_gv] = arg]
    /\ pc' = "count"
    /\ UNCHANGED <<mem, bak, isDirty, numBoots, num_dirty_gv, gv_index, ctx, curctx,
                   todo, arg, nextTask, reg>>

GbufCount ==
    /\ pc = "count"
    /\ num_dirty_gv' = num_dirty_gv + 1
    /\ pc' = IF arg \in Arr THEN "mark" ELSE "precommit"
    /\ UNCHANGED <<mem, bak, isDirty, numBoots, data_dest, gv_index, ctx, curctx,
                   todo, arg, nextTask, reg>>

\* (Bug) The element is not stamped and enters the list with every write.
MarkDirty_Forgets ==
    pc = "mark" /\ pc' = "run" /\ arg' = NoVar /\ UNCHANGED <<nv, todo, nextTask, reg>>

MarkDirty ==
    /\ pc = "mark"
    /\ isDirty' = [isDirty EXCEPT ![arg] = numBoots]
    /\ pc' = "run"
    /\ arg' = NoVar
    /\ UNCHANGED <<mem, bak, numBoots, data_dest, num_dirty_gv, gv_index, ctx, curctx,
                   todo, nextTask, reg>>

\* The body is over.  The privatized scalars are entered in the list, then
\* transition_to(t) is called.
Finish(t) ==
    /\ pc = "run"
    /\ pc' = "precommit"
    /\ nextTask' = t
    /\ todo' = WarScal
    /\ UNCHANGED <<nv, arg, reg>>

PreCommit ==
    /\ pc = "precommit"
    /\ \/ \E v \in todo : /\ todo' = todo \ {v}
                          /\ arg' = v
                          /\ pc' = "entry"
       \/ /\ todo = {}
          /\ pc' = "setTask"
          /\ arg' = NoVar
          /\ UNCHANGED todo
    /\ UNCHANGED <<nv, nextTask, reg>>
-----------------------------------------------------------------------------
(* transition_to(): the context that is not current is prepared, and the   *)
(* store to curctx makes the transition.                                   *)

next_ctx == 1 - curctx

SetTask ==
    /\ pc = "setTask"
    /\ ctx' = [ctx EXCEPT ![next_ctx].task = nextTask]
    /\ pc' = "setFlag"
    /\ UNCHANGED <<mem, bak, isDirty, numBoots, data_dest, num_dirty_gv, gv_index, curctx,
                   todo, arg, nextTask, reg>>

SetFlag ==
    /\ pc = "setFlag"
    /\ ctx' = [ctx EXCEPT ![next_ctx].needCommit = TRUE]
    /\ pc' = "switch"
    /\ UNCHANGED <<mem, bak, isDirty, numBoots, data_dest, num_dirty_gv, gv_index, curctx,
                   todo, arg, nextTask, reg>>

SwitchContext ==
    /\ pc = "switch"
    /\ curctx' = next_ctx
    /\ pc' = "prologue"
    /\ UNCHANGED <<mem, bak, isDirty, numBoots, data_dest, num_dirty_gv, gv_index, ctx,
                   todo, arg, nextTask, reg>>
-----------------------------------------------------------------------------
(* Power failures.  main() runs next, whose only effect on this state is   *)
(* the call of task_prologue().                                            *)

Reboot == /\ pc' = "prologue"
          /\ todo' = {}
          /\ arg' = NoVar
          /\ nextTask' = NoTask
          /\ reg' = InitValue

\* (Bug) The cursor of the commit is volatile.
PowerFail_LosesIndex ==
    /\ Reboot
    /\ gv_index' = 0
    /\ UNCHANGED <<mem, bak, isDirty, numBoots, data_dest, num_dirty_gv, ctx, curctx>>

PowerFail == Reboot /\ UNCHANGED nv

\* memcpy() and my_memset() work byte by byte: a failure inside them leaves a
\* value that is neither the old nor the new one.
TornCopy(x) ==
    /\ pc = "copy"
    /\ mem' = [mem EXCEPT ![data_dest[gv_index]] = x]
    /\ Reboot
    /\ UNCHANGED <<bak, isDirty, numBoots, data_dest, num_dirty_gv, gv_index, ctx, curctx>>

TornClear(v, n) ==
    /\ pc = "clear"
    /\ v \in todo
    /\ n <= isDirty[v]
    /\ isDirty' = [isDirty EXCEPT ![v] = n]
    /\ Reboot
    /\ UNCHANGED <<mem, bak, numBoots, data_dest, num_dirty_gv, gv_index, ctx, curctx>>

Prologue == \/ TestWrap \/ (\E v \in Arr : ClearIsDirty(v)) \/ WrapNumBoots \/ IncNumBoots \/ TestCommit
            \/ CopyEntry \/ AdvanceIndex \/ ResetNum \/ ResetIndex \/ ResetFlag \/ DropList

Body == \/ Privatize
        \/ \E v \in Var : Read(v)
        \/ \E v \in Var, x \in Value : Write(v, x)
        \/ GbufEntry \/ GbufCount \/ MarkDirty
        \/ \E t \in Task : Finish(t)

Transition == PreCommit \/ SetTask \/ SetFlag \/ SwitchContext

Failure == \/ PowerFail
           \/ \E x \in Value : TornCopy(x)
           \/ \E v \in Arr, n \in 0..MaxBoots : TornClear(v, n)

Next == Prologue \/ Body \/ Transition \/ Failure

Spec == Init /\ [][Next]_vars
-----------------------------------------------------------------------------
(* Safety.                                                                 *)

Listed == {data_dest[i] : i \in 0..num_dirty_gv-1}
Pending == {data_dest[i] : i \in gv_index..num_dirty_gv-1}
Running == pc \in {"privatize", "run", "entry", "count", "mark", "precommit",
                   "setTask", "setFlag", "switch"}

\* Stamps of earlier boots never pass for one of this boot, not even after
\* _numBoots has wrapped around: when a task starts, no element looks written.
NoStaleStamp == pc = "privatize" => \A v \in Arr : isDirty[v] # numBoots

\* When the transition is about to happen, the commit list names every scalar
\* the task privatized and every element it wrote, each exactly once.
CommitListExact ==
    pc = "switch" =>
        /\ Listed = WarScal \cup {v \in WarArr : isDirty[v] = numBoots}
        /\ Cardinality(Listed) = num_dirty_gv

\* write_to_gbuf() never runs past the end of its arrays, although it does
\* not look: an interrupted attempt leaves nothing behind in the list.
GbufFits == pc = "entry" => num_dirty_gv < GbufSize

\* Outside a commit the cursor is at the start, so that the next commit
\* skips nothing, whichever of the three resets the power failed between.
CursorAtStart == ~needCommit => gv_index = 0

-----------------------------------------------------------------------------
(* The inductive invariant behind the safety properties, in three parts.   *)

StampInv ==
    /\ \A v \in Arr : isDirty[v] <= numBoots
    /\ pc = "clear" => numBoots = MaxBoots /\ \A v \in Arr \ todo : isDirty[v] = 0
    /\ pc = "wrap" => numBoots = MaxBoots /\ \A v \in Arr : isDirty[v] = 0
    /\ pc = "inc" => numBoots < MaxBoots
    /\ pc \in {"test", "copy", "advance", "resetNum", "resetIndex", "resetFlag", "drop",
               "privatize"} => \A v \in Arr : isDirty[v] < numBoots
    /\ Running => \A v \in Arr : isDirty[v] = numBoots => v \in WarArr

ControlInv ==
    /\ task \in Task
    /\ ~needCommit => gv_index = 0
    /\ \A i \in 0..num_dirty_gv-1 : data_dest[i] \in Var
    /\ pc \in {"copy", "advance"} => needCommit /\ gv_index < num_dirty_gv
    /\ pc = "advance" => mem[data_dest[gv_index]] = bak[data_dest[gv_index]]
    /\ pc \in {"resetNum", "resetIndex", "resetFlag"} => needCommit
    /\ pc = "resetNum" => num_dirty_gv <= gv_index
    /\ pc \in {"resetIndex", "resetFlag", "privatize"} => num_dirty_gv = 0
    /\ pc = "resetFlag" => gv_index = 0
    /\ pc = "drop" \/ Running => ~needCommit
    /\ Running => todo \subseteq WarScal
    /\ pc \in {"entry", "count", "mark"} => arg \in War[task]
    /\ pc \in {"entry", "count", "mark"} /\ arg \in Arr => isDirty[arg] # numBoots
    /\ pc = "mark" => arg \in Arr
    /\ pc \in {"entry", "count"} /\ arg \in Scal => arg \notin todo
    /\ pc = "count" => data_dest[num_dirty_gv] = arg
    /\ \/ pc \in {"precommit", "setTask", "setFlag", "switch"}
       \/ pc \in {"entry", "count"} /\ arg \in Scal
       => nextTask \in Task
    /\ pc \in {"setFlag", "switch"} => ctx[next_ctx].task = nextTask
    /\ pc = "switch" => ctx[next_ctx].needCommit

\* The scalars that have been entered in the commit list so far.
EnteredScal == CASE pc = "precommit" -> WarScal \ todo
                 [] pc \in {"entry", "count"} /\ arg \in Scal -> WarScal \ (todo \cup {arg})
                 [] pc \in {"setTask", "setFlag", "switch"} -> WarScal
                 [] OTHER -> {}

Entered == {v \in WarArr : isDirty[v] = numBoots \/ (pc = "mark" /\ v = arg)} \cup EnteredScal

ListInv == Running => Listed = Entered /\ Cardinality(Listed) = num_dirty_gv

IInv == TypeOK /\ StampInv /\ ControlInv /\ ListInv

-----------------------------------------------------------------------------
(* Tasks are atomic.                                                       *)

\* What the completed tasks left behind: the originals, under the private
\* copies the commit in progress has yet to bring home.
CommittedStore ==
    [v \in Var |-> IF needCommit /\ v \in Pending THEN bak[v] ELSE mem[v]]

\* The running task finds v in its private copy.
InCopy(v) ==
    \/ v \in WarScal /\ ~(pc = "privatize" /\ v \in todo)
    \/ v \in WarArr /\ (isDirty[v] = numBoots \/ (v = arg /\ pc \in {"entry", "count", "mark"}))

AttemptView ==
    [v \in Var |-> IF Running /\ InCopy(v) THEN bak[v] ELSE CommittedStore[v]]

Atomic == INSTANCE AtomicTasks WITH store <- CommittedStore, view <- AttemptView

\* Through every power failure each task reads what the completed tasks left
\* and what it wrote itself, and takes effect as a whole or not at all.
TasksAreAtomic == Atomic!Spec
-----------------------------------------------------------------------------
(* Progress.                                                               *)

\* Power failures may go on for ever, as long as they do not always hit the
\* prologue at the same point: now and then a charge lasts for clearing all
\* the stamps, or for one more entry of the list.
ClearsAtLeast(n) == Cardinality(todo) = n /\ \E v \in Arr : ClearIsDirty(v)

ChargeLasts == /\ SF_vars(TestWrap)
               /\ \A n \in 1..Cardinality(Arr) : SF_vars(ClearsAtLeast(n))
               /\ SF_vars(WrapNumBoots) /\ SF_vars(IncNumBoots) /\ SF_vars(TestCommit)
               /\ SF_vars(CopyEntry) /\ SF_vars(AdvanceIndex)
               /\ SF_vars(ResetNum) /\ SF_vars(ResetIndex) /\ SF_vars(ResetFlag)

FairSpec == Spec /\ ChargeLasts

\* A commit that has begun ends: it goes on where the last power failure
\* stopped it.
CommitEnds == needCommit ~> ~needCommit
=============================================================================
