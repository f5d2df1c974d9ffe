---------------------------- MODULE ChainRuntime ----------------------------
(***************************************************************************)
(* The Chain runtime (libchain/src/chain.c) under power failures.  Tasks   *)
(* communicate through fields of channels: chan_out() stamps a field with  *)
(* the logical time of the running task, chan_in() syncs, that is, takes   *)
(* the latest of the given fields.  A field of a self channel, which a     *)
(* task uses to hand a value to its next execution, is double buffered:    *)
(* chan_out() fills the next buffer, sets a dirty bit and enters the field *)
(* in the task's dirty list, and the prologue of the next execution swaps  *)
(* the buffers of the fields in the list.                                  *)
(*                                                                         *)
(* Every action makes at most one write to non-volatile memory.  The       *)
(* program is a choice: when a task starts, plan fixes what it outputs and *)
(* where it goes, and an attempt that is restarted follows the same plan,  *)
(* as a deterministic task does when it reads the same inputs.             *)
(***************************************************************************)
EXTENDS Integers, Sequences, FiniteSets

CONSTANTS
    Task, InitTask,
    Field,           \* the fields of all channels
    SelfField,       \* those of self channels
    Writer,          \* Writer[f]: the task that outputs f
    SyncLists,       \* SyncLists[t]: the sequences of fields t calls chan_in() with
    Value,
    NoField, NoValue,
    MaxDirty,        \* MAX_DIRTY_SELF_FIELDS, 32 in the code
    MaxTime,         \* the largest chain_time_t, 16#FFFF in the code
    MaxOuts,         \* bound: outputs of one task execution
    MaxTransitions,  \* bound: transitions of a behaviour
    MaxAborts        \* bound: power failures in the body of one execution

ASSUME FieldAssumption == /\ SelfField \subseteq Field
                          /\ NoField \notin Field
                          /\ Writer \in [Field -> Task \ {InitTask}]
ASSUME TaskAssumption == InitTask \in Task
ASSUME BoundAssumption ==
    {MaxDirty, MaxTime, MaxOuts, MaxTransitions, MaxAborts} \subseteq Nat \ {0}
\* A channel connects two tasks, only a self channel leads back to its source.
ASSUME SyncAssumption ==
    \A t \in Task : \A c \in SyncLists[t] :
        /\ c \in Seq(Field)
        /\ \A i \in DOMAIN c : c[i] \in Field /\ (Writer[c[i]] = t <=> c[i] \in SelfField)
        /\ \A i, j \in DOMAIN c : Writer[c[i]] = Writer[c[j]] => i = j

VARIABLES
    \* non-volatile
    var,                   \* var[f][b]: time stamp and value, b = 1 only for self fields
    idx_pair,              \* of a self field: buffer indexes and dirty bits
    dirty_self_fields,     \* of each task
    num_dirty_self_fields,
    last_execute_time,
    ctx,                   \* the two contexts: task, time
    curctx,
    \* volatile
    pc,
    pos,                   \* the output of the plan the task is at
    \* history
    plan,                  \* what the current execution outputs, and its next task
    now,                   \* logical time that does not wrap
    committed,             \* committed[f]: the last value a completed execution output
    aborts

nv == <<var, idx_pair, dirty_self_fields, num_dirty_self_fields, last_execute_time, ctx, curctx>>
history == <<plan, now, committed, aborts>>
vars == <<nv, pc, pos, history>>

task == ctx[curctx].task
time == ctx[curctx].time

Output == [field : Field, value : Value]
PlansOf(t) == [outs : {s \in UNION {[1..n -> Output] : n \in 0..MaxOuts} :
                         \A i \in DOMAIN s : Writer[s[i].field] = t},
               next : Task \ {InitTask}]

PC == {"prologue", "pop", "decrement", "stampTask", "run", "clearNext", "setDirty", "count",
       "entry", "stamp", "value", "setTask", "setTime", "switch"}

Version == [timestamp : 0..MaxTime, value : Value \cup {NoValue}]
IdxPair == [cur : {0, 1}, dirtyCur : BOOLEAN, next : {0, 1}, dirtyNext : BOOLEAN]
Context == [task : Task, time : 0..MaxTime]

TypeOK ==
    /\ var \in [Field -> [{0, 1} -> Version]]
    /\ idx_pair \in [SelfField -> IdxPair]
    /\ dirty_self_fields \in [Task -> [0..MaxDirty-1 -> SelfField \cup {NoField}]]
    /\ num_dirty_self_fields \in [Task -> 0..MaxDirty]
    /\ last_execute_time \in [Task -> 0..MaxTime]
    /\ ctx \in [{0, 1} -> Context]
    /\ curctx \in {0, 1}
    /\ pc \in PC
    /\ pos \in 1..MaxOuts+1
    /\ plan \in PlansOf(task)
    /\ now \in 0..MaxTransitions
    /\ committed \in [Field -> [time : 0..MaxTransitions, value : Value \cup {NoValue}]]
    /\ aborts \in 0..MaxAborts

Init ==
    /\ var = [f \in Field |-> [b \in {0, 1} |-> [timestamp |-> 0, value |-> NoValue]]]
    /\ idx_pair = [f \in SelfField |-> [cur |-> 0, dirtyCur |-> FALSE,
                                        next |-> 1, dirtyNext |-> FALSE]]
    /\ dirty_self_fields = [t \in Task |-> [i \in 0..MaxDirty-1 |-> NoField]]
    /\ num_dirty_self_fields = [t \in Task |-> 0]
    /\ last_execute_time = [t \in Task |-> 0]
    /\ ctx = [c \in {0, 1} |-> [task |-> InitTask, time |-> 0]]
    /\ curctx = 0
    /\ pc = "prologue"
    /\ pos = 1
    /\ plan \in PlansOf(InitTask)
    /\ now = 0
    /\ committed = [f \in Field |-> [time |-> 0, value |-> NoValue]]
    /\ aborts = 0
-----------------------------------------------------------------------------
(* task_prologue()                                                         *)

\* (Bug) The prologue swaps on restarts, too.
TestRestart_Always == pc = "prologue" /\ pc' = "pop" /\ UNCHANGED <<nv, pos, history>>

\* Swaps happen on transitions, not on restarts, which the time tells apart.
TestRestart ==
    /\ pc = "prologue"
    /\ pc' = IF time # last_execute_time[task] THEN "pop" ELSE "run"
    /\ UNCHANGED <<nv, pos, history>>

Swapped(p) == [cur |-> p.next, dirtyCur |-> p.dirtyNext,
               next |-> p.cur, dirtyNext |-> p.dirtyCur]

\* One SWPB swaps the buffers and moves the dirty bit out of the way.  A slot
\* that was counted but never written holds NULL and designates no field.
PopDirty ==
    /\ pc = "pop"
    /\ num_dirty_self_fields[task] > 0
    /\ LET f == dirty_self_fields[task][num_dirty_self_fields[task] - 1]
       IN idx_pair' = IF f # NoField /\ idx_pair[f].dirtyCur
                      THEN [idx_pair EXCEPT ![f] = Swapped(@)] ELSE idx_pair
    /\ pc' = "decrement"
    /\ UNCHANGED <<var, dirty_self_fields, num_dirty_self_fields, last_execute_time, ctx, curctx,
                   pos, history>>

\* (Bug) The count is not stored in each round.
Decrement_Forgets == pc = "decrement" /\ pc' = "pop" /\ UNCHANGED <<nv, pos, history>>

Decrement ==
    /\ pc = "decrement"
    /\ num_dirty_self_fields' = [num_dirty_self_fields EXCEPT ![task] = @ - 1]
    /\ pc' = "pop"
    /\ UNCHANGED <<var, idx_pair, dirty_self_fields, last_execute_time, ctx, curctx, pos, history>>

\* (Bug) The execution is marked as started before the list has been drained.
StampTask_Early ==
    /\ pc = "pop"
    /\ last_execute_time' = [last_execute_time EXCEPT ![task] = time]
    /\ pc' = "run"
    /\ UNCHANGED <<var, idx_pair, dirty_self_fields, num_dirty_self_fields, ctx, curctx,
                   pos, history>>

StampTask ==
    /\ pc = "pop"
    /\ num_dirty_self_fields[task] = 0
    /\ last_execute_time' = [last_execute_time EXCEPT ![task] = time]
    /\ pc' = "run"
    /\ UNCHANGED <<var, idx_pair, dirty_self_fields, num_dirty_self_fields, ctx, curctx,
                   pos, history>>
-----------------------------------------------------------------------------
(* chan_in() and chan_out()                                                *)

\* The buffer of f that chan_in() reads, and the one that chan_out() fills.
InBuffer(f) == IF f \in SelfField THEN idx_pair[f].cur ELSE 0
OutBuffer(f) == IF f \in SelfField THEN idx_pair[f].next ELSE 0

\* The first field of the list with the largest time stamp above 0; a list
\* without one leaves latest_var NULL.
ChanIn(c) ==
    LET stamp(i) == var[c[i]][InBuffer(c[i])].timestamp
        latest == {i \in DOMAIN c : stamp(i) > 0 /\ \A j \in DOMAIN c : stamp(i) >= stamp(j)}
    IN  IF latest = {} THEN NoValue
        ELSE LET i == CHOOSE i \in latest : \A j \in latest : i <= j
             IN  var[c[i]][InBuffer(c[i])].value

out == plan.outs[pos]

ChanOut ==
    /\ pc = "run"
    /\ pos <= Len(plan.outs)
    /\ pc' = IF out.field \in SelfField THEN "clearNext" ELSE "stamp"
    /\ UNCHANGED <<nv, pos, history>>

ClearNextDirty ==
    /\ pc = "clearNext"
    /\ idx_pair' = [idx_pair EXCEPT ![out.field].dirtyNext = FALSE]
    /\ pc' = "setDirty"
    /\ UNCHANGED <<var, dirty_self_fields, num_dirty_self_fields, last_execute_time, ctx, curctx,
                   pos, history>>

SetDirty ==
    /\ pc = "setDirty"
    /\ idx_pair' = [idx_pair EXCEPT ![out.field].dirtyCur = TRUE]
    /\ pc' = "count"
    /\ UNCHANGED <<var, dirty_self_fields, num_dirty_self_fields, last_execute_time, ctx, curctx,
                   pos, history>>

\* dirty_self_fields[num_dirty_self_fields++] = self_field.  The build stores
\* the count first (bld/chain/bc.S), and nothing checks the bound: an entry
\* past the end is lost here.
CountDirty ==
    /\ pc = "count"
    /\ num_dirty_self_fields' = [num_dirty_self_fields EXCEPT ![task] = @ + 1]
    /\ pc' = "entry"
    /\ UNCHANGED <<var, idx_pair, dirty_self_fields, last_execute_time, ctx, curctx, pos, history>>

EnterDirty ==
    /\ pc = "entry"
    /\ dirty_self_fields' =
         [dirty_self_fields EXCEPT ![task][num_dirty_self_fields[task] - 1] = out.field]
    /\ pc' = "stamp"
    /\ UNCHANGED <<var, idx_pair, num_dirty_self_fields, last_execute_time, ctx, curctx,
                   pos, history>>

StampVar ==
    /\ pc = "stamp"
    /\ var' = [var EXCEPT ![out.field][OutBuffer(out.field)].timestamp = time]
    /\ pc' = "value"
    /\ UNCHANGED <<idx_pair, dirty_self_fields, num_dirty_self_fields, last_execute_time,
                   ctx, curctx, pos, history>>

StoreValue ==
    /\ pc = "value"
    /\ var' = [var EXCEPT ![out.field][OutBuffer(out.field)].value = out.value]
    /\ pc' = "run"
    /\ pos' = pos + 1
    /\ UNCHANGED <<idx_pair, dirty_self_fields, num_dirty_self_fields, last_execute_time,
                   ctx, curctx, history>>
-----------------------------------------------------------------------------
(* transition_to()                                                         *)

next_ctx == 1 - curctx

SetTask ==
    /\ pc = "run"
    /\ pos > Len(plan.outs)
    /\ now < MaxTransitions
    /\ ctx' = [ctx EXCEPT ![next_ctx].task = plan.next]
    /\ pc' = "setTime"
    /\ UNCHANGED <<var, idx_pair, dirty_self_fields, num_dirty_self_fields, last_execute_time,
                   curctx, pos, history>>

\* (Bug) The time counts the executions of each task.
SetTime_PerTask ==
    /\ pc = "setTime"
    /\ ctx' = [ctx EXCEPT ![next_ctx].time = (last_execute_time[plan.next] + 1) % (MaxTime + 1)]
    /\ pc' = "switch"
    /\ UNCHANGED <<var, idx_pair, dirty_self_fields, num_dirty_self_fields, last_execute_time,
                   curctx, pos, history>>

SetTime ==
    /\ pc = "setTime"
    /\ ctx' = [ctx EXCEPT ![next_ctx].time = (time + 1) % (MaxTime + 1)]
    /\ pc' = "switch"
    /\ UNCHANGED <<var, idx_pair, dirty_self_fields, num_dirty_self_fields, last_execute_time,
                   curctx, pos, history>>

\* The last output of the plan to f, if there is one.
LastOut(f) == LET I == {i \in DOMAIN plan.outs : plan.outs[i].field = f}
              IN  IF I = {} THEN committed[f]
                  ELSE [time |-> now,
                        value |-> plan.outs[CHOOSE i \in I : \A j \in I : j <= i].value]

SwitchContext ==
    /\ pc = "switch"
    /\ curctx' = next_ctx
    /\ pc' = "prologue"
    /\ pos' = 1
    /\ committed' = [f \in Field |-> LastOut(f)]
    /\ now' = now + 1
    /\ aborts' = 0
    /\ plan' \in PlansOf(plan.next)
    /\ UNCHANGED <<var, idx_pair, dirty_self_fields, num_dirty_self_fields, last_execute_time, ctx>>
-----------------------------------------------------------------------------
(* Power failures: main() runs next.                                       *)

Reboot == /\ pc' = "prologue"
          /\ pos' = 1
          /\ UNCHANGED <<plan, now, committed>>

InBody == pc \notin {"prologue", "pop", "decrement"}

PowerFail ==
    /\ Reboot
    /\ IF InBody THEN aborts < MaxAborts /\ aborts' = aborts + 1 ELSE UNCHANGED aborts
    /\ UNCHANGED nv

\* A failure inside the memcpy() of chan_out().
TornValue(v) ==
    /\ pc = "value"
    /\ aborts < MaxAborts
    /\ aborts' = aborts + 1
    /\ var' = [var EXCEPT ![out.field][OutBuffer(out.field)].value = v]
    /\ Reboot
    /\ UNCHANGED <<idx_pair, dirty_self_fields, num_dirty_self_fields, last_execute_time,
                   ctx, curctx>>

Next == \/ TestRestart \/ PopDirty \/ Decrement \/ StampTask
        \/ ChanOut \/ ClearNextDirty \/ SetDirty \/ CountDirty \/ EnterDirty
        \/ StampVar \/ StoreValue
        \/ SetTask \/ SetTime \/ SwitchContext
        \/ PowerFail \/ \E v \in Value : TornValue(v)

Spec == Init /\ [][Next]_vars
-----------------------------------------------------------------------------
\* The value of the list that was output last by an execution that completed.
MostRecent(c) ==
    LET written == {i \in DOMAIN c : committed[c[i]].time > 0}
    IN  IF written = {} THEN NoValue
        ELSE committed[c[CHOOSE i \in written :
                            \A j \in written : committed[c[j]].time <= committed[c[i]].time]].value

\* At any point of its body, in the first attempt as in a restarted one, and
\* whatever it has output itself, a task syncs to the most recent value.
SyncIsMostRecent == InBody => \A c \in SyncLists[task] : ChanIn(c) = MostRecent(c)

\* No two time stamps chan_in() compares are equal.
NoEqualStamps ==
    InBody => \A c \in SyncLists[task] : \A i, j \in DOMAIN c :
        LET stamp(k) == var[c[k]][InBuffer(c[k])].timestamp
        IN  i # j => stamp(i) # stamp(j) \/ stamp(i) = 0

\* The dirty list does not outgrow its array.  The build has no check, only
\* the bound MaxAborts keeps the instances of the other properties below it.
DirtyListFits == \A t \in Task : num_dirty_self_fields[t] <= MaxDirty

\* Power failures may hit the prologue for ever, though not always at the
\* same point.
ChargeLasts == /\ SF_vars(TestRestart) /\ SF_vars(PopDirty)
               /\ SF_vars(Decrement) /\ SF_vars(StampTask)

FairSpec == Spec /\ ChargeLasts

\* Every prologue ends: the swaps done before a power failure are not done
\* again.
PrologueEnds == ~InBody ~> InBody
-----------------------------------------------------------------------------
(* The inductive invariant.  It needs a logical time that does not wrap    *)
(* and a dirty list that holds what the attempts of one execution enter:   *)
(* chain.c checks neither.                                                 *)

NoWrap == MaxTransitions <= MaxTime
ListHolds == (MaxAborts + 1) * MaxOuts <= MaxDirty

\* The current execution has got past its prologue, in this or an earlier
\* attempt; f is a field it may output.
Started == last_execute_time[task] = now
Running(f) == Writer[f] = task /\ Started

\* The logical time tells executions, and the outputs they have committed, apart.
TimeInv ==
    /\ time = now
    /\ now = 0 => task = InitTask
    /\ \A t \in Task : last_execute_time[t] <= now
    /\ pc \in {"pop", "decrement"} => ~Started
    /\ InBody => Started
    /\ pc \in {"setTime", "switch"} => now < MaxTransitions /\ ctx[next_ctx].task = plan.next
    /\ pc = "switch" => ctx[next_ctx].time = now + 1
    /\ \A f \in Field : committed[f].time > 0 => committed[f].time < now
    /\ \A f, g \in Field : committed[f].time > 0 /\ committed[f].time = committed[g].time => Writer[f] = Writer[g]

\* Where the execution is in its plan.
PosInv ==
    /\ pos <= Len(plan.outs) + 1
    /\ ~InBody => pos = 1
    /\ pc \in {"clearNext", "setDirty", "count", "entry", "stamp", "value"} => pos <= Len(plan.outs)
    /\ pc \in {"clearNext", "setDirty", "count", "entry"} => out.field \in SelfField
    /\ pc \in {"setTime", "switch"} => pos > Len(plan.outs)

\* Each attempt enters at most MaxOuts fields in the list.
CountInv ==
    /\ \A t \in Task : num_dirty_self_fields[t] <= (MaxAborts + 1) * MaxOuts
    /\ Started => num_dirty_self_fields[task] <= aborts * MaxOuts + (pos - 1)
                                                 + (IF pc \in {"entry", "stamp", "value"} THEN 1 ELSE 0)
    /\ pc \in {"decrement", "entry"} => num_dirty_self_fields[task] > 0

\* The list of f's task holds f; an entry that is counted only does not count.
ListEnd(t) == IF pc = "entry" /\ t = task THEN num_dirty_self_fields[t] - 1 ELSE num_dirty_self_fields[t]
Listed(f) == \E i \in 0..ListEnd(Writer[f])-1 : dirty_self_fields[Writer[f]][i] = f

\* What the last completed execution has output to f, and where that is
\* between executions: not yet swapped, when the field is dirty.
Committed(f) == [timestamp |-> committed[f].time, value |-> committed[f].value]
Latest(f) == IF f \notin SelfField THEN 0
             ELSE IF idx_pair[f].dirtyCur THEN idx_pair[f].next ELSE idx_pair[f].cur

BufferInv ==
    \A f \in SelfField : idx_pair[f].cur # idx_pair[f].next /\ (idx_pair[f].dirtyCur => ~idx_pair[f].dirtyNext)

Settled(f) == /\ var[f][Latest(f)] = Committed(f)
              /\ f \in SelfField /\ idx_pair[f].dirtyCur => Listed(f)

SettledInv ==
    /\ \A f \in Field : ~Running(f) => Settled(f)
    /\ pc = "decrement" => LET f == dirty_self_fields[task][num_dirty_self_fields[task] - 1]
                           IN  f = NoField \/ ~idx_pair[f].dirtyCur

\* A task in its body still reads what it output to f before; what it has
\* output in this attempt is in the other buffer, dirty and in the list.
NotInPlan(f) == \A i \in DOMAIN plan.outs : plan.outs[i].field # f
IsLastOut(f, i) == plan.outs[i].field = f /\ \A j \in i+1..pos-1 : plan.outs[j].field # f

UnderWay(f) ==
    /\ f \in SelfField => var[f][idx_pair[f].cur] = Committed(f)
    /\ NotInPlan(f) => IF f \in SelfField THEN ~idx_pair[f].dirtyCur ELSE var[f][0] = Committed(f)
    /\ \A i \in 1..pos-1 : IsLastOut(f, i) =>
          /\ var[f][OutBuffer(f)] = [timestamp |-> now, value |-> plan.outs[i].value]
          /\ f \in SelfField => idx_pair[f].dirtyCur /\ Listed(f)

RunningInv == \A f \in Field : Running(f) => UnderWay(f)

\* The steps of chan_out().
OutputInv ==
    /\ pc = "setDirty" => ~idx_pair[out.field].dirtyNext
    /\ pc \in {"count", "entry"} => idx_pair[out.field].dirtyCur
    /\ pc \in {"stamp", "value"} /\ out.field \in SelfField => idx_pair[out.field].dirtyCur /\ Listed(out.field)
    /\ pc = "value" => var[out.field][OutBuffer(out.field)].timestamp = now

IInv == TypeOK /\ TimeInv /\ PosInv /\ CountInv /\ BufferInv /\ SettledInv /\ RunningInv /\ OutputInv
=============================================================================
