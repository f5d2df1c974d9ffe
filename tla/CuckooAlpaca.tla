---------------------------- MODULE CuckooAlpaca ----------------------------
(***************************************************************************)
(* The cuckoo filter application on the Alpaca runtime, with the power     *)
(* failing anywhere: the compiled tasks of src/bld/alpaca/cuckoo.S.        *)
(*                                                                         *)
(* AlpacaRuntime covers the variables a task may read and then write,      *)
(* which the compiler privatizes (War).  The compiled tasks write every    *)
(* other variable in place, so that an interrupted attempt leaves such     *)
(* writes behind; that is harmless only if the next attempt, whose rand()  *)
(* may differ, overwrites them before anybody reads them.  This module     *)
(* runs the tasks themselves and shows that nobody sees the difference:    *)
(* store and current, the variables of CuckooTasks, are history variables  *)
(* that only a transition changes, to the memory and the task it leaves.   *)
(***************************************************************************)
EXTENDS AlpacaRuntime, CuckooTasks

VARIABLE body    \* what the task has yet to do (volatile)

allVars == <<vars, body, tasksVars>>

NoBody == <<>>

\* What Arr, Scal, Task and War are for this application.
CuckooTask == entry_task..task_done

\* (Bug) Privatizes the array, and leaves the scalars in place.
CuckooWar_ArraysOnly ==
    [t \in CuckooTask |-> IF t \in {task_add, task_relocate} THEN Filter ELSE {}]

\* The variables each compiled task privatizes.
CuckooWar == [t \in CuckooTask |->
    CASE t = task_generate_key -> {key}
      [] t = task_add          -> Filter \cup {fingerprint, index1}
      [] t = task_relocate     -> Filter \cup {fingerprint, index1, relocation_count}
      [] t = task_insert_done  -> {insert_count, inserted_count}
      [] t = task_lookup_done  -> {lookup_count, member_count}
      [] OTHER                 -> {}]

ASSUME ProgramAssumption ==
    /\ Arr = Filter /\ Scal = Scalars
    /\ Value = Word /\ InitValue = 0
    /\ Task = CuckooTask /\ InitTask = entry_task
    /\ War = CuckooWar

\* Variables are privatized and entered in the commit list in this order.
Order == <<key, fingerprint, index1, relocation_count, insert_count, inserted_count,
           lookup_count, member_count>>

InOrder == todo # {} =>
    todo' = todo \ {Order[CHOOSE i \in DOMAIN Order :
                              /\ Order[i] \in todo
                              /\ \A j \in 1..i-1 : Order[j] \notin todo]}

CuckooInit == Init /\ body = NoBody /\ store = mem /\ current = task
-----------------------------------------------------------------------------
\* What the running task sees when it reads v.
View(v) == IF v \in WarScal \/ (v \in WarArr /\ isDirty[v] = numBoots)
           THEN bak[v] ELSE mem[v]

\* The task begins: task_done calls exit().
Begin == /\ pc = "run" /\ body = NoBody
         /\ task # task_done
         /\ \E coin \in {0, 1} : body' = Script(task, [v \in Var |-> View(v)], coin)
         /\ UNCHANGED <<vars, tasksVars>>

\* A store to a variable that is not privatized.
WriteInPlace(v, x) ==
    /\ pc = "run"
    /\ v \notin War[task]
    /\ mem' = [mem EXCEPT ![v] = x]
    /\ UNCHANGED <<bak, isDirty, numBoots, data_dest, num_dirty_gv, gv_index, ctx, curctx,
                   volatile>>

\* The next access of the task.
Access == /\ pc = "run" /\ body # NoBody
          /\ body.ops # <<>>
          /\ LET a == Head(body.ops)
             IN  \/ a.op = "read" /\ Read(a.var)
                 \/ a.op = "write" /\ (Write(a.var, a.val) \/ WriteInPlace(a.var, a.val))
          /\ body' = [body EXCEPT !.ops = Tail(@)]
          /\ UNCHANGED tasksVars

\* TRANSITION_TO() at the end of the task.
End == /\ pc = "run" /\ body # NoBody
       /\ body.ops = <<>>
       /\ Finish(body.next)
       /\ body' = NoBody
       /\ UNCHANGED tasksVars

\* From here on the attempt counts: what it listed and what it wrote in place.
Switch == /\ SwitchContext
          /\ store' = [v \in Var |-> IF v \in Listed THEN bak[v] ELSE mem[v]]
          /\ current' = task'
          /\ UNCHANGED body

\* memcpy() stores the low byte of a word first.
TornWord(old, new) == (old - (old % 256)) + (new % 256)

CuckooFailure ==
    /\ \/ PowerFail
       \/ pc = "copy" /\ LET v == data_dest[gv_index] IN TornCopy(TornWord(mem[v], bak[v]))
       \/ \E v \in Arr, n \in 0..MaxBoots : TornClear(v, n)
    /\ body' = NoBody
    /\ UNCHANGED tasksVars

CuckooNext == \/ Begin \/ Access \/ End \/ Switch
              \/ /\ \/ Prologue
                    \/ (Privatize \/ PreCommit) /\ InOrder
                    \/ GbufEntry \/ GbufCount \/ MarkDirty
                    \/ SetTask \/ SetFlag
                 /\ UNCHANGED <<body, tasksVars>>
              \/ CuckooFailure

CuckooSpec == CuckooInit /\ [][CuckooNext]_allVars
-----------------------------------------------------------------------------
\* However the power fails, the program runs as if each task ran once, as a
\* whole: the tasks and the memory they hand over are those of CuckooTasks.
RunsAsTasks == TasksInit /\ [][TasksNext]_tasksVars /\ [](current = task)

\* When task_done() runs, the memory is the one the completed tasks left, and
\* in it at least as many keys were found as were inserted with success.
FinalCounts ==
    pc = "run" /\ task = task_done =>
        mem = store /\ mem[member_count] >= mem[inserted_count]
-----------------------------------------------------------------------------
(* The inductive invariant.                                                *)

\* The variables the accesses ops write, and those of them the task that runs
\* writes in place, whatever rand() returns.
Written(ops) == {ops[i].var : i \in {j \in DOMAIN ops : ops[j].op = "write"}}
InPlace == Written(Script(current, store, 0).ops) \ War[current]

\* What interrupted attempts leave behind is in variables the task writes
\* before it ends.
Leftovers ==
    \A v \in Var : CommittedStore[v] # store[v] => current # task_done /\ v \in InPlace

\* Accesses that store words.
WordAccesses == [op : {"read", "write"}, var : Var, val : Word]

\* An attempt that has begun sees what takes it to the memory an
\* uninterrupted run of the task ends with.
Attempting ==
    body # NoBody =>
        /\ current # task_done
        /\ pc = "run" \/ (pc \in {"entry", "count", "mark"} /\ arg \in Arr)
        /\ body \in [ops : Seq(WordAccesses), next : Task]
        /\ Written(body.ops) \ War[current] \subseteq InPlace
        /\ \E coin \in {0, 1} : LET s == Script(current, store, coin)
                               IN  /\ After(AttemptView, body.ops) = After(store, s.ops)
                                   /\ body.next = s.next

\* The same of one whose body is over.
Finishing ==
    \/ pc \in {"precommit", "setTask", "setFlag", "switch"}
    \/ pc \in {"entry", "count"} /\ arg \in Scal
Finished ==
    Finishing =>
        /\ current # task_done
        /\ body = NoBody
        /\ \E coin \in {0, 1} : LET s == Script(current, store, coin)
                               IN  AttemptView = After(store, s.ops) /\ nextTask = s.next

\* Before it begins, an attempt sees what the completed tasks left behind.
Fresh == body = NoBody /\ ~Finishing => /\ pc \notin {"entry", "count", "mark"}
                                        /\ AttemptView = CommittedStore

CuckooInv == /\ IInv /\ TasksInv /\ current = task
             /\ Leftovers /\ Attempting /\ Finished /\ Fresh
=============================================================================
