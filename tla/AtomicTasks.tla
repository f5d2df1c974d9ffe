---------------------------- MODULE AtomicTasks ----------------------------
(***************************************************************************)
(* What a task-based intermittent runtime promises to the program: a task  *)
(* either takes effect as a whole, together with the choice of the task    *)
(* that follows it, or not at all, however often the power fails.          *)
(*                                                                         *)
(* store is the memory the last completed task left behind, task the one   *)
(* to run next.  An attempt of task works on view, a copy of the store     *)
(* that nobody else sees; completing it turns the view into the store, a   *)
(* power failure forgets it.  reg is the value the last read returned.     *)
(***************************************************************************)

CONSTANTS
    Var,         \* the task-shared variables (GLOBAL_SB in the application)
    Value,       \* what they hold
    InitValue,   \* their value when the device is first powered
    Task,        \* the tasks of the application
    InitTask,    \* the task the device starts with
    War          \* War[t]: the variables t may write

VARIABLES store, task, view, reg

vars == <<store, task, view, reg>>

TypeOK == /\ store \in [Var -> Value]
          /\ task \in Task
          /\ view \in [Var -> Value]
          /\ reg \in Value

Init == /\ store = [v \in Var |-> InitValue]
        /\ task = InitTask
        /\ view = store
        /\ reg = InitValue

Read(v) == /\ reg' = view[v]
           /\ UNCHANGED <<store, task, view>>

Write(v, x) == /\ v \in War[task]
               /\ view' = [view EXCEPT ![v] = x]
               /\ UNCHANGED <<store, task, reg>>

\* The attempt completes: everything it wrote becomes visible at once.
Complete(t) == /\ store' = view
               /\ task' = t
               /\ UNCHANGED <<view, reg>>

\* Power fails: the attempt is forgotten and the same task starts over.
PowerFail == /\ view' = store
             /\ reg' = InitValue
             /\ UNCHANGED <<store, task>>

Next == \/ \E v \in Var : Read(v)
        \/ \E v \in Var, x \in Value : Write(v, x)
        \/ \E t \in Task : Complete(t)
        \/ PowerFail

Spec == Init /\ [][Next]_vars
=============================================================================
