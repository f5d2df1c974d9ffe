------------------------------ MODULE Bitcount ------------------------------
(***************************************************************************)
(* The bit count application on Alpaca: seven ways of counting the bits of *)
(* ITER words, one after the other, a task for each and a step for each    *)
(* word.  Tasks take effect as a whole, which AlpacaRuntime shows.         *)
(***************************************************************************)
EXTENDS BitCounts

VARIABLES
    task,   \* the task to run
    mem,    \* the global variables
    out     \* what the program has printed

vars == <<task, mem, out>>

Counters == <<"task_bit_count", "task_bitcount", "task_ntbl_bitcnt", "task_ntbl_bitcount",
              "task_BW_btbl_bitcount", "task_AR_btbl_bitcount", "task_bit_shifter">>
Counter(func) == Counters[func + 1]

At(t) == task = t
TRANSITION_TO(t) == task' = t

Init == /\ task = "_entry_task"
        /\ mem = [n |-> [f \in Funcs |-> 0], func |-> 0, seed |-> 0, iter |-> 0]
        /\ out = <<>>

Enter == /\ At("_entry_task")
         /\ TRANSITION_TO("task_init")
         /\ UNCHANGED <<mem, out>>

TaskInit == /\ At("task_init")
            /\ mem' = [mem EXCEPT !.func = 0, !.n = [f \in Funcs |-> 0]]
            /\ TRANSITION_TO("task_select_func")
            /\ UNCHANGED out

SelectFunc ==
    /\ At("task_select_func")
    /\ mem' = [mem EXCEPT !.seed = SEED, !.iter = 0,
                          !.func = IF @ \in Funcs THEN @ + 1 ELSE @]
    /\ TRANSITION_TO(IF mem.func \in Funcs THEN Counter(mem.func) ELSE "task_end")
    /\ UNCHANGED out

CountBits(f) ==
    /\ At(Counter(f))
    /\ mem' = [mem EXCEPT !.n[f] = @ + Count(f, mem.seed),
                          !.seed = @ + 13,
                          !.iter = @ + 1]
    /\ TRANSITION_TO(IF mem.iter + 1 < ITER THEN Counter(f) ELSE "task_select_func")
    /\ UNCHANGED out

TaskEnd == /\ At("task_end")
           /\ out' = mem.n
           /\ TRANSITION_TO("exit")
           /\ UNCHANGED mem

Next == \/ Enter
        \/ TaskInit
        \/ SelectFunc
        \/ \E f \in Funcs : CountBits(f)
        \/ TaskEnd

Spec == Init /\ [][Next]_vars
=============================================================================
