---------------------------- MODULE CuckooTasks ----------------------------
(***************************************************************************)
(* The cuckoo filter application as its author sees it: tasks that run     *)
(* one after the other, each as a whole.  It inserts a sequence of keys    *)
(* and then looks all of them up.                                          *)
(***************************************************************************)
EXTENDS CuckooProgram, FiniteSets

VARIABLES
    store,    \* the memory the last task left behind
    current   \* the task to run next

tasksVars == <<store, current>>

TasksTypeOK == /\ store \in [Filter \cup Scalars -> Word]
               /\ current \in entry_task..task_done

TasksInit == /\ store = [v \in Filter \cup Scalars |-> 0]
             /\ current = entry_task

\* Memory m after the accesses ops: the last write to a variable counts.
After(m, ops) ==
    [v \in DOMAIN m |->
        LET writes == {i \in DOMAIN ops : ops[i].op = "write" /\ ops[i].var = v}
        IN  IF writes = {} THEN m[v]
            ELSE ops[CHOOSE i \in writes : \A j \in writes : j <= i].val]

RunTask(t) ==
    /\ current = t
    /\ \E s \in {Script(t, store, coin) : coin \in {0, 1}} :
         /\ store' = After(store, s.ops)
         /\ current' = s.next

TasksNext == \E t \in entry_task..task_print_stats : RunTask(t)

TasksSpec == TasksInit /\ [][TasksNext]_tasksVars /\ WF_tasksVars(TasksNext)
-----------------------------------------------------------------------------
\* The sequence of the keys.
K[n \in 0..NUM_INSERTS] == IF n = 0 THEN init_key ELSE next_key(K[n-1])

\* The buckets that may hold the fingerprint of key k.
Buckets(k) == LET i == hash_to_index(k)
              IN  {i, xor(i, hash_to_index(hash_to_fingerprint(k)))}

Occupied == {v \in Filter : store[v] # 0}

\* No insertion has failed so far.
Lossless == /\ store[insert_count] = store[inserted_count]
            /\ current = task_insert_done => store[success] = 1

\* The occupied buckets are as many as the insertions reported as successful:
\* a chain of relocations neither duplicates nor drops a fingerprint, and one
\* that gives up drops exactly one for the one it put in.
OccupiedIsInserted ==
    Cardinality(Occupied) =
        store[inserted_count] + (IF current = task_insert_done THEN store[success] ELSE 0)

\* While no insertion has failed, the fingerprint of every key inserted so far
\* is in one of the two buckets a lookup of the key examines, or it is the
\* victim on its way out of one of them.
NoKeyLost ==
    Lossless =>
        \A n \in 1..store[insert_count] :
            LET k == K[n]
                fp == hash_to_fingerprint(k)
            IN  \/ \E i \in Buckets(k) : store[filter(i)] = fp
                \/ /\ current = task_relocate
                   /\ store[fingerprint] = fp
                   /\ store[index1] \in Buckets(k)

\* There are no false negatives: of the keys looked up at the end at least as
\* many are found as were inserted, so that only an insertion that gave up,
\* and lost a fingerprint, can make a lookup fail.
NoFalseNegatives ==
    current = task_done => store[member_count] >= store[inserted_count]

\* Chains of relocations end, and so does the program.
Terminates == <>(current = task_done)
-----------------------------------------------------------------------------
(* The inductive invariant.                                                *)

Calculating == {task_calc_indexes, task_calc_indexes_index_1, task_calc_indexes_index_2}

Inserting == \/ current \in {task_insert, task_add, task_relocate, task_insert_done}
             \/ current = task_generate_key /\ store[next_task] = task_insert
             \/ current \in Calculating /\ store[next_task] = task_add
LookingUp == \/ current \in {task_lookup, task_lookup_search, task_lookup_done}
             \/ current = task_generate_key /\ store[next_task] = task_lookup
             \/ current \in Calculating /\ store[next_task] = task_lookup_search

\* All keys are inserted before the first is looked up.
CountInv ==
    /\ Inserting \/ LookingUp \/ current \in {entry_task, task_init, task_print_stats, task_done}
    /\ current \in {entry_task, task_init} => \A v \in Filter \cup Scalars : store[v] = 0
    /\ Inserting => /\ store[insert_count] < NUM_INSERTS
                    /\ store[lookup_count] = 0 /\ store[member_count] = 0
    /\ LookingUp => store[insert_count] = NUM_INSERTS /\ store[lookup_count] < NUM_INSERTS
    /\ current \in {task_print_stats, task_done} =>
           store[insert_count] = NUM_INSERTS /\ store[lookup_count] = NUM_INSERTS
    /\ store[inserted_count] <= store[insert_count] /\ store[member_count] <= store[lookup_count]
    /\ current = task_insert_done => store[success] \in {0, 1}
    /\ current = task_relocate => store[relocation_count] <= MAX_RELOCATIONS

\* The key of the insertion or lookup in progress, and what has been
\* calculated from it.
turn == IF Inserting THEN store[insert_count] ELSE store[lookup_count]
KeyInv ==
    /\ current = task_generate_key => store[key] = K[turn]
    /\ current \in {task_insert, task_add, task_relocate, task_insert_done,
                task_lookup, task_lookup_search, task_lookup_done} \cup Calculating =>
           store[key] = K[turn + 1]
    /\ current \in {task_calc_indexes_index_1, task_calc_indexes_index_2, task_add, task_lookup_search} =>
           store[fingerprint] = hash_to_fingerprint(store[key])
    /\ current \in {task_calc_indexes_index_2, task_add, task_lookup_search} =>
           store[index1] = hash_to_index(store[key])
    /\ current \in {task_add, task_lookup_search} =>
           store[index2] = xor(store[index1], hash_to_index(store[fingerprint]))

\* Every bucket in use is the home of a key of its own, the one whose
\* fingerprint it holds and which may be there; so is the victim's last one.
Bucket == 0..NUM_BUCKETS-1
Fits(n, i, fp) == fp = hash_to_fingerprint(K[n]) /\ i \in Buckets(K[n])
Known == store[insert_count] + (IF current \in {task_relocate, task_insert_done} THEN 1 ELSE 0)
IsHome(home) ==
    \A i \in Bucket :
        /\ home[i] = 0 <=> store[filter(i)] = 0
        /\ home[i] # 0 => /\ home[i] \in 1..Known /\ Fits(home[i], i, store[filter(i)])
                          /\ \A j \in Bucket : home[j] = home[i] => j = i
HomeInv ==
    \E home \in [Bucket -> 0..NUM_INSERTS] :
        /\ IsHome(home)
        /\ current = task_relocate =>
               \E n \in 1..Known : /\ Fits(n, store[index1], store[fingerprint])
                                   /\ \A i \in Bucket : home[i] # n

\* What the lookups have counted.
Found(n) == \E i \in Buckets(K[n]) : store[filter(i)] = hash_to_fingerprint(K[n])
MemberInv ==
    /\ store[member_count] = Cardinality({n \in 1..store[lookup_count] : Found(n)})
    /\ current = task_lookup_done => store[member] = flag(Found(store[lookup_count] + 1))

TasksInv == TasksTypeOK /\ CountInv /\ KeyInv /\ HomeInv /\ OccupiedIsInserted /\ MemberInv
=============================================================================
