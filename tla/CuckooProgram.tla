--------------------------- MODULE CuckooProgram ---------------------------
(***************************************************************************)
(* The cuckoo filter application, src/src/main_cuckoo_alpaca.c: what each task *)
(* does to the task-shared variables, as the list of its accesses in       *)
(* program order, given the memory it starts from.                         *)
(***************************************************************************)
EXTENDS CuckooHash, Sequences

CONSTANTS
    NUM_INSERTS,      \* NUM_BUCKETS / 4 in the code; NUM_LOOKUPS is the same
    MAX_RELOCATIONS   \* 8 in the code

ASSUME BucketsAssumption ==
    NUM_BUCKETS \in {1, 2, 4, 8, 16, 32, 64, 128, 256, 512, 1024, 2048, 4096, 8192, 16384, 32768}
ASSUME CountsAssumption == NUM_INSERTS \in Word \ {0} /\ MAX_RELOCATIONS \in Word

init_key == 1   \* seeds the sequence of keys

\* The tasks, by the index the TASK declarations give them; ENTRY_TASK is 0.
entry_task == 0
task_init == 1              task_generate_key == 2      task_insert == 3
task_calc_indexes == 4      task_calc_indexes_index_1 == 5
task_calc_indexes_index_2 == 6
task_add == 7               task_relocate == 8          task_insert_done == 9
task_lookup == 10           task_lookup_search == 11    task_lookup_done == 12
task_print_stats == 13      task_done == 14

\* The variables: elements of the array filter, and scalars.
filter(i) == <<"filter", i>>
Filter == {filter(i) : i \in 0..NUM_BUCKETS-1}
key == <<"key">>                     next_task == <<"next_task">>
fingerprint == <<"fingerprint">>     index1 == <<"index1">>
index2 == <<"index2">>               relocation_count == <<"relocation_count">>
insert_count == <<"insert_count">>   inserted_count == <<"inserted_count">>
lookup_count == <<"lookup_count">>   member_count == <<"member_count">>
success == <<"success">>             member == <<"member">>
Scalars == {key, next_task, fingerprint, index1, index2, relocation_count, insert_count,
            inserted_count, lookup_count, member_count, success, member}
-----------------------------------------------------------------------------
\* GV(key) = (GV(key) + 1) * 17
next_key(k) == ((k + 1) * 17) % 65536
-----------------------------------------------------------------------------
read(v) == <<[op |-> "read", var |-> v, val |-> 0]>>
write(v, x) == <<[op |-> "write", var |-> v, val |-> x]>>
script(ops, t) == [ops |-> ops, next |-> t]
flag(b) == IF b THEN 1 ELSE 0

\* ENTRY_TASK(task_init)
Enter == script(<<>>, task_init)

\* n buckets are cleared.
Initialize(n) ==
    script([i \in 1..n |-> write(filter(i - 1), 0)[1]]
             \o write(insert_count, 0) \o write(lookup_count, 0)
             \o write(inserted_count, 0) \o write(member_count, 0)
             \o write(key, init_key) \o write(next_task, task_insert),
           task_generate_key)

GenerateKey(m) == script(write(key, next_key(m[key])), m[next_task])

CalcIndexes(m) ==
    script(write(fingerprint, hash_to_fingerprint(m[key])), task_calc_indexes_index_1)

CalcIndex1(m) == script(write(index1, hash_to_index(m[key])), task_calc_indexes_index_2)

CalcIndex2(m) ==
    script(write(index2, xor(m[index1], hash_to_index(m[fingerprint]))), m[next_task])

Insert == script(write(next_task, task_add), task_calc_indexes)

\* task_add(): the fingerprint goes to the first of its buckets that is free
\* (whose word is 0), or takes the place of the victim rand() % 2 picks.
Add(m, coin) ==
    LET fp == m[fingerprint]
        at1 == read(filter(m[index1]))
        at2 == read(filter(m[index2]))
        fill(tests, i) ==
            script(tests \o write(success, 1) \o write(filter(i), fp), task_insert_done)
        evict(i) ==
            script(at1 \o at2 \o read(filter(i)) \o write(filter(i), fp) \o write(index1, i)
                     \o write(fingerprint, m[filter(i)]) \o write(relocation_count, 0),
                   task_relocate)
    IN  IF m[filter(m[index1])] = 0 THEN fill(at1, m[index1])
        ELSE IF m[filter(m[index2])] = 0 THEN fill(at1 \o at2, m[index2])
        ELSE evict(IF coin = 1 THEN m[index1] ELSE m[index2])

\* (Bug) The victim is sent to the second bucket of the inserted key.
index2_victim_Other(m) == m[index2]

\* task_relocate(): the other bucket of the victim.
index2_victim(m) == xor(m[index1], hash_to_index(m[fingerprint]))
slot(m) == filter(index2_victim(m))

\* (Bug) The outcome of an earlier insertion is left in success.
GiveUp_Silent(m) == script(read(slot(m)), task_insert_done)

\* The insertion failed.
GiveUp(m) == script(read(slot(m)) \o write(success, 0), task_insert_done)

\* (Bug) The relocation is not counted.
MoveOn_Uncounted(m) ==
    script(read(slot(m)) \o write(index1, index2_victim(m)) \o write(fingerprint, m[slot(m)])
             \o write(slot(m), m[fingerprint]), task_relocate)

\* The victim takes the place of the next one.
MoveOn(m) ==
    script(read(slot(m)) \o write(relocation_count, m[relocation_count] + 1)
             \o write(index1, index2_victim(m)) \o read(slot(m))
             \o write(fingerprint, m[slot(m)]) \o write(slot(m), m[fingerprint]), task_relocate)

Relocate(m) ==
    IF m[slot(m)] = 0
    THEN script(read(slot(m)) \o write(success, 1) \o write(slot(m), m[fingerprint]),
                task_insert_done)
    ELSE IF m[relocation_count] >= MAX_RELOCATIONS THEN GiveUp(m) ELSE MoveOn(m)

InsertDone(m) ==
    LET counted == write(insert_count, m[insert_count] + 1)
                   \o write(inserted_count, m[inserted_count] + m[success])
    IN  IF m[insert_count] + 1 < NUM_INSERTS
        THEN script(counted \o write(next_task, task_insert), task_generate_key)
        ELSE script(counted \o write(next_task, task_lookup) \o write(key, init_key),
                    task_generate_key)

Lookup == script(write(next_task, task_lookup_search), task_calc_indexes)

\* (Bug) Looks into one bucket only.
IsMember_First(m) == m[filter(m[index1])] = m[fingerprint]

IsMember(m) == m[fingerprint] \in {m[filter(m[index1])], m[filter(m[index2])]}

LookupSearch(m) == script(write(member, flag(IsMember(m))), task_lookup_done)

LookupDone(m) ==
    LET counted == write(lookup_count, m[lookup_count] + 1)
                   \o write(member_count, m[member_count] + m[member])
    IN  IF m[lookup_count] + 1 < NUM_INSERTS
        THEN script(counted \o write(next_task, task_lookup), task_generate_key)
        ELSE script(counted, task_print_stats)

\* What task t does when it starts from memory m and rand() % 2 gives coin.
Script(t, m, coin) ==
    CASE t = entry_task                -> Enter
      [] t = task_init                 -> Initialize(NUM_BUCKETS)
      [] t = task_generate_key         -> GenerateKey(m)
      [] t = task_insert               -> Insert
      [] t = task_calc_indexes         -> CalcIndexes(m)
      [] t = task_calc_indexes_index_1 -> CalcIndex1(m)
      [] t = task_calc_indexes_index_2 -> CalcIndex2(m)
      [] t = task_add                  -> Add(m, coin)
      [] t = task_relocate             -> Relocate(m)
      [] t = task_insert_done          -> InsertDone(m)
      [] t = task_lookup               -> Lookup
      [] t = task_lookup_search        -> LookupSearch(m)
      [] t = task_lookup_done          -> LookupDone(m)
      [] t = task_print_stats          -> script(<<>>, task_done)
=============================================================================
