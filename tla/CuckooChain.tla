----------------------------- MODULE CuckooChain -----------------------------
(***************************************************************************)
(* The cuckoo filter application on Chain.  The filter is in three         *)
(* multicast channels, as task_init made it, as task_add changed it and as *)
(* task_relocate did, and in self channels of the latter two; a task that  *)
(* reads a bucket syncs with those it names.                               *)
(***************************************************************************)
EXTENDS ChainProgram, CuckooHash

CONSTANTS NUM_INSERTS, MAX_RELOCATIONS

VARIABLE out
vars == <<task, time, chan, out>>

init_key == 1
next_key(k) == ((k + 1) * 17) % 65536

ch_key == MC_CH("ch_key", "task_generate_key")
ch_filter == MC_CH("ch_filter", "task_init")
ch_filter_add == MC_CH("ch_filter_add", "task_add")
ch_filter_relocate == MC_CH("ch_filter_relocate", "task_relocate")
call_ch == CALL_CH("ch_calc_indexes")
ret_ch == RET_CH("ch_calc_indexes")

Init == ChainInit /\ out = <<>>

Enter == /\ At("_entry_task")
         /\ TRANSITION_TO("task_init", NoOutput)
         /\ UNCHANGED out

TaskInit ==
    LET insert_done == {CH("task_init", "task_insert_done")}
        lookup_done == {CH("task_init", "task_lookup_done")}
        generate_key == {CH("task_init", "task_generate_key")}
    IN  /\ At("task_init")
        /\ TRANSITION_TO("task_generate_key",
               CHAN_OUT_ARRAY("filter", [i \in 0..NUM_BUCKETS-1 |-> 0], {ch_filter})
               @@ CHAN_OUT("insert_count", 0, insert_done) @@ CHAN_OUT("lookup_count", 0, lookup_done)
               @@ CHAN_OUT("inserted_count", 0, insert_done) @@ CHAN_OUT("member_count", 0, lookup_done)
               @@ CHAN_OUT("key", init_key, generate_key) @@ CHAN_OUT("next_task", "task_insert", generate_key))
        /\ UNCHANGED out

GenerateKey ==
    LET from_init == CH("task_init", "task_generate_key")
        from_insert == CH("task_insert_done", "task_generate_key")
    IN  /\ At("task_generate_key")
        /\ \E key \in CHAN_IN("key", <<from_init, from_insert, CH("task_lookup_done", "task_generate_key"),
                                       SELF_CH("task_generate_key")>>),
              next_task \in CHAN_IN("next_task", <<from_init, from_insert>>) :
             TRANSITION_TO(next_task, CHAN_OUT("key", next_key(key), {ch_key, SELF_CH("task_generate_key")}))
        /\ UNCHANGED out

CalcIndexes ==
    /\ At("task_calc_indexes")
    /\ \E key \in CHAN_IN("key", <<call_ch>>) :
         TRANSITION_TO("task_calc_indexes_index_1",
             CHAN_OUT("fingerprint", hash_to_fingerprint(key),
                      {CH("task_calc_indexes", "task_calc_indexes_index_2"), ret_ch}))
    /\ UNCHANGED out

CalcIndex1 ==
    /\ At("task_calc_indexes_index_1")
    /\ \E key \in CHAN_IN("key", <<call_ch>>) :
         TRANSITION_TO("task_calc_indexes_index_2",
             CHAN_OUT("index1", hash_to_index(key),
                      {CH("task_calc_indexes_index_1", "task_calc_indexes_index_2"), ret_ch}))
    /\ UNCHANGED out

CalcIndex2 ==
    /\ At("task_calc_indexes_index_2")
    /\ \E fp \in CHAN_IN("fingerprint", <<CH("task_calc_indexes", "task_calc_indexes_index_2")>>),
          index1 \in CHAN_IN("index1", <<CH("task_calc_indexes_index_1", "task_calc_indexes_index_2")>>),
          next_task \in CHAN_IN("next_task", <<call_ch>>) :
         TRANSITION_TO(next_task, CHAN_OUT("index2", xor(index1, hash_to_index(fp)), {ret_ch}))
    /\ UNCHANGED out

Insert ==
    /\ At("task_insert")
    /\ \E key \in CHAN_IN("key", <<ch_key>>) :
         TRANSITION_TO("task_calc_indexes",
             CHAN_OUT("key", key, {call_ch}) @@ CHAN_OUT("next_task", "task_add", {call_ch}))
    /\ UNCHANGED out

\* A bucket as task_add sees it: not as task_relocate may have left it.
SeenByAdd(i) == CHAN_IN_ELEM("filter", i, <<ch_filter, SELF_CH("task_add")>>)

Add ==
    LET put(i, fp) == CHAN_OUT_ELEM("filter", i, fp, {ch_filter_add, SELF_CH("task_add")})
        done == CHAN_OUT("success", 1, {CH("task_add", "task_insert_done")})
        to_relocate == {CH("task_add", "task_relocate")}
        evict(i, victim) == CHAN_OUT("index_victim", i, to_relocate) @@ CHAN_OUT("fp_victim", victim, to_relocate)
                            @@ CHAN_OUT("relocation_count", 0, to_relocate)
    IN  /\ At("task_add")
        /\ \E fp \in CHAN_IN("fingerprint", <<ret_ch>>), index1 \in CHAN_IN("index1", <<ret_ch>>) :
           \E fp1 \in SeenByAdd(index1) :
             \/ /\ fp1 = 0
                /\ TRANSITION_TO("task_insert_done", put(index1, fp) @@ done)
             \/ /\ fp1 # 0
                /\ \E index2 \in CHAN_IN("index2", <<ret_ch>>) : \E fp2 \in SeenByAdd(index2) :
                     \/ /\ fp2 = 0
                        /\ TRANSITION_TO("task_insert_done", put(index2, fp) @@ done)
                     \/ /\ fp2 # 0   \* rand() % 2
                        /\ \/ TRANSITION_TO("task_relocate", put(index1, fp) @@ evict(index1, fp1))
                           \/ TRANSITION_TO("task_relocate", put(index2, fp) @@ evict(index2, fp2))
        /\ UNCHANGED out

Relocate ==
    LET self == SELF_CH("task_relocate")
        from_add == <<CH("task_add", "task_relocate"), self>>
        success(x) == CHAN_OUT("success", x, {CH("task_relocate", "task_insert_done")})
    IN  /\ At("task_relocate")
        /\ \E fp_victim \in CHAN_IN("fp_victim", from_add), index1_victim \in CHAN_IN("index_victim", from_add) :
             LET index2_victim == xor(index1_victim, hash_to_index(fp_victim))
                 place == CHAN_OUT_ELEM("filter", index2_victim, fp_victim, {ch_filter_relocate, self})
             IN  \E fp_next_victim \in CHAN_IN_ELEM("filter", index2_victim, <<ch_filter, ch_filter_add, self>>) :
                   \/ /\ fp_next_victim = 0
                      /\ TRANSITION_TO("task_insert_done", place @@ success(1))
                   \/ /\ fp_next_victim # 0
                      /\ \E relocation_count \in CHAN_IN("relocation_count", from_add) :
                           IF relocation_count >= MAX_RELOCATIONS
                           THEN TRANSITION_TO("task_insert_done", place @@ success(0))
                           ELSE TRANSITION_TO("task_relocate",
                                    place @@ CHAN_OUT("relocation_count", relocation_count + 1, {self})
                                    @@ CHAN_OUT("index_victim", index2_victim, {self})
                                    @@ CHAN_OUT("fp_victim", fp_next_victim, {self}))
        /\ UNCHANGED out

InsertDone ==
    LET self == SELF_CH("task_insert_done")
        counts == <<CH("task_init", "task_insert_done"), self>>
        to_generate_key == {CH("task_insert_done", "task_generate_key")}
    IN  /\ At("task_insert_done")
        /\ \E insert_count \in CHAN_IN("insert_count", counts),
              inserted_count \in CHAN_IN("inserted_count", counts),
              success \in CHAN_IN("success", <<CH("task_add", "task_insert_done"),
                                               CH("task_relocate", "task_insert_done")>>) :
             LET counted == CHAN_OUT("insert_count", insert_count + 1, {self})
                            @@ CHAN_OUT("inserted_count", inserted_count + success, {self})
             IN  TRANSITION_TO("task_generate_key",
                     IF insert_count + 1 < NUM_INSERTS
                     THEN counted @@ CHAN_OUT("next_task", "task_insert", to_generate_key)
                     ELSE counted @@ CHAN_OUT("inserted_count", inserted_count + success,
                                              {CH("task_insert_done", "task_print_stats")})
                          @@ CHAN_OUT("key", init_key, to_generate_key)
                          @@ CHAN_OUT("next_task", "task_lookup", to_generate_key))
        /\ UNCHANGED out

Lookup ==
    /\ At("task_lookup")
    /\ \E key \in CHAN_IN("key", <<ch_key>>) :
         TRANSITION_TO("task_calc_indexes",
             CHAN_OUT("key", key, {call_ch, CH("task_lookup", "task_lookup_done")})
             @@ CHAN_OUT("next_task", "task_lookup_search", {call_ch}))
    /\ UNCHANGED out

\* A bucket as the tasks after the insertions see it.
Bucket(i) == CHAN_IN_ELEM("filter", i, <<ch_filter, ch_filter_add, ch_filter_relocate>>)

LookupSearch ==
    /\ At("task_lookup_search")
    /\ \E index1 \in CHAN_IN("index1", <<ret_ch>>), index2 \in CHAN_IN("index2", <<ret_ch>>),
          fp \in CHAN_IN("fingerprint", <<ret_ch>>) :
       \E fp1 \in Bucket(index1), fp2 \in Bucket(index2) :
         TRANSITION_TO("task_lookup_done",
             CHAN_OUT("member", IF fp \in {fp1, fp2} THEN 1 ELSE 0, {CH("task_lookup_search", "task_lookup_done")}))
    /\ UNCHANGED out

LookupDone ==
    LET self == SELF_CH("task_lookup_done")
        counts == <<CH("task_init", "task_lookup_done"), self>>
    IN  /\ At("task_lookup_done")
        /\ \E member \in CHAN_IN("member", <<CH("task_lookup_search", "task_lookup_done")>>),
              lookup_count \in CHAN_IN("lookup_count", counts), member_count \in CHAN_IN("member_count", counts) :
             LET counted == CHAN_OUT("lookup_count", lookup_count + 1, {self})
                            @@ CHAN_OUT("member_count", member_count + member, {self})
             IN  IF lookup_count + 1 < NUM_INSERTS
                 THEN TRANSITION_TO("task_generate_key",
                          counted @@ CHAN_OUT("next_task", "task_lookup", {CH("task_lookup_done", "task_generate_key")}))
                 ELSE TRANSITION_TO("task_print_stats",
                          counted @@ CHAN_OUT("member_count", member_count + member,
                                              {CH("task_lookup_done", "task_print_stats")}))
        /\ UNCHANGED out

PrintStats ==
    /\ At("task_print_stats")
    /\ \E inserted_count \in CHAN_IN("inserted_count", <<CH("task_insert_done", "task_print_stats")>>),
          member_count \in CHAN_IN("member_count", <<CH("task_lookup_done", "task_print_stats")>>),
          filter \in CHAN_IN_ARRAY("filter", 0..NUM_BUCKETS-1, <<ch_filter, ch_filter_add, ch_filter_relocate>>) :
         out' = [inserted |-> inserted_count, members |-> member_count, filter |-> filter]
    /\ TRANSITION_TO("exit", NoOutput)

Next == \/ Enter    \/ TaskInit     \/ GenerateKey \/ CalcIndexes \/ CalcIndex1   \/ CalcIndex2
        \/ Insert   \/ Add          \/ Relocate    \/ InsertDone  \/ Lookup
        \/ LookupSearch             \/ LookupDone  \/ PrintStats

Spec == Init /\ [][Next]_vars
-----------------------------------------------------------------------------
\* At least as many keys are found as were reported as inserted.
NoFalseNegatives == task = "exit" => out.members >= out.inserted
=============================================================================
