------------------------- MODULE CuckooAlpacaProofs -------------------------
(***************************************************************************)
(* Proofs about CuckooAlpaca: whatever the power failures, the compiled    *)
(* cuckoo filter runs as CuckooTasks, for every number of buckets, keys    *)
(* and relocations.  AlpacaRuntimeProofs supplies what the runtime does    *)
(* for variables that are privatized, CuckooProofs what the tasks do; this *)
(* module adds the variables that the tasks write in place.                *)
(***************************************************************************)
EXTENDS CuckooAlpaca, AlpacaRuntimeProofs, CuckooProofs

-----------------------------------------------------------------------------
(* Accesses.                                                               *)

\* The variables of the runtime are those of the program, and hold words.
LEMMA TheProgram ==
    /\ Var = Vars /\ Arr = Filter /\ Scal = Scalars /\ Value = Word
    /\ Task = 0..14 /\ NoBody = <<>>
    /\ \A v \in Var, x \in Word : x \in Value /\ x \in Int
BY ProgramAssumption, WordBound
DEF Var, Vars, CuckooTask, NoBody, entry_task, task_done

\* The accesses ops store words, and write the variables W.
Does(ops, W) == ops \in Seq(WordAccesses) /\ Written(ops) = W

\* No access writes nothing.
LEMMA DoesNothing == Does(<<>>, {})
<1>1. {j \in DOMAIN <<>> : <<>>[j].op = "write"} = {}
  <2>1. DOMAIN <<>> = {}
    OBVIOUS
  <2> QED
    BY <2>1
<1>2. Written(<<>>) = {}
  BY <1>1 DEF Written
<1> QED
  BY <1>2 DEF Does

\* Another access adds what it writes.
LEMMA DoesMore ==
    ASSUME NEW ops, NEW W, Does(ops, W), NEW v \in Vars, NEW x \in Word
    PROVE  Does(ops \o write(v, x), W \cup {v}) /\ Does(ops \o read(v), W)
<1> DEFINE n == Len(ops)
           writes(s) == {j \in DOMAIN s : s[j].op = "write"}
<1>1. ops \in Seq(WordAccesses) /\ n \in Nat /\ DOMAIN ops = 1..n /\ Written(ops) = W
  BY DEF Does
<1>2. ASSUME NEW a \in WordAccesses
      PROVE  /\ ops \o <<a>> \in Seq(WordAccesses) /\ DOMAIN (ops \o <<a>>) = 1..(n + 1)
             /\ (ops \o <<a>>)[n+1] = a /\ \A i \in 1..n : (ops \o <<a>>)[i] = ops[i]
  BY <1>1
<1>3. /\ [op |-> "write", var |-> v, val |-> x] \in WordAccesses
      /\ [op |-> "read", var |-> v, val |-> 0] \in WordAccesses
  BY WordBasics, TheProgram DEF WordAccesses
<1>4. ASSUME NEW a \in WordAccesses, a.op = "write"
      PROVE  Written(ops \o <<a>>) = W \cup {a.var}
  <2>1. writes(ops \o <<a>>) = writes(ops) \cup {n + 1}
    BY <1>1, <1>2, <1>4
  <2>2. \A i \in writes(ops) : (ops \o <<a>>)[i] = ops[i]
    BY <1>1, <1>2
  <2>3. Written(ops) = {ops[i].var : i \in writes(ops)}
    BY DEF Written
  <2>4. Written(ops \o <<a>>) = {(ops \o <<a>>)[i].var : i \in writes(ops \o <<a>>)}
    BY DEF Written
  <2> DEFINE more == ops \o <<a>>
             S == writes(ops)
  <2>5. Written(more) = {more[i].var : i \in S \cup {n + 1}}
    BY <2>1, <2>4
  <2>6. more[n+1] = a /\ \A i \in S : more[i] = ops[i]
    BY <1>2, <2>2
  <2>7. W = {ops[i].var : i \in S}
    BY <1>1, <2>3
  <2> HIDE DEF writes, more, S
  <2>8. {more[i].var : i \in S \cup {n + 1}} = {ops[i].var : i \in S} \cup {a.var}
    BY <2>6
  <2> QED
    BY <2>5, <2>7, <2>8 DEF more
<1>5. ASSUME NEW a \in WordAccesses, a.op = "read"
      PROVE  Written(ops \o <<a>>) = W
  <2>1. writes(ops \o <<a>>) = writes(ops)
    BY <1>1, <1>2, <1>5
  <2>2. \A i \in writes(ops) : (ops \o <<a>>)[i] = ops[i]
    BY <1>1, <1>2
  <2>3. Written(ops) = {ops[i].var : i \in writes(ops)}
    BY DEF Written
  <2>4. Written(ops \o <<a>>) = {(ops \o <<a>>)[i].var : i \in writes(ops \o <<a>>)}
    BY DEF Written
  <2> HIDE DEF writes
  <2> QED
    BY <1>1, <2>1, <2>2, <2>3, <2>4
<1> QED
  BY <1>2, <1>3, <1>4, <1>5 DEF Does, write, read

\* The first access of a list.
LEMMA DoesOne ==
    ASSUME NEW v \in Vars, NEW x \in Word
    PROVE  Does(write(v, x), {v}) /\ Does(read(v), {})
<1>1. <<>> \o write(v, x) = write(v, x) /\ <<>> \o read(v) = read(v)
  BY DEF write, read
<1>2. Does(<<>> \o write(v, x), {} \cup {v}) /\ Does(<<>> \o read(v), {})
  BY DoesNothing, DoesMore
<1> QED
  BY <1>1, <1>2

\* Accesses that store words are accesses.
LEMMA DoesAccess ==
    ASSUME NEW ops, NEW W, Does(ops, W)
    PROVE  /\ ops \in Seq(Accesses)
           /\ \A i \in DOMAIN ops : ops[i].var \in Vars /\ ops[i].val \in Word /\ ops[i] \in WordAccesses
<1>1. ops \in Seq(WordAccesses) /\ DOMAIN ops = 1..Len(ops) /\ Len(ops) \in Nat
  BY DEF Does
<1>2. \A a \in WordAccesses : a \in Accesses /\ a.var \in Vars /\ a.val \in Word
  BY WordBound, TheProgram DEF WordAccesses, Accesses
<1>3. \A i \in 1..Len(ops) : ops[i] \in WordAccesses
  BY <1>1
<1>4. ops = [i \in 1..Len(ops) |-> ops[i]]
  BY <1>1
<1>5. \A i \in 1..Len(ops) : ops[i] \in Accesses
  BY <1>2, <1>3
<1> QED
  BY <1>1, <1>2, <1>3, <1>4, <1>5

-----------------------------------------------------------------------------
(* The tasks.                                                              *)

\* What each task privatizes.
LEMMA WarOf ==
    /\ War[task_generate_key] = {key}
    /\ War[task_add] = Filter \cup {fingerprint, index1}
    /\ War[task_relocate] = Filter \cup {fingerprint, index1, relocation_count}
    /\ War[task_insert_done] = {insert_count, inserted_count}
    /\ War[task_lookup_done] = {lookup_count, member_count}
    /\ War[entry_task] = {} /\ War[task_init] = {} /\ War[task_insert] = {}
    /\ War[task_calc_indexes] = {} /\ War[task_calc_indexes_index_1] = {}
    /\ War[task_calc_indexes_index_2] = {} /\ War[task_lookup] = {}
    /\ War[task_lookup_search] = {} /\ War[task_print_stats] = {}
<1> DEFINE W(t) == CASE t = task_generate_key -> {key}
                     [] t = task_add          -> Filter \cup {fingerprint, index1}
                     [] t = task_relocate     -> Filter \cup {fingerprint, index1, relocation_count}
                     [] t = task_insert_done  -> {insert_count, inserted_count}
                     [] t = task_lookup_done  -> {lookup_count, member_count}
                     [] OTHER                 -> {}
<1>1. War = [t \in 0..14 |-> W(t)]
  BY ProgramAssumption, Tasks DEF CuckooWar, CuckooTask
<1>2. \A t \in 0..14 : War[t] = W(t)
  <2> HIDE DEF W
  <2> QED
    BY <1>1
<1>3. /\ W(2) = {key} /\ W(7) = Filter \cup {fingerprint, index1}
      /\ W(8) = Filter \cup {fingerprint, index1, relocation_count}
      /\ W(9) = {insert_count, inserted_count} /\ W(12) = {lookup_count, member_count}
      /\ W(0) = {} /\ W(1) = {} /\ W(3) = {} /\ W(4) = {} /\ W(5) = {} /\ W(6) = {}
      /\ W(10) = {} /\ W(11) = {} /\ W(13) = {}
  BY Tasks
<1> HIDE DEF W
<1> QED
  BY <1>2, <1>3, Tasks

\* Task t stores words, and goes on to a task.  It writes the same variables
\* in place whatever rand() returns, and reads none of them before it does.
Steady(t) ==
    \A coin \in {0, 1} :
        LET s == Script(t, store, coin)
        IN  /\ Does(s.ops, Written(s.ops))
            /\ s.next \in 0..14
            /\ Written(s.ops) \ War[t] = InPlace
            /\ \A m \in [Vars -> Word] :
                   (\A v \in Vars \ InPlace : m[v] = store[v]) => Script(t, m, coin) = s

\* It suffices to know what it writes.
LEMMA SteadyIf ==
    ASSUME NEW t, current = t, NEW P,
           \A coin \in {0, 1} : /\ \E W : Does(Script(t, store, coin).ops, W) /\ W \ War[t] = P
                                /\ Script(t, store, coin).next \in 0..14,
           \A m \in [Vars -> Word] : \A coin \in {0, 1} :
               (\A v \in Vars \ P : m[v] = store[v]) => Script(t, m, coin) = Script(t, store, coin)
    PROVE  Steady(t)
<1>1. ASSUME NEW coin \in {0, 1}
      PROVE  /\ Does(Script(t, store, coin).ops, Written(Script(t, store, coin).ops))
             /\ Written(Script(t, store, coin).ops) \ War[t] = P
  BY DEF Does
<1>2. InPlace = P
  BY <1>1 DEF InPlace
<1> QED
  BY <1>1, <1>2 DEF Steady

\* The memory is one of words.
LEMMA StoreWords ==
    ASSUME TasksInv
    PROVE  /\ store \in [Vars -> Word] /\ TasksTypeOK /\ CountInv /\ KeyInv /\ MemberInv
           /\ \A v \in Scalars : store[v] \in Word /\ store[v] \in Nat
           /\ \A i \in Bucket : store[filter(i)] \in Word
BY Memory, VarsAre DEF TasksInv

\* Indexes of buckets are words.
LEMMA BucketsAreWords == Bucket \subseteq Word
BY Buckets16, BelowIsWord DEF Bucket

\* The two buckets of the key at hand, and the victim's other one.
LEMMA IndexesAreBuckets ==
    ASSUME TasksInv
    PROVE  /\ current = task_calc_indexes_index_2 => store[index1] \in Bucket
           /\ current \in {task_add, task_lookup_search} =>
                  store[index1] \in Bucket /\ store[index2] \in Bucket
           /\ current = task_relocate => store[index1] \in Bucket /\ index2_victim(store) \in Bucket
<1>0. TasksTypeOK /\ CountInv /\ KeyInv /\ store[key] \in Word /\ store[fingerprint] \in Word
  BY StoreWords, ScalarsAre
<1>1. ASSUME current \in {task_calc_indexes_index_2, task_add, task_lookup_search}
      PROVE  store[index1] \in Bucket
  BY <1>0, <1>1, HashRange DEF KeyInv
<1>2. ASSUME current \in {task_add, task_lookup_search} PROVE store[index2] \in Bucket
  <2>1. store[index2] = xor(store[index1], hash_to_index(store[fingerprint]))
    BY <1>0, <1>2 DEF KeyInv
  <2>2. store[index1] \in Bucket /\ hash_to_index(store[fingerprint]) \in Bucket
    BY <1>0, <1>1, <1>2, HashRange
  <2> QED
    BY <2>1, <2>2, XorRange
<1>3. ASSUME current = task_relocate
      PROVE  store[index1] \in Bucket /\ index2_victim(store) \in Bucket
  <2>1. PICK n \in 1..Known : Fits(n, store[index1], store[fingerprint])
    BY <1>3 DEF TasksInv, HomeInv
  <2>2. Inserting /\ turn = store[insert_count] /\ turn \in 0..(NUM_INSERTS - 1)
    BY <1>0, <1>3, Phases DEF Inserting
  <2>3. Known = store[insert_count] + 1
    BY <1>3 DEF Known
  <2>4. n \in 0..NUM_INSERTS
    BY <2>1, <2>2, <2>3, Counts
  <2> QED
    BY <2>1, <2>4, FitsIs DEF index2_victim
<1> QED
  BY <1>1, <1>2, <1>3

\* Task t does s from every memory that agrees with store outside P.
Always(t, P, s) ==
    \A m \in [Vars -> Word] : \A coin \in {0, 1} :
        (\A v \in Vars \ P : m[v] = store[v]) => Script(t, m, coin) = s

\* A task that does the same whatever rand() returns.
LEMMA SteadyWhen ==
    ASSUME NEW t, current = t, NEW ops, NEW next \in 0..14, NEW W, Does(ops, W), NEW P, W \ War[t] = P,
           store \in [Vars -> Word],
           Always(t, P, script(ops, next))
    PROVE  Steady(t)
<1>1. \A coin \in {0, 1} : Script(t, store, coin) = script(ops, next)
  BY DEF Always
<1>2. script(ops, next).ops = ops /\ script(ops, next).next = next
  BY DEF script
<1>3. ASSUME NEW coin \in {0, 1}
      PROVE  /\ \E U : Does(Script(t, store, coin).ops, U) /\ U \ War[t] = P
             /\ Script(t, store, coin).next \in 0..14
  BY <1>1, <1>2
<1>4. \A m \in [Vars -> Word] : \A coin \in {0, 1} :
          (\A v \in Vars \ P : m[v] = store[v]) => Script(t, m, coin) = Script(t, store, coin)
  BY <1>1 DEF Always
<1> QED
  BY <1>3, <1>4, SteadyIf

\* ENTRY_TASK and task_print_stats() access nothing.
LEMMA QuietSteady ==
    ASSUME TasksInv, current \in {entry_task, task_print_stats}
    PROVE  Steady(current)
<1>1. \A m, coin : /\ Script(entry_task, m, coin) = script(<<>>, task_init)
                   /\ Script(task_print_stats, m, coin) = script(<<>>, task_done)
  BY Scripts DEF Enter
<1>2. {} \ War[current] = {}
  OBVIOUS
<1>3. ASSUME current = entry_task PROVE Steady(current)
  <2>1. store \in [Vars -> Word] /\ task_init \in 0..14
    BY StoreWords, Tasks
  <2>2. Always(current, {}, script(<<>>, task_init))
    BY <1>1, <1>3 DEF Always
  <2> QED
    BY <1>2, <2>1, <2>2, DoesNothing, SteadyWhen
<1>4. ASSUME current = task_print_stats PROVE Steady(current)
  <2>1. store \in [Vars -> Word] /\ task_done \in 0..14
    BY StoreWords, Tasks
  <2>2. Always(current, {}, script(<<>>, task_done))
    BY <1>1, <1>4 DEF Always
  <2> QED
    BY <1>2, <2>1, <2>2, DoesNothing, SteadyWhen
<1> QED
  BY <1>3, <1>4

\* task_generate_key()
LEMMA GenerateKeySteady ==
    ASSUME TasksInv, current = task_generate_key
    PROVE  Steady(task_generate_key)
<1>1. store[key] \in Word /\ next_key(store[key]) \in Word
  BY StoreWords, ScalarsAre, HashRange
<1>2. Does(write(key, next_key(store[key])), {key})
  BY <1>1, DoesOne, VarsAre
<1>3. store[next_task] \in {task_insert, task_lookup}
  <2>1. Inserting \/ LookingUp
    BY StoreWords, Tasks DEF CountInv
  <2> QED
    BY <2>1, Tasks DEF Inserting, LookingUp, Calculating
<1>4. ASSUME NEW m \in [Vars -> Word], NEW coin \in {0, 1}, \A v \in Vars \ {} : m[v] = store[v]
      PROVE  Script(task_generate_key, m, coin) = Script(task_generate_key, store, coin)
  BY <1>4, Scripts, VarsAre DEF GenerateKey
<1>5. \A coin : Script(task_generate_key, store, coin)
                    = script(write(key, next_key(store[key])), store[next_task])
  BY Scripts DEF GenerateKey
<1>6. {key} \ War[task_generate_key] = {}
  BY WarOf
<1>11. Always(task_generate_key, {}, script(write(key, next_key(store[key])), store[next_task]))
  <2>1. ASSUME NEW m \in [Vars -> Word], NEW coin \in {0, 1}, \A v \in Vars \ {} : m[v] = store[v]
        PROVE  Script(task_generate_key, m, coin) = script(write(key, next_key(store[key])), store[next_task])
    BY <2>1, <1>4, <1>5
  <2> QED
    BY <2>1 DEF Always
<1>12. store \in [Vars -> Word] /\ store[next_task] \in 0..14
  BY StoreWords, <1>3, Tasks
<1> QED
  BY <1>2, <1>11, <1>12, <1>6, SteadyWhen

\* task_insert() and task_lookup() store next_task.
LEMMA NextTaskSteady ==
    ASSUME TasksInv, current \in {task_insert, task_lookup}
    PROVE  Steady(current)
<1>1. task_add \in Word /\ task_lookup_search \in Word
  BY SmallWords, Tasks
<1>2. Does(write(next_task, task_add), {next_task}) /\ Does(write(next_task, task_lookup_search), {next_task})
  BY <1>1, DoesOne, VarsAre
<1>3. \A m, coin : /\ Script(task_insert, m, coin) = script(write(next_task, task_add), task_calc_indexes)
                   /\ Script(task_lookup, m, coin) = script(write(next_task, task_lookup_search), task_calc_indexes)
  BY Scripts DEF Insert, Lookup
<1>4. {next_task} \ War[current] = {next_task}
  BY WarOf
<1> QED
  BY <1>2, <1>3, <1>4, SteadyIf, Tasks DEF script

\* task_calc_indexes() stores the fingerprint, and reads the key.
LEMMA CalcIndexesSteady ==
    ASSUME TasksInv, current = task_calc_indexes
    PROVE  Steady(task_calc_indexes)
<1>1. store[key] \in Word /\ hash_to_fingerprint(store[key]) \in Word
  BY StoreWords, ScalarsAre, HashRange
<1>2. Does(write(fingerprint, hash_to_fingerprint(store[key])), {fingerprint})
  BY <1>1, DoesOne, VarsAre
<1>3. \A m, coin : Script(task_calc_indexes, m, coin)
                       = script(write(fingerprint, hash_to_fingerprint(m[key])), task_calc_indexes_index_1)
  BY Scripts DEF CalcIndexes
<1>4. {fingerprint} \ War[task_calc_indexes] = {fingerprint}
  BY WarOf
<1>5. key \in Vars \ {fingerprint}
  BY VarsAre, Names
<1>11. Always(task_calc_indexes, {fingerprint}, script(write(fingerprint, hash_to_fingerprint(store[key])), task_calc_indexes_index_1))
  <2>1. ASSUME NEW m \in [Vars -> Word], NEW coin \in {0, 1}, \A v \in Vars \ {fingerprint} : m[v] = store[v]
        PROVE  Script(task_calc_indexes, m, coin) = script(write(fingerprint, hash_to_fingerprint(store[key])), task_calc_indexes_index_1)
    BY <2>1, <1>3, <1>5
  <2> QED
    BY <2>1 DEF Always
<1>12. store \in [Vars -> Word] /\ task_calc_indexes_index_1 \in 0..14
  BY StoreWords, Tasks
<1> QED
  BY <1>2, <1>11, <1>12, <1>4, SteadyWhen

\* task_calc_indexes_index_1() stores index1, and reads the key.
LEMMA CalcIndex1Steady ==
    ASSUME TasksInv, current = task_calc_indexes_index_1
    PROVE  Steady(task_calc_indexes_index_1)
<1>1. store[key] \in Word /\ hash_to_index(store[key]) \in Word
  BY StoreWords, ScalarsAre, HashRange, BucketsAreWords
<1>2. Does(write(index1, hash_to_index(store[key])), {index1})
  BY <1>1, DoesOne, VarsAre
<1>3. \A m, coin : Script(task_calc_indexes_index_1, m, coin)
                       = script(write(index1, hash_to_index(m[key])), task_calc_indexes_index_2)
  BY Scripts DEF CalcIndex1
<1>4. {index1} \ War[task_calc_indexes_index_1] = {index1}
  BY WarOf
<1>5. key \in Vars \ {index1}
  BY VarsAre, Names
<1>11. Always(task_calc_indexes_index_1, {index1}, script(write(index1, hash_to_index(store[key])), task_calc_indexes_index_2))
  <2>1. ASSUME NEW m \in [Vars -> Word], NEW coin \in {0, 1}, \A v \in Vars \ {index1} : m[v] = store[v]
        PROVE  Script(task_calc_indexes_index_1, m, coin) = script(write(index1, hash_to_index(store[key])), task_calc_indexes_index_2)
    BY <2>1, <1>3, <1>5
  <2> QED
    BY <2>1 DEF Always
<1>12. store \in [Vars -> Word] /\ task_calc_indexes_index_2 \in 0..14
  BY StoreWords, Tasks
<1> QED
  BY <1>2, <1>11, <1>12, <1>4, SteadyWhen

\* task_calc_indexes_index_2() stores index2, and reads the other two results
\* and next_task.
LEMMA CalcIndex2Steady ==
    ASSUME TasksInv, current = task_calc_indexes_index_2
    PROVE  Steady(task_calc_indexes_index_2)
<1> DEFINE x(m) == xor(m[index1], hash_to_index(m[fingerprint]))
<1>1. x(store) \in Word
  <2>1. store[index1] \in Bucket /\ store[fingerprint] \in Word
    BY IndexesAreBuckets, StoreWords, ScalarsAre
  <2> QED
    BY <2>1, HashRange, XorRange, BucketsAreWords
<1>2. Does(write(index2, x(store)), {index2})
  BY <1>1, DoesOne, VarsAre
<1>3. store[next_task] \in {task_add, task_lookup_search}
  <2>1. Inserting \/ LookingUp
    BY StoreWords, Tasks DEF CountInv
  <2> QED
    BY <2>1, Tasks DEF Inserting, LookingUp, Calculating
<1>4. \A m, coin : Script(task_calc_indexes_index_2, m, coin) = script(write(index2, x(m)), m[next_task])
  BY Scripts DEF CalcIndex2
<1>5. {index2} \ War[task_calc_indexes_index_2] = {index2}
  BY WarOf
<1>6. {index1, fingerprint, next_task} \subseteq Vars \ {index2}
  BY VarsAre, Names
<1>7. \A m \in [Vars -> Word] : (\A v \in Vars \ {index2} : m[v] = store[v]) =>
          x(m) = x(store) /\ m[next_task] = store[next_task]
  BY <1>6
<1> HIDE DEF x
<1>11. Always(task_calc_indexes_index_2, {index2}, script(write(index2, x(store)), store[next_task]))
  <2>1. ASSUME NEW m \in [Vars -> Word], NEW coin \in {0, 1}, \A v \in Vars \ {index2} : m[v] = store[v]
        PROVE  Script(task_calc_indexes_index_2, m, coin) = script(write(index2, x(store)), store[next_task])
    BY <2>1, <1>4, <1>7
  <2> QED
    BY <2>1 DEF Always
<1>12. store \in [Vars -> Word] /\ store[next_task] \in 0..14
  BY StoreWords, <1>3, Tasks
<1> QED
  BY <1>2, <1>11, <1>12, <1>5, SteadyWhen

\* task_lookup_search() stores member.
LEMMA LookupSearchSteady ==
    ASSUME TasksInv, current = task_lookup_search
    PROVE  Steady(task_lookup_search)
<1> DEFINE x(m) == flag(IsMember(m))
<1>1. \A m : x(m) \in Word
  BY WordBasics DEF flag
<1>2. Does(write(member, x(store)), {member})
  BY <1>1, DoesOne, VarsAre
<1>3. \A m, coin : Script(task_lookup_search, m, coin) = script(write(member, x(m)), task_lookup_done)
  BY Scripts DEF LookupSearch
<1>4. {member} \ War[task_lookup_search] = {member}
  BY WarOf
<1>5. ASSUME NEW m \in [Vars -> Word], \A v \in Vars \ {member} : m[v] = store[v]
      PROVE  x(m) = x(store)
  <2>1. {index1, index2, fingerprint} \subseteq Vars \ {member}
    BY VarsAre, Names
  <2>2. \A i \in Bucket : filter(i) \in Vars \ {member}
    BY VarsAre, Names, ScalarsAre
  <2>3. m[index1] = store[index1] /\ m[index2] = store[index2] /\ m[fingerprint] = store[fingerprint]
    BY <1>5, <2>1
  <2>4. store[index1] \in Bucket /\ store[index2] \in Bucket
    BY IndexesAreBuckets
  <2>5. m[filter(store[index1])] = store[filter(store[index1])] /\ m[filter(store[index2])] = store[filter(store[index2])]
    BY <1>5, <2>2, <2>4
  <2> QED
    BY <2>3, <2>5 DEF IsMember
<1> HIDE DEF x
<1>11. Always(task_lookup_search, {member}, script(write(member, x(store)), task_lookup_done))
  <2>1. ASSUME NEW m \in [Vars -> Word], NEW coin \in {0, 1}, \A v \in Vars \ {member} : m[v] = store[v]
        PROVE  Script(task_lookup_search, m, coin) = script(write(member, x(store)), task_lookup_done)
    BY <2>1, <1>3, <1>5
  <2> QED
    BY <2>1 DEF Always
<1>12. store \in [Vars -> Word] /\ task_lookup_done \in 0..14
  BY StoreWords, Tasks
<1> QED
  BY <1>2, <1>11, <1>12, <1>4, SteadyWhen


\* task_lookup_done() stores next_task unless it looked up the last key.
LEMMA LookupDoneSteady ==
    ASSUME TasksInv, current = task_lookup_done
    PROVE  Steady(task_lookup_done)
<1> DEFINE c == store[lookup_count] + 1
           f == store[member_count] + store[member]
           counted == write(lookup_count, c) \o write(member_count, f)
           C == {lookup_count, member_count}
<1>1. c \in Word /\ f \in Word /\ store[lookup_count] + 1 = c
  <2>1. /\ LookingUp /\ store[lookup_count] \in Nat /\ store[member_count] \in Nat
        /\ store[lookup_count] < NUM_INSERTS /\ store[member_count] <= store[lookup_count]
    BY StoreWords, ScalarsAre, Phases DEF CountInv
  <2>2. store[member] \in {0, 1}
    BY StoreWords DEF MemberInv, flag
  <2>3. c \in Nat /\ f \in Nat /\ c <= NUM_INSERTS /\ f <= NUM_INSERTS
    BY <2>1, <2>2, Counts
  <2> QED
    BY <2>3, CountsAreWords
<1>2. task_lookup \in Word /\ lookup_count \in Vars /\ member_count \in Vars /\ next_task \in Vars
  BY SmallWords, Tasks, VarsAre
<1> HIDE DEF c, f
<1>3. Does(counted, {lookup_count} \cup {member_count})
  BY <1>1, <1>2, DoesOne, DoesMore
<1>4. Does(counted \o write(next_task, task_lookup), ({lookup_count} \cup {member_count}) \cup {next_task})
  BY <1>2, <1>3, DoesMore
<1>5. /\ ({lookup_count} \cup {member_count}) \ War[task_lookup_done] = {}
      /\ (({lookup_count} \cup {member_count}) \cup {next_task}) \ War[task_lookup_done] = {next_task}
  BY WarOf, Names
<1>6. store \in [Vars -> Word] /\ task_generate_key \in 0..14 /\ task_print_stats \in 0..14
  BY StoreWords, Tasks
<1>7. {lookup_count, member_count, member} \subseteq Vars \ {next_task}
  BY VarsAre, Names
<1>8. \A m, coin : (\A v \in Vars \ {next_task} : m[v] = store[v]) =>
          Script(task_lookup_done, m, coin)
              = IF c < NUM_INSERTS
                THEN script(counted \o write(next_task, task_lookup), task_generate_key)
                ELSE script(counted, task_print_stats)
  <2>1. TAKE m, coin
  <2>2. HAVE \A v \in Vars \ {next_task} : m[v] = store[v]
  <2>3. m[lookup_count] = store[lookup_count] /\ m[member_count] = store[member_count] /\ m[member] = store[member]
    BY <1>7, <2>2
  <2> QED
    BY <2>3, Scripts DEF LookupDone, c, f
<1> HIDE DEF counted
<1>9. CASE c < NUM_INSERTS
  <2>1. Always(task_lookup_done, {next_task}, script(counted \o write(next_task, task_lookup), task_generate_key))
    BY <1>8, <1>9 DEF Always
  <2> QED
    BY <1>4, <1>5, <1>6, <2>1, SteadyWhen
<1>10. CASE ~(c < NUM_INSERTS)
  <2>1. ASSUME NEW m \in [Vars -> Word], NEW coin \in {0, 1}, \A v \in Vars \ {} : m[v] = store[v]
        PROVE  Script(task_lookup_done, m, coin) = script(counted, task_print_stats)
    <3>1. \A v \in Vars \ {next_task} : m[v] = store[v]
      BY <2>1
    <3> QED
      BY <1>8, <1>10, <3>1
  <2>2. Always(task_lookup_done, {}, script(counted, task_print_stats))
    BY <2>1 DEF Always
  <2> QED
    BY <1>3, <1>5, <1>6, <2>2, SteadyWhen
<1> QED
  BY <1>9, <1>10

\* task_insert_done() stores next_task, and the first key when it comes to the
\* lookups.
LEMMA InsertDoneSteady ==
    ASSUME TasksInv, current = task_insert_done
    PROVE  Steady(task_insert_done)
<1> DEFINE c == store[insert_count] + 1
           f == store[inserted_count] + store[success]
           counted == write(insert_count, c) \o write(inserted_count, f)
<1>1. c \in Word /\ f \in Word
  <2>1. /\ Inserting /\ store[insert_count] \in Nat /\ store[inserted_count] \in Nat
        /\ store[insert_count] < NUM_INSERTS /\ store[inserted_count] <= store[insert_count]
        /\ store[success] \in {0, 1}
    BY StoreWords, ScalarsAre, Phases DEF CountInv
  <2>2. c \in Nat /\ f \in Nat /\ c <= NUM_INSERTS /\ f <= NUM_INSERTS
    BY <2>1, Counts
  <2> QED
    BY <2>2, CountsAreWords
<1>2. /\ task_lookup \in Word /\ task_insert \in Word /\ init_key \in Word
      /\ insert_count \in Vars /\ inserted_count \in Vars /\ next_task \in Vars /\ key \in Vars
  BY SmallWords, Tasks, VarsAre DEF init_key
<1> HIDE DEF c, f
<1>3. Does(counted, {insert_count} \cup {inserted_count})
  BY <1>1, <1>2, DoesOne, DoesMore
<1>4. /\ Does(counted \o write(next_task, task_insert), ({insert_count} \cup {inserted_count}) \cup {next_task})
      /\ Does(counted \o write(next_task, task_lookup), ({insert_count} \cup {inserted_count}) \cup {next_task})
  BY <1>2, <1>3, DoesMore
<1>5. Does((counted \o write(next_task, task_lookup)) \o write(key, init_key),
           (({insert_count} \cup {inserted_count}) \cup {next_task}) \cup {key})
  BY <1>2, <1>4, DoesMore
<1>6. /\ (({insert_count} \cup {inserted_count}) \cup {next_task}) \ War[task_insert_done] = {next_task}
      /\ ((({insert_count} \cup {inserted_count}) \cup {next_task}) \cup {key}) \ War[task_insert_done] = {next_task, key}
  BY WarOf, Names
<1>7. store \in [Vars -> Word] /\ task_generate_key \in 0..14
  BY StoreWords, Tasks
<1>8. {insert_count, inserted_count, success} \subseteq Vars \ {next_task, key}
  BY VarsAre, Names
<1>9. \A m, coin : (\A v \in Vars \ {next_task, key} : m[v] = store[v]) =>
          Script(task_insert_done, m, coin)
              = IF c < NUM_INSERTS
                THEN script(counted \o write(next_task, task_insert), task_generate_key)
                ELSE script((counted \o write(next_task, task_lookup)) \o write(key, init_key), task_generate_key)
  <2>1. TAKE m, coin
  <2>2. HAVE \A v \in Vars \ {next_task, key} : m[v] = store[v]
  <2>3. m[insert_count] = store[insert_count] /\ m[inserted_count] = store[inserted_count] /\ m[success] = store[success]
    BY <1>8, <2>2
  <2> QED
    BY <2>3, Scripts DEF InsertDone, c, f
<1> HIDE DEF counted
<1>10. CASE c < NUM_INSERTS
  <2>1. ASSUME NEW m \in [Vars -> Word], NEW coin \in {0, 1}, \A v \in Vars \ {next_task} : m[v] = store[v]
        PROVE  Script(task_insert_done, m, coin) = script(counted \o write(next_task, task_insert), task_generate_key)
    <3>1. \A v \in Vars \ {next_task, key} : m[v] = store[v]
      BY <2>1
    <3> QED
      BY <1>9, <1>10, <3>1
  <2>2. Always(task_insert_done, {next_task}, script(counted \o write(next_task, task_insert), task_generate_key))
    BY <2>1 DEF Always
  <2> QED
    BY <1>4, <1>6, <1>7, <2>2, SteadyWhen
<1>11. CASE ~(c < NUM_INSERTS)
  <2>1. Always(task_insert_done, {next_task, key},
               script((counted \o write(next_task, task_lookup)) \o write(key, init_key), task_generate_key))
    BY <1>9, <1>11 DEF Always
  <2> QED
    BY <1>5, <1>6, <1>7, <2>1, SteadyWhen
<1> QED
  BY <1>10, <1>11

\* task_init() clears all buckets and sets what the tasks start from.
LEMMA InitializeSteady ==
    ASSUME TasksInv, current = task_init
    PROVE  Steady(task_init)
<1> DEFINE clear == [i \in 1..NUM_BUCKETS |-> write(filter(i - 1), 0)[1]]
<1>1. Does(clear, Filter)
  <2>1. NUM_BUCKETS \in Nat /\ 0 \in Word /\ \A i \in 1..NUM_BUCKETS : i - 1 \in Bucket
    BY Buckets16, WordBasics DEF Bucket
  <2>2. \A i \in 1..NUM_BUCKETS : filter(i - 1) \in Vars /\ filter(i - 1) \in Filter
    BY <2>1, VarsAre
  <2>3. \A v \in Vars : write(v, 0)[1] = [op |-> "write", var |-> v, val |-> 0]
    BY DEF write
  <2>4. \A i \in 1..NUM_BUCKETS : write(filter(i - 1), 0)[1] = [op |-> "write", var |-> filter(i - 1), val |-> 0]
    BY <2>2, <2>3
  <2>5. \A i \in 1..NUM_BUCKETS : write(filter(i - 1), 0)[1] \in WordAccesses
    <3>1. \A v \in Vars : [op |-> "write", var |-> v, val |-> 0] \in WordAccesses
      BY <2>1, TheProgram DEF WordAccesses
    <3> QED
      BY <2>2, <2>4, <3>1
  <2>6. clear \in [1..NUM_BUCKETS -> WordAccesses]
    BY <2>5
  <2>7. clear \in Seq(WordAccesses)
    BY <2>1, <2>6
  <2>8. \A i \in 1..NUM_BUCKETS : clear[i].op = "write" /\ clear[i].var = filter(i - 1)
    <3>1. \A i \in 1..NUM_BUCKETS : clear[i] = write(filter(i - 1), 0)[1]
      OBVIOUS
    <3>2. \A i \in 1..NUM_BUCKETS : clear[i] = [op |-> "write", var |-> filter(i - 1), val |-> 0]
      BY <2>4, <3>1, Zenon
    <3>3. \A v : [op |-> "write", var |-> v, val |-> 0].op = "write" /\ [op |-> "write", var |-> v, val |-> 0].var = v
      OBVIOUS
    <3> HIDE DEF clear
    <3> QED
      BY <3>2, <3>3, Zenon
  <2>9. DOMAIN clear = 1..NUM_BUCKETS
    OBVIOUS
  <2> HIDE DEF clear
  <2>10. {j \in DOMAIN clear : clear[j].op = "write"} = 1..NUM_BUCKETS
    BY <2>8, <2>9
  <2>11. Written(clear) = {clear[i].var : i \in 1..NUM_BUCKETS}
    BY <2>10 DEF Written
  <2>12. ASSUME NEW v \in Filter PROVE v \in Written(clear)
    <3>1. PICK j \in 0..NUM_BUCKETS-1 : v = filter(j)
      BY DEF Filter
    <3>2. j + 1 \in 1..NUM_BUCKETS /\ (j + 1) - 1 = j
      BY <2>1, <3>1
    <3>3. clear[j + 1].var = filter(j)
      BY <2>8, <3>2
    <3> QED
      BY <2>11, <3>1, <3>2, <3>3
  <2>13. \A v \in Written(clear) : v \in Filter
    BY <2>2, <2>8, <2>11
  <2> QED
    BY <2>7, <2>12, <2>13 DEF Does
<1>2. /\ 0 \in Word /\ init_key \in Word /\ task_insert \in Word
      /\ insert_count \in Vars /\ lookup_count \in Vars /\ inserted_count \in Vars /\ member_count \in Vars
      /\ key \in Vars /\ next_task \in Vars
  BY SmallWords, Tasks, VarsAre DEF init_key
<1> HIDE DEF clear
<1>3. Does((clear \o write(insert_count, 0)) \o write(lookup_count, 0),
           (Filter \cup {insert_count}) \cup {lookup_count})
  <2>1. Does(clear \o write(insert_count, 0), Filter \cup {insert_count})
    BY <1>1, <1>2, DoesMore
  <2> QED
    BY <1>2, <2>1, DoesMore
<1> DEFINE two == (clear \o write(insert_count, 0)) \o write(lookup_count, 0)
           Two == (Filter \cup {insert_count}) \cup {lookup_count}
<1>4. Does(((two \o write(inserted_count, 0)) \o write(member_count, 0)) \o write(key, init_key),
           ((Two \cup {inserted_count}) \cup {member_count}) \cup {key})
  <2> HIDE DEF two, Two
  <2>1. Does(two, Two)
    BY <1>3 DEF two, Two
  <2>2. Does(two \o write(inserted_count, 0), Two \cup {inserted_count})
    BY <1>2, <2>1, DoesMore
  <2>3. Does((two \o write(inserted_count, 0)) \o write(member_count, 0), (Two \cup {inserted_count}) \cup {member_count})
    BY <1>2, <2>2, DoesMore
  <2> QED
    BY <1>2, <2>3, DoesMore
<1> DEFINE five == ((two \o write(inserted_count, 0)) \o write(member_count, 0)) \o write(key, init_key)
           Five == ((Two \cup {inserted_count}) \cup {member_count}) \cup {key}
<1>5. Does(five \o write(next_task, task_insert), Five \cup {next_task})
  <2> HIDE DEF five, Five
  <2>1. Does(five, Five)
    BY <1>4 DEF five, Five
  <2> QED
    BY <1>2, <2>1, DoesMore
<1> DEFINE ops == five \o write(next_task, task_insert)
<1>6. \A m, coin : Script(task_init, m, coin) = script(ops, task_generate_key)
  BY Scripts DEF Initialize, clear
<1> HIDE DEF ops
<1> DEFINE W == Five \cup {next_task}
<1>7. Does(ops, W)
  BY <1>5 DEF ops
<1> HIDE DEF W
<1>8. Always(task_init, W \ War[task_init], script(ops, task_generate_key))
  BY <1>6 DEF Always
<1>9. store \in [Vars -> Word] /\ task_generate_key \in 0..14
  BY StoreWords, Tasks
<1> QED
  BY <1>7, <1>8, <1>9, SteadyWhen

\* No scalar is a bucket.
LEMMA ScalarsApart ==
    /\ \A v \in Scalars : v \notin Filter
    /\ success \notin Filter /\ relocation_count \notin Filter
<1>1. \A v \in Scalars : v \notin Filter
  BY Names DEF Filter
<1> QED
  BY <1>1, ScalarsAre

\* task_add() stores success or relocation_count: what it tests is not among them.
LEMMA AddSteady ==
    ASSUME TasksInv, current = task_add
    PROVE  Steady(task_add)
<1> DEFINE i1 == store[index1]
           i2 == store[index2]
           fp == store[fingerprint]
           at1 == read(filter(i1))
           at2 == read(filter(i2))
<1>1. /\ i1 \in Bucket /\ i2 \in Bucket /\ fp \in Word /\ i1 \in Word /\ i2 \in Word
      /\ \A i \in Bucket : store[filter(i)] \in Word
  BY IndexesAreBuckets, StoreWords, ScalarsAre
<1>2. /\ 0 \in Word /\ 1 \in Word /\ success \in Vars /\ index1 \in Vars /\ fingerprint \in Vars
      /\ relocation_count \in Vars /\ \A i \in Bucket : filter(i) \in Vars /\ filter(i) \in Filter
  BY WordBasics, VarsAre
<1>3. store \in [Vars -> Word] /\ task_insert_done \in 0..14 /\ task_relocate \in 0..14
  BY StoreWords, Tasks
<1>4. ASSUME NEW S, S \in {{success}, {relocation_count}}
      PROVE  /\ {index1, index2, fingerprint} \subseteq Vars \ S
             /\ \A i \in Bucket : filter(i) \in Vars \ S
  BY <1>4, VarsAre, Names, ScalarsAre
<1>5. ASSUME NEW S, S \in {{success}, {relocation_count}}, NEW m, \A v \in Vars \ S : m[v] = store[v], NEW coin
      PROVE  Script(task_add, m, coin) = Script(task_add, store, coin)
  <2>1. m[index1] = i1 /\ m[index2] = i2 /\ m[fingerprint] = fp
    BY <1>4, <1>5
  <2>2. m[filter(i1)] = store[filter(i1)] /\ m[filter(i2)] = store[filter(i2)]
    BY <1>1, <1>4, <1>5
  <2>3. Script(task_add, m, coin) = Add(m, coin) /\ Script(task_add, store, coin) = Add(store, coin)
    BY Scripts
  <2>4. (IF coin = 1 THEN i1 ELSE i2) \in {i1, i2}
    OBVIOUS
  <2>5. Add(m, coin) = Add(store, coin)
    BY <2>1, <2>2, <2>4 DEF Add
  <2> QED
    BY <2>3, <2>5
<1>6. Does(at1, {}) /\ Does(at1 \o at2, {})
  <2> HIDE DEF i1, i2
  <2>1. filter(i1) \in Vars /\ filter(i2) \in Vars
    BY <1>1, <1>2
  <2>2. Does(at1, {})
    BY <1>2, <2>1, DoesOne
  <2> HIDE DEF at1
  <2> QED
    BY <2>1, <2>2, <1>2, DoesMore
<1>7. ASSUME NEW tests, Does(tests, {}), NEW i \in Bucket, i \in {i1, i2},
             \A coin \in {0, 1} : Script(task_add, store, coin)
                 = script((tests \o write(success, 1)) \o write(filter(i), fp), task_insert_done)
      PROVE  Steady(task_add)
  <2> HIDE DEF i1, i2, fp
  <2>1. Does(tests \o write(success, 1), {} \cup {success})
    BY <1>2, <1>7, DoesMore
  <2>2. Does((tests \o write(success, 1)) \o write(filter(i), fp), ({} \cup {success}) \cup {filter(i)})
    BY <1>1, <1>2, <2>1, DoesMore
  <2>3. (({} \cup {success}) \cup {filter(i)}) \ War[task_add] = {success}
    BY <1>2, WarOf, Names, ScalarsApart
  <2>4. Always(task_add, {success}, script((tests \o write(success, 1)) \o write(filter(i), fp), task_insert_done))
    BY <1>5, <1>7 DEF Always
  <2> QED
    BY <1>3, <2>2, <2>3, <2>4, SteadyWhen
<1>8. CASE store[filter(i1)] = 0
  <2>1. \A coin : Script(task_add, store, coin)
                      = script((at1 \o write(success, 1)) \o write(filter(i1), fp), task_insert_done)
    BY <1>8, Scripts DEF Add
  <2> QED
    BY <1>1, <1>6, <1>7, <2>1
<1>9. CASE store[filter(i1)] # 0 /\ store[filter(i2)] = 0
  <2>1. \A coin : Script(task_add, store, coin)
                      = script(((at1 \o at2) \o write(success, 1)) \o write(filter(i2), fp), task_insert_done)
    BY <1>9, Scripts DEF Add
  <2> QED
    BY <1>1, <1>6, <1>7, <2>1
<1>10. CASE store[filter(i1)] # 0 /\ store[filter(i2)] # 0
  <2> DEFINE evict(i) == ((((at1 \o at2) \o read(filter(i))) \o write(filter(i), fp)) \o write(index1, i))
                             \o write(fingerprint, store[filter(i)]) \o write(relocation_count, 0)
             victim(coin) == IF coin = 1 THEN i1 ELSE i2
             W(i) == ((({} \cup {filter(i)}) \cup {index1}) \cup {fingerprint}) \cup {relocation_count}
  <2>1. \A coin : Script(task_add, store, coin) = script(evict(victim(coin)), task_relocate)
    BY <1>10, Scripts DEF Add
  <2>2. ASSUME NEW i \in Bucket, i \in {i1, i2} PROVE Does(evict(i), W(i))
    <3> DEFINE two == at1 \o at2
    <3> HIDE DEF two, i1, i2, fp
    <3>1. Does(two \o read(filter(i)), {})
      BY <1>2, <1>6, DoesMore DEF two
    <3> DEFINE three == two \o read(filter(i))
    <3>2. Does(three \o write(filter(i), fp), {} \cup {filter(i)})
      <4> HIDE DEF three
      <4> QED
        BY <1>1, <1>2, <3>1, DoesMore DEF three
    <3> DEFINE four == three \o write(filter(i), fp)
    <3>3. i \in Word /\ store[filter(i)] \in Word
      BY <1>1, <2>2
    <3>4. Does(four \o write(index1, i), ({} \cup {filter(i)}) \cup {index1})
      <4> HIDE DEF four
      <4> QED
        BY <1>2, <3>2, <3>3, DoesMore DEF four
    <3> DEFINE five == four \o write(index1, i)
               Five == ({} \cup {filter(i)}) \cup {index1}
    <3>5. Does(five \o write(fingerprint, store[filter(i)]), Five \cup {fingerprint})
      <4> HIDE DEF five, Five
      <4>1. Does(five, Five)
        BY <3>4 DEF five, Five
      <4> QED
        BY <1>2, <3>3, <4>1, DoesMore
    <3> DEFINE six == five \o write(fingerprint, store[filter(i)])
               Six == Five \cup {fingerprint}
    <3>6. Does(six \o write(relocation_count, 0), Six \cup {relocation_count})
      <4> HIDE DEF six, Six
      <4>1. Does(six, Six)
        BY <3>5 DEF six, Six
      <4> QED
        BY <1>2, <4>1, DoesMore
    <3> QED
      BY <3>6 DEF two
  <2>3. ASSUME NEW i \in Bucket PROVE W(i) \ War[task_add] = {relocation_count}
    BY <1>2, WarOf, Names, ScalarsApart
  <2>4. ASSUME NEW coin \in {0, 1} PROVE victim(coin) \in Bucket /\ victim(coin) \in {i1, i2}
    BY <1>1
  <2> HIDE DEF evict, W, victim, i1, i2
  <2>5. ASSUME NEW coin \in {0, 1}
        PROVE  /\ \E U : Does(Script(task_add, store, coin).ops, U) /\ U \ War[task_add] = {relocation_count}
               /\ Script(task_add, store, coin).next \in 0..14
    <3>1. /\ Script(task_add, store, coin).ops = evict(victim(coin))
          /\ Script(task_add, store, coin).next = task_relocate
      BY <2>1 DEF script
    <3>2. Does(evict(victim(coin)), W(victim(coin))) /\ W(victim(coin)) \ War[task_add] = {relocation_count}
      BY <2>2, <2>3, <2>4
    <3> QED
      BY <1>3, <3>1, <3>2
  <2>6. \A m \in [Vars -> Word] : \A coin \in {0, 1} :
            (\A v \in Vars \ {relocation_count} : m[v] = store[v])
                => Script(task_add, m, coin) = Script(task_add, store, coin)
    BY <1>5
  <2> QED
    BY <2>5, <2>6, SteadyIf
<1> QED
  BY <1>8, <1>9, <1>10

\* task_relocate() stores success, unless it moves on and stores nothing in place.
LEMMA RelocateSteady ==
    ASSUME TasksInv, current = task_relocate
    PROVE  Steady(task_relocate)
<1> DEFINE j == index2_victim(store)
           b == slot(store)
           i1 == store[index1]
           fp == store[fingerprint]
           c == store[relocation_count]
           look == read(b)
<1>1. /\ i1 \in Bucket /\ j \in Bucket /\ b = filter(j) /\ fp \in Word /\ j \in Word
      /\ store[b] \in Word /\ c \in Word
  <2>1. b = filter(j)
    BY DEF slot
  <2>2. j \in Bucket /\ i1 \in Bucket
    BY IndexesAreBuckets
  <2> HIDE DEF j
  <2> QED
    BY <2>1, <2>2, StoreWords, ScalarsAre, BucketsAreWords
<1>2. /\ 0 \in Word /\ 1 \in Word /\ success \in Vars /\ index1 \in Vars /\ fingerprint \in Vars
      /\ relocation_count \in Vars /\ b \in Vars /\ b \in Filter
  BY <1>1, WordBasics, VarsAre
<1>3. store \in [Vars -> Word] /\ task_insert_done \in 0..14 /\ task_relocate \in 0..14
  BY StoreWords, Tasks
<1>4. \A m, coin : (\A v \in Vars \ {success} : m[v] = store[v]) =>
          Script(task_relocate, m, coin)
              = IF store[b] = 0
                THEN script((look \o write(success, 1)) \o write(b, fp), task_insert_done)
                ELSE IF c >= MAX_RELOCATIONS
                     THEN script(look \o write(success, 0), task_insert_done)
                     ELSE script((((look \o write(relocation_count, c + 1)) \o write(index1, j)) \o look)
                                   \o write(fingerprint, store[b]) \o write(b, fp), task_relocate)
  <2>1. TAKE m, coin
  <2>2. HAVE \A v \in Vars \ {success} : m[v] = store[v]
  <2>3. {index1, fingerprint, relocation_count, b} \subseteq Vars \ {success}
    BY <1>1, <1>2, VarsAre, Names, ScalarsApart
  <2>4. m[index1] = i1 /\ m[fingerprint] = fp /\ m[relocation_count] = c /\ m[b] = store[b]
    BY <2>2, <2>3
  <2>5. index2_victim(m) = j /\ slot(m) = b
    BY <2>4 DEF index2_victim, slot
  <2>6. Script(task_relocate, m, coin) = Relocate(m)
    BY Scripts
  <2> HIDE DEF i1, fp, c, j, b
  <2> QED
    BY <2>4, <2>5, <2>6 DEF Relocate, GiveUp, MoveOn
<1>5. Does(look, {})
  BY <1>2, DoesOne
<1> HIDE DEF look, b, j, i1, fp, c
<1>6. CASE store[b] = 0
  <2>1. Does(look \o write(success, 1), {} \cup {success})
    BY <1>2, <1>5, DoesMore
  <2>2. Does((look \o write(success, 1)) \o write(b, fp), ({} \cup {success}) \cup {b})
    BY <1>1, <1>2, <2>1, DoesMore
  <2>3. (({} \cup {success}) \cup {b}) \ War[task_relocate] = {success}
    BY <1>2, WarOf, Names, ScalarsApart
  <2>4. Always(task_relocate, {success}, script((look \o write(success, 1)) \o write(b, fp), task_insert_done))
    BY <1>4, <1>6 DEF Always
  <2> QED
    BY <1>3, <2>2, <2>3, <2>4, SteadyWhen
<1>7. CASE store[b] # 0 /\ c >= MAX_RELOCATIONS
  <2>1. Does(look \o write(success, 0), {} \cup {success})
    BY <1>2, <1>5, DoesMore
  <2>2. ({} \cup {success}) \ War[task_relocate] = {success}
    BY <1>2, WarOf, Names, ScalarsApart
  <2>3. Always(task_relocate, {success}, script(look \o write(success, 0), task_insert_done))
    BY <1>4, <1>7 DEF Always
  <2> QED
    BY <1>3, <2>1, <2>2, <2>3, SteadyWhen
<1>8. CASE store[b] # 0 /\ ~(c >= MAX_RELOCATIONS)
  <2>1. c + 1 \in Word
    <3>1. c \in Nat /\ c + 1 <= MAX_RELOCATIONS
      BY <1>1, <1>8, Counts, WordBound
    <3> QED
      BY <3>1, CountsAreWords
  <2>2. Does(look \o write(relocation_count, c + 1), {} \cup {relocation_count})
    BY <1>2, <1>5, <2>1, DoesMore
  <2>3. Does((look \o write(relocation_count, c + 1)) \o write(index1, j), ({} \cup {relocation_count}) \cup {index1})
    BY <1>1, <1>2, <2>2, DoesMore
  <2> DEFINE two == (look \o write(relocation_count, c + 1)) \o write(index1, j)
             Two == ({} \cup {relocation_count}) \cup {index1}
  <2>4. Does(two \o look, Two)
    <3> HIDE DEF two, Two
    <3>1. Does(two, Two)
      BY <2>3 DEF two, Two
    <3> QED
      BY <1>2, <3>1, DoesMore DEF look
  <2>5. Does((two \o look) \o write(fingerprint, store[b]), Two \cup {fingerprint})
    <3> HIDE DEF two, Two
    <3> QED
      BY <1>1, <1>2, <2>4, DoesMore
  <2>6. Does(((two \o look) \o write(fingerprint, store[b])) \o write(b, fp), (Two \cup {fingerprint}) \cup {b})
    <3> HIDE DEF two, Two
    <3> QED
      BY <1>1, <1>2, <2>5, DoesMore
  <2>7. ((Two \cup {fingerprint}) \cup {b}) \ War[task_relocate] = {}
    BY <1>2, WarOf
  <2>8. Always(task_relocate, {}, script(((two \o look) \o write(fingerprint, store[b])) \o write(b, fp), task_relocate))
    <3>1. ASSUME NEW m \in [Vars -> Word], NEW coin \in {0, 1}, \A v \in Vars \ {} : m[v] = store[v]
          PROVE  Script(task_relocate, m, coin)
                     = script(((two \o look) \o write(fingerprint, store[b])) \o write(b, fp), task_relocate)
      <4>1. \A v \in Vars \ {success} : m[v] = store[v]
        BY <3>1
      <4> QED
        BY <1>4, <1>8, <4>1
    <3> QED
      BY <3>1 DEF Always
  <2> QED
    BY <1>3, <2>6, <2>7, <2>8, SteadyWhen
<1> QED
  BY <1>6, <1>7, <1>8

\* Every task that runs is steady.
LEMMA AllSteady ==
    ASSUME TasksInv, current # task_done
    PROVE  Steady(current) /\ current \in 0..13
<1>1. current \in 0..14 /\ current # 14
  BY StoreWords, Tasks DEF TasksTypeOK
<1>2. current \in {0, 13} => Steady(current)
  BY QuietSteady, Tasks
<1>3. current = 1 => Steady(current)
  BY InitializeSteady, Tasks
<1>4. current = 2 => Steady(current)
  BY GenerateKeySteady, Tasks
<1>5. current \in {3, 10} => Steady(current)
  BY NextTaskSteady, Tasks
<1>6. current = 4 => Steady(current)
  BY CalcIndexesSteady, Tasks
<1>7. current = 5 => Steady(current)
  BY CalcIndex1Steady, Tasks
<1>8. current = 6 => Steady(current)
  BY CalcIndex2Steady, Tasks
<1>9. current = 7 => Steady(current)
  BY AddSteady, Tasks
<1>10. current = 8 => Steady(current)
  BY RelocateSteady, Tasks
<1>11. current = 9 => Steady(current)
  BY InsertDoneSteady, Tasks
<1>12. current = 11 => Steady(current)
  BY LookupSearchSteady, Tasks
<1>13. current = 12 => Steady(current)
  BY LookupDoneSteady, Tasks
<1> QED
  BY <1>1, <1>2, <1>3, <1>4, <1>5, <1>6, <1>7, <1>8, <1>9, <1>10, <1>11, <1>12, <1>13

-----------------------------------------------------------------------------
(* The accesses one after the other.                                       *)

\* The last write of ops to v.
Writes(ops, v) == {i \in DOMAIN ops : ops[i].op = "write" /\ ops[i].var = v}
IsLast(i, W) == i \in W /\ \A j \in W : j <= i

\* It decides about v; without one v is left alone.
LEMMA AfterIs ==
    ASSUME NEW m \in [Vars -> Word], NEW ops \in Seq(WordAccesses), NEW v \in Vars
    PROVE  /\ DOMAIN After(m, ops) = Vars
           /\ Writes(ops, v) = {} => After(m, ops)[v] = m[v]
           /\ Writes(ops, v) # {} => \E i \in Writes(ops, v) : IsLast(i, Writes(ops, v))
           /\ \A i : IsLast(i, Writes(ops, v)) => After(m, ops)[v] = ops[i].val
<1> DEFINE W == Writes(ops, v)
           last == CHOOSE i \in W : \A j \in W : j <= i
<1>1. After(m, ops) = [u \in Vars |->
          LET writes == {i \in DOMAIN ops : ops[i].op = "write" /\ ops[i].var = u}
          IN  IF writes = {} THEN m[u] ELSE ops[CHOOSE i \in writes : \A j \in writes : j <= i].val]
  BY DEF After
<1>2. After(m, ops)[v] = IF W = {} THEN m[v] ELSE ops[last].val
  BY <1>1 DEF Writes
<1>3. W \in SUBSET (1..Len(ops)) /\ Len(ops) \in Nat
  BY DEF Writes
<1>4. W # {} => \E i \in W : IsLast(i, W)
  <2> HIDE DEF W
  <2> QED
    BY <1>3, LastOf DEF IsLast
<1>5. ASSUME NEW i, IsLast(i, W) PROVE last = i /\ W # {}
  <2>1. \A j \in W : j \in Nat
    BY <1>3
  <2> HIDE DEF W
  <2>2. last \in W /\ \A j \in W : j <= last
    BY <1>5 DEF IsLast
  <2>3. last <= i /\ i <= last /\ i \in Nat /\ last \in Nat
    BY <1>5, <2>1, <2>2 DEF IsLast
  <2> HIDE DEF last
  <2> QED
    BY <1>5, <2>3 DEF IsLast
<1> HIDE DEF last
<1> QED
  BY <1>1, <1>2, <1>4, <1>5

\* What is written is what has a write.
LEMMA WrittenIs ==
    ASSUME NEW ops
    PROVE  \A v : v \in Written(ops) <=> Writes(ops, v) # {}
BY DEF Written, Writes

\* The memory that accesses leave behind depends on the one they start from
\* only in what they do not write.
LEMMA AfterSame ==
    ASSUME NEW m \in [Vars -> Word], NEW n \in [Vars -> Word], NEW ops \in Seq(WordAccesses),
           \A v \in Vars : v \notin Written(ops) => m[v] = n[v]
    PROVE  After(m, ops) = After(n, ops)
<1>1. ASSUME NEW v \in Vars PROVE After(m, ops)[v] = After(n, ops)[v]
  <2>1. CASE Writes(ops, v) = {}
    BY <2>1, AfterIs, WrittenIs
  <2>2. CASE Writes(ops, v) # {}
    <3>1. PICK i \in Writes(ops, v) : IsLast(i, Writes(ops, v))
      BY <2>2, AfterIs
    <3> QED
      BY <3>1, AfterIs
  <2> QED
    BY <2>1, <2>2
<1>2. After(m, ops) = [v \in Vars |-> After(m, ops)[v]] /\ After(n, ops) = [v \in Vars |-> After(n, ops)[v]]
  BY DEF After
<1> QED
  BY <1>1, <1>2

\* No access leaves the memory alone.
LEMMA AfterNone ==
    ASSUME NEW m \in [Vars -> Word]
    PROVE  After(m, <<>>) = m
<1>1. m \in [Vars -> Int]
  BY WordsAre
<1> QED
  BY <1>1, Nothing

\* The first of the accesses takes place, the others are yet to come.
LEMMA AfterFirst ==
    ASSUME NEW m \in [Vars -> Word], NEW ops \in Seq(WordAccesses), ops # <<>>
    PROVE  /\ Head(ops) \in WordAccesses /\ Tail(ops) \in Seq(WordAccesses)
           /\ Head(ops).op = "read" => /\ After(m, Tail(ops)) = After(m, ops)
                                       /\ Written(Tail(ops)) = Written(ops)
           /\ Head(ops).op = "write" =>
                  /\ After([m EXCEPT ![Head(ops).var] = Head(ops).val], Tail(ops)) = After(m, ops)
                  /\ Written(Tail(ops)) \subseteq Written(ops) /\ Head(ops).var \in Written(ops)
<1> DEFINE a == Head(ops)
           rest == Tail(ops)
           k == Len(ops)
           m1 == IF a.op = "write" THEN [m EXCEPT ![a.var] = a.val] ELSE m
<1>1. /\ a \in WordAccesses /\ rest \in Seq(WordAccesses) /\ k \in Nat /\ k >= 1
      /\ a = ops[1] /\ DOMAIN ops = 1..k /\ DOMAIN rest = 1..(k - 1)
      /\ \A i \in 1..(k - 1) : rest[i] = ops[i + 1]
  OBVIOUS
<1>2. a.op \in {"read", "write"} /\ a.var \in Vars /\ a.val \in Word
  BY <1>1, TheProgram DEF WordAccesses
<1>3. m1 \in [Vars -> Word]
  BY <1>2
<1> HIDE DEF a, rest, k
<1>4. ASSUME NEW v PROVE \A i \in Nat : i + 1 \in Writes(ops, v) /\ i # 0 <=> i \in Writes(rest, v)
  BY <1>1 DEF Writes
<1>5. ASSUME NEW v PROVE 1 \in Writes(ops, v) <=> a.op = "write" /\ a.var = v
  BY <1>1 DEF Writes
<1>6. \A v : Writes(ops, v) \subseteq Nat \ {0} /\ Writes(rest, v) \subseteq Nat \ {0}
  BY <1>1 DEF Writes
<1>7. ASSUME NEW v \in Vars PROVE After(m1, rest)[v] = After(m, ops)[v]
  <2>1. CASE Writes(rest, v) # {}
    <3>1. PICK i \in Writes(rest, v) : IsLast(i, Writes(rest, v))
      BY <1>1, <1>3, <2>1, AfterIs
    <3>2. i \in Nat /\ i # 0 /\ i + 1 \in Writes(ops, v)
      BY <1>4, <1>6
    <3>3. ASSUME NEW j \in Writes(ops, v) PROVE j <= i + 1
      <4>1. j \in Nat /\ j # 0
        BY <1>6
      <4>2. CASE j = 1
        BY <3>2, <4>2
      <4>3. CASE j # 1
        <5>1. j - 1 \in Nat /\ j - 1 # 0 /\ (j - 1) + 1 = j
          BY <4>1, <4>3
        <5>2. j - 1 \in Writes(rest, v)
          BY <1>4, <5>1
        <5>3. j - 1 <= i
          BY <3>1, <5>2 DEF IsLast
        <5> QED
          BY <3>2, <4>1, <5>3
      <4> QED
        BY <4>2, <4>3
    <3>4. IsLast(i + 1, Writes(ops, v))
      BY <3>2, <3>3 DEF IsLast
    <3>5. rest[i] = ops[i + 1]
      BY <1>1 DEF Writes
    <3>6. After(m1, rest)[v] = rest[i].val
      <4> HIDE DEF m1
      <4> QED
        BY <1>1, <1>3, <3>1, AfterIs
    <3>7. After(m, ops)[v] = ops[i + 1].val
      BY <3>4, AfterIs
    <3> QED
      BY <3>5, <3>6, <3>7
  <2>2. CASE Writes(rest, v) = {}
    <3>1. After(m1, rest)[v] = m1[v]
      BY <1>1, <1>3, <2>2, AfterIs
    <3>2. ASSUME NEW j \in Writes(ops, v) PROVE j = 1
      <4>1. j \in Nat /\ j # 0
        BY <1>6
      <4>2. j # 1 => j - 1 \in Nat /\ j - 1 # 0 /\ (j - 1) + 1 = j
        BY <4>1
      <4> QED
        BY <1>4, <2>2, <4>2
    <3>3. CASE a.op = "write" /\ a.var = v
      <4>1. IsLast(1, Writes(ops, v))
        BY <1>5, <3>2, <3>3 DEF IsLast
      <4>2. After(m, ops)[v] = ops[1].val
        BY <4>1, AfterIs
      <4> QED
        BY <1>1, <1>2, <3>1, <3>3, <4>2
    <3>4. CASE ~(a.op = "write" /\ a.var = v)
      <4>1. Writes(ops, v) = {}
        BY <1>5, <3>2, <3>4
      <4>2. After(m, ops)[v] = m[v]
        BY <4>1, AfterIs
      <4> QED
        BY <1>2, <3>1, <3>4, <4>2
    <3> QED
      BY <3>3, <3>4
  <2> QED
    BY <2>1, <2>2
<1>8. After(m1, rest) = After(m, ops)
  <2>1. After(m, ops) = [v \in Vars |-> After(m, ops)[v]]
    BY DEF After
  <2>2. DOMAIN m1 = Vars
    BY <1>3
  <2> HIDE DEF m1
  <2>3. After(m1, rest) = [v \in Vars |-> After(m1, rest)[v]]
    BY <2>2 DEF After
  <2> QED
    BY <1>7, <2>1, <2>3
<1>9. ASSUME NEW v PROVE v \in Written(ops) <=> v \in Written(rest) \/ (a.op = "write" /\ a.var = v)
  <2>1. Writes(rest, v) # {} => Writes(ops, v) # {}
    <3>1. \A i \in Writes(rest, v) : i + 1 \in Writes(ops, v)
      BY <1>4, <1>6
    <3> QED
      BY <3>1
  <2>2. ASSUME NEW j \in Writes(ops, v), j # 1 PROVE Writes(rest, v) # {}
    <3>1. j - 1 \in Nat /\ j - 1 # 0 /\ (j - 1) + 1 = j
      BY <1>6, <2>2
    <3> QED
      BY <1>4, <3>1
  <2> QED
    BY <1>5, <2>1, <2>2, WrittenIs
<1>10. a.op = "read" => After(m, rest) = After(m, ops) /\ Written(rest) = Written(ops)
  BY <1>8, <1>9
<1>11. a.op = "write" => /\ After([m EXCEPT ![a.var] = a.val], rest) = After(m, ops)
                         /\ Written(rest) \subseteq Written(ops) /\ a.var \in Written(ops)
  BY <1>8, <1>9
<1> QED
  BY <1>1, <1>10, <1>11 DEF a, rest

-----------------------------------------------------------------------------
(* The parts of the invariant.                                             *)

\* What the history variables see of a state.
Seen == <<CommittedStore, AttemptView, tasksVars, task>>

\* The committed memory and the one the attempt sees hold words; no commit is
\* in progress while a task runs.
LEMMA ViewWords ==
    ASSUME IInv
    PROVE  /\ CommittedStore \in [Vars -> Word] /\ AttemptView \in [Vars -> Word]
           /\ Running => ~needCommit /\ CommittedStore = mem
           /\ mem \in [Vars -> Word] /\ bak \in [Vars -> Word] /\ DOMAIN mem = Vars
<1>1. mem \in [Var -> Value] /\ bak \in [Var -> Value]
  BY DEF IInv, TypeOK
<1>2. Running => ~needCommit
  BY DEF IInv, ControlInv
<1>3. CommittedStore \in [Var -> Value] /\ (~needCommit => CommittedStore = mem)
  BY <1>1 DEF CommittedStore
<1>4. AttemptView \in [Var -> Value]
  BY <1>1, <1>3 DEF AttemptView
<1> QED
  BY <1>1, <1>2, <1>3, <1>4, TheProgram

\* The task at hand, in terms of the runtime and of the program.
LEMMA TaskAtHand ==
    ASSUME CuckooInv
    PROVE  /\ IInv /\ TasksInv /\ current = task /\ store \in [Vars -> Word]
           /\ task \in 0..14 /\ task \in Task
           /\ current # task_done =>
                  /\ Steady(current)
                  /\ \A coin \in {0, 1} :
                         /\ Script(current, store, coin).ops \in Seq(WordAccesses)
                         /\ Script(current, store, coin).next \in Task
                         /\ Written(Script(current, store, coin).ops) \ War[current] = InPlace
<1>1. IInv /\ TasksInv /\ current = task /\ store \in [Vars -> Word] /\ task \in 0..14
  BY StoreWords, Tasks DEF CuckooInv, TasksTypeOK
<1>2. current # task_done => Steady(current)
  BY <1>1, AllSteady
<1>3. current # task_done =>
          \A coin \in {0, 1} :
              /\ Script(current, store, coin).ops \in Seq(WordAccesses)
              /\ Script(current, store, coin).next \in Task
              /\ Written(Script(current, store, coin).ops) \ War[current] = InPlace
  BY <1>2, TheProgram DEF Steady, Does
<1> QED
  BY <1>1, <1>2, <1>3, TheProgram

-----------------------------------------------------------------------------
(* The steps.                                                              *)

\* The history variables keep what they say of a task.
LEMMA SameHistory ==
    ASSUME UNCHANGED tasksVars
    PROVE  /\ current' = current /\ store' = store /\ InPlace' = InPlace
           /\ \A coin : Script(current, store, coin)' = Script(current, store, coin)
BY DEF tasksVars, InPlace

\* A step of the runtime keeps its invariant.
LEMMA RuntimeKeeps ==
    ASSUME IInv, [Next]_vars
    PROVE  IInv'
BY TypeStep, StampStep, ControlStep, ListStep DEF IInv

\* A script is not the empty body.
LEMMA SomeBody == \A ops, next : script(ops, next) # NoBody
<1>1. TAKE ops, next
<1>2. DOMAIN script(ops, next) = {"ops", "next"}
  BY DEF script
<1>3. DOMAIN NoBody = {}
  BY DEF NoBody
<1> QED
  BY <1>2, <1>3

\* A task reads the private copy of a variable exactly if that is where what
\* the attempt sees of it is.
LEMMA ViewIs ==
    ASSUME IInv, pc = "run"
    PROVE  [v \in Var |-> View(v)] = AttemptView
<1>1. Running /\ CommittedStore = mem /\ ~needCommit
  BY ViewWords DEF Running
<1>2. ASSUME NEW v \in Var
      PROVE  View(v) = IF Running /\ InCopy(v) THEN bak[v] ELSE CommittedStore[v]
  <2>1. InCopy(v) <=> v \in WarScal \/ (v \in WarArr /\ isDirty[v] = numBoots)
    BY DEF InCopy
  <2> QED
    BY <1>1, <2>1 DEF View
<1> QED
  BY <1>2 DEF AttemptView

\* A body is a script.
LEMMA ScriptBody ==
    ASSUME NEW t, NEW m, NEW coin, t \in 0..13
    PROVE  \E ops, next : Script(t, m, coin) = script(ops, next)
<1>1. t \in {0, 1, 2, 3, 4, 5, 6, 7, 8, 9, 10, 11, 12, 13}
  BY SMT
<1>2. /\ \E ops, next : Enter = script(ops, next)
      /\ \E ops, next : Initialize(NUM_BUCKETS) = script(ops, next)
      /\ \E ops, next : GenerateKey(m) = script(ops, next)
      /\ \E ops, next : Insert = script(ops, next)
      /\ \E ops, next : CalcIndexes(m) = script(ops, next)
      /\ \E ops, next : CalcIndex1(m) = script(ops, next)
      /\ \E ops, next : CalcIndex2(m) = script(ops, next)
  BY DEF Enter, Initialize, GenerateKey, Insert, CalcIndexes, CalcIndex1, CalcIndex2
<1>3. /\ \E ops, next : Lookup = script(ops, next)
      /\ \E ops, next : LookupSearch(m) = script(ops, next)
      /\ \E ops, next : script(<<>>, task_done) = script(ops, next)
  BY DEF Lookup, LookupSearch
<1>4. \E ops, next : Add(m, coin) = script(ops, next)
  BY DEF Add
<1>5. \E ops, next : Relocate(m) = script(ops, next)
  BY DEF Relocate, GiveUp, MoveOn
<1>6. \E ops, next : InsertDone(m) = script(ops, next)
  BY DEF InsertDone
<1>7. \E ops, next : LookupDone(m) = script(ops, next)
  BY DEF LookupDone
<1>8. Script(13, m, coin) = script(<<>>, task_done)
  BY Scripts, Tasks
<1> HIDE DEF script
<1>9. t \in {0, 1, 2, 3, 4, 5, 6} => \E ops, next : Script(t, m, coin) = script(ops, next)
  BY <1>2, Scripts, Tasks
<1>10. t \in {7, 8, 9, 10, 11, 12, 13} => \E ops, next : Script(t, m, coin) = script(ops, next)
  BY <1>3, <1>4, <1>5, <1>6, <1>7, <1>8, Scripts, Tasks
<1> QED
  BY <1>1, <1>9, <1>10

\* An attempt begins: whatever interrupted attempts left behind, it does what
\* it would have done from the memory the completed tasks left.
LEMMA BeginStep ==
    ASSUME CuckooInv, Begin
    PROVE  CuckooInv' /\ UNCHANGED tasksVars
<1>1. /\ pc = "run" /\ body = NoBody /\ current # task_done /\ UNCHANGED vars /\ UNCHANGED tasksVars
      /\ IInv /\ TasksInv /\ current = task /\ store \in [Vars -> Word] /\ ~Finishing
  BY TaskAtHand DEF Begin, Finishing
<1>2. PICK coin \in {0, 1} : body' = Script(current, [v \in Var |-> View(v)], coin)
  BY <1>1 DEF Begin
<1> DEFINE s == Script(current, store, coin)
<1>3. /\ AttemptView = CommittedStore /\ [v \in Var |-> View(v)] = AttemptView
      /\ AttemptView \in [Vars -> Word]
      /\ \A v \in Vars \ InPlace : AttemptView[v] = store[v]
  BY <1>1, ViewIs, ViewWords, TheProgram DEF CuckooInv, Fresh, Leftovers
<1>4. /\ Steady(current) /\ s.ops \in Seq(WordAccesses) /\ s.next \in Task
      /\ Written(s.ops) \ War[current] = InPlace
  BY <1>1, TaskAtHand
<1>5. body' = s
  BY <1>2, <1>3, <1>4 DEF Steady
<1>6. s # NoBody /\ s \in [ops : Seq(WordAccesses), next : Task]
  <2>1. current \in 0..13
    BY <1>1, AllSteady
  <2>2. PICK ops, next : s = script(ops, next)
    BY <2>1, ScriptBody
  <2>3. ops = s.ops /\ next = s.next
    BY <2>2 DEF script
  <2> HIDE DEF s
  <2> QED
    BY <1>4, <2>2, <2>3, SomeBody DEF script
<1>7. After(AttemptView, s.ops) = After(store, s.ops)
  <2>1. \A v \in Vars : v \notin Written(s.ops) => AttemptView[v] = store[v]
    BY <1>3, <1>4
  <2> HIDE DEF s
  <2> QED
    BY <1>1, <1>3, <1>4, <2>1, AfterSame
<1> HIDE DEF s
<1>8. /\ IInv' /\ TasksInv' /\ current' = task' /\ CommittedStore' = CommittedStore /\ AttemptView' = AttemptView
      /\ pc' = pc
  <2>1. [Next]_vars
    BY <1>1
  <2>2. CommittedStore' = CommittedStore /\ AttemptView' = AttemptView /\ task' = task
    BY <1>1 DEF vars, nv, volatile, CommittedStore, AttemptView, InCopy, Running, Pending, needCommit,
                task, WarArr, WarScal
  <2> QED
    BY <1>1, <2>1, <2>2, RuntimeKeeps, SameStep DEF tasksVars, vars, volatile
<1>9. Leftovers' /\ InPlace' = InPlace /\ store' = store /\ current' = current
  BY <1>1, <1>8, SameHistory DEF CuckooInv, Leftovers
<1>10. Attempting'
  <2>1. Script(current, store, coin)' = s
    BY <1>1, SameHistory DEF s
  <2>2. After(AttemptView', body'.ops) = After(store', s.ops) /\ body'.next = s.next
    BY <1>5, <1>7, <1>8, <1>9
  <2>3. Written(body'.ops) \ War[current'] \subseteq InPlace'
    BY <1>4, <1>5, <1>9
  <2> QED
    BY <1>1, <1>5, <1>6, <1>8, <1>9, <2>1, <2>2, <2>3 DEF Attempting
<1>11. Finished' /\ Fresh'
  BY <1>1, <1>5, <1>6, <1>8 DEF Finished, Fresh, Finishing, NoBody
<1> QED
  BY <1>1, <1>8, <1>9, <1>10, <1>11 DEF CuckooInv

\* While a body runs no commit is in progress; its next access is known.
LEMMA NextAccess ==
    ASSUME CuckooInv, pc = "run", body # NoBody, body.ops # <<>>
    PROVE  LET a == Head(body.ops) IN
           /\ IInv /\ TasksInv /\ current = task /\ current # task_done
           /\ AttemptView \in [Vars -> Word]
           /\ body \in [ops : Seq(WordAccesses), next : Task]
           /\ a \in WordAccesses /\ a.var \in Var /\ a.val \in Word /\ a.val \in Value
           /\ Tail(body.ops) \in Seq(WordAccesses)
           /\ a.op = "read" => /\ After(AttemptView, Tail(body.ops)) = After(AttemptView, body.ops)
                               /\ Written(Tail(body.ops)) = Written(body.ops)
           /\ a.op = "write" =>
                  /\ After([AttemptView EXCEPT ![a.var] = a.val], Tail(body.ops)) = After(AttemptView, body.ops)
                  /\ Written(Tail(body.ops)) \subseteq Written(body.ops) /\ a.var \in Written(body.ops)
<1>1. /\ IInv /\ TasksInv /\ current = task /\ current # task_done
      /\ body \in [ops : Seq(WordAccesses), next : Task]
  BY DEF CuckooInv, Attempting
<1>2. AttemptView \in [Vars -> Word]
  BY <1>1, ViewWords
<1>3. body.ops \in Seq(WordAccesses)
  BY <1>1
<1>4. \A a \in WordAccesses : a.var \in Var /\ a.val \in Word /\ a.val \in Value
  BY TheProgram DEF WordAccesses
<1>5. Head(body.ops) \in WordAccesses
  BY <1>2, <1>3, AfterFirst
<1> QED
  BY <1>1, <1>2, <1>3, <1>4, <1>5, AfterFirst

\* After an access the attempt is still on the way to the same memory.
LEMMA AfterAccess ==
    ASSUME CuckooInv, pc = "run", body # NoBody, body.ops # <<>>, UNCHANGED tasksVars, IInv', task' = task,
           body' = [body EXCEPT !.ops = Tail(@)],
           pc' = "run" \/ (pc' = "entry" /\ arg' \in Arr),
           After(AttemptView', Tail(body.ops)) = After(AttemptView, body.ops),
           Written(Tail(body.ops)) \subseteq Written(body.ops),
           Leftovers'
    PROVE  CuckooInv'
<1>1. /\ body \in [ops : Seq(WordAccesses), next : Task] /\ current # task_done
      /\ Tail(body.ops) \in Seq(WordAccesses) /\ TasksInv /\ current = task
  BY NextAccess
<1>2. /\ body' \in [ops : Seq(WordAccesses), next : Task]
      /\ body'.ops = Tail(body.ops) /\ body'.next = body.next
  BY <1>1
<1>3. body' # NoBody
  <2>1. DOMAIN body' = {"ops", "next"} /\ DOMAIN NoBody = {}
    BY <1>2 DEF NoBody
  <2> QED
    BY <2>1
<1>4. current' = current /\ store' = store /\ InPlace' = InPlace /\ TasksInv' /\ current' = task'
  BY <1>1, SameHistory, SameStep
<1>5. PICK coin \in {0, 1} : /\ After(AttemptView, body.ops) = After(store, Script(current, store, coin).ops)
                             /\ body.next = Script(current, store, coin).next
  BY DEF CuckooInv, Attempting
<1>6. Written(body.ops) \ War[current] \subseteq InPlace
  BY DEF CuckooInv, Attempting
<1>7. Attempting'
  <2> DEFINE s == Script(current, store, coin)
  <2>1. s' = s
    BY SameHistory
  <2> HIDE DEF s
  <2>2. After(AttemptView', body'.ops) = After(store', s'.ops) /\ body'.next = s'.next
    BY <1>2, <1>4, <1>5, <2>1 DEF s
  <2>3. Written(body'.ops) \ War[current'] \subseteq InPlace'
    BY <1>2, <1>4, <1>6
  <2> QED
    BY <1>1, <1>2, <1>4, <2>2, <2>3 DEF Attempting, s
<1>8. Finished' /\ Fresh'
  BY <1>3, VarAssumption DEF Finished, Fresh, Finishing
<1> QED
  BY <1>4, <1>7, <1>8 DEF CuckooInv

\* A read fetches at most a private copy.
LEMMA BodyReads ==
    ASSUME CuckooInv, Access, Head(body.ops).op = "read", Read(Head(body.ops).var)
    PROVE  CuckooInv'
<1> DEFINE a == Head(body.ops)
<1>1. /\ pc = "run" /\ body # NoBody /\ body.ops # <<>> /\ UNCHANGED tasksVars
      /\ body' = [body EXCEPT !.ops = Tail(@)]
  BY DEF Access
<1>2. /\ IInv /\ a.var \in Var /\ After(AttemptView, Tail(body.ops)) = After(AttemptView, body.ops)
      /\ Written(Tail(body.ops)) = Written(body.ops)
  BY <1>1, NextAccess
<1>3. CommittedStore' = CommittedStore /\ AttemptView' = AttemptView /\ task' = task
  BY <1>2, ReadStep DEF Atomic!Read
<1>4. IInv' /\ pc' = "run"
  <2>1. [Next]_vars
    BY <1>2 DEF Next, Body
  <2> QED
    BY <1>2, <2>1, RuntimeKeeps DEF Read
<1>5. Leftovers'
  BY <1>1, <1>3, SameHistory DEF CuckooInv, Leftovers
<1> QED
  BY <1>1, <1>2, <1>3, <1>4, <1>5, AfterAccess

\* A write to a private copy changes what the attempt sees, and nothing else.
LEMMA BodyWrites ==
    ASSUME CuckooInv, Access, Head(body.ops).op = "write", Write(Head(body.ops).var, Head(body.ops).val)
    PROVE  CuckooInv'
<1> DEFINE a == Head(body.ops)
<1>1. /\ pc = "run" /\ body # NoBody /\ body.ops # <<>> /\ UNCHANGED tasksVars
      /\ body' = [body EXCEPT !.ops = Tail(@)]
  BY DEF Access
<1>2. /\ IInv /\ a.var \in Var /\ a.val \in Value
      /\ After([AttemptView EXCEPT ![a.var] = a.val], Tail(body.ops)) = After(AttemptView, body.ops)
      /\ Written(Tail(body.ops)) \subseteq Written(body.ops)
  BY <1>1, NextAccess
<1>3. /\ CommittedStore' = CommittedStore /\ AttemptView' = [AttemptView EXCEPT ![a.var] = a.val]
      /\ task' = task
  BY <1>2, WriteStep DEF Atomic!Write
<1>4. IInv' /\ (pc' = "run" \/ (pc' = "entry" /\ arg' \in Arr))
  <2>1. [Next]_vars
    BY <1>2 DEF Next, Body
  <2> QED
    BY <1>1, <1>2, <2>1, RuntimeKeeps DEF Write
<1>5. Leftovers'
  BY <1>1, <1>3, SameHistory DEF CuckooInv, Leftovers
<1> QED
  BY <1>1, <1>2, <1>3, <1>4, <1>5, AfterAccess

\* A store to a variable in place does not disturb the runtime.
LEMMA InPlaceKeeps ==
    ASSUME IInv, NEW v \in Var, NEW x \in Value, WriteInPlace(v, x)
    PROVE  /\ IInv' /\ task' = task /\ pc' = "run"
           /\ CommittedStore' = [CommittedStore EXCEPT ![v] = x]
           /\ AttemptView' = [AttemptView EXCEPT ![v] = x]
<1>1. /\ pc = "run" /\ v \notin War[task] /\ mem' = [mem EXCEPT ![v] = x]
      /\ UNCHANGED <<bak, isDirty, numBoots, data_dest, num_dirty_gv, gv_index, ctx, curctx, volatile>>
  BY DEF WriteInPlace
<1>2. TypeOK'
  BY <1>1 DEF IInv, TypeOK, volatile
<1>3. task' = task /\ needCommit' = needCommit /\ Running' = Running /\ WarArr' = WarArr /\ WarScal' = WarScal
      /\ pc' = "run" /\ Running /\ ~needCommit
  BY <1>1 DEF task, needCommit, Running, volatile, WarArr, WarScal, IInv, ControlInv
<1>4. StampInv'
  BY <1>1, <1>3 DEF IInv, StampInv, volatile
<1>5. ControlInv'
  BY <1>1, <1>3 DEF IInv, ControlInv, volatile, next_ctx
<1>6. ListInv'
  <2>1. Listed' = Listed
    BY <1>1 DEF Listed
  <2>2. EnteredScal' = EnteredScal
    BY <1>1, <1>3 DEF EnteredScal, volatile
  <2>3. Entered' = Entered
    BY <1>1, <1>3, <2>2 DEF Entered, volatile
  <2> QED
    BY <1>1, <1>3, <2>1, <2>3 DEF IInv, ListInv, volatile
<1>7. mem \in [Var -> Value] /\ CommittedStore = mem /\ CommittedStore' = mem'
  <2>1. mem \in [Var -> Value] /\ mem' \in [Var -> Value]
    BY <1>2 DEF IInv, TypeOK
  <2> QED
    BY <1>3, <2>1 DEF CommittedStore
<1>8. CommittedStore' = [CommittedStore EXCEPT ![v] = x]
  BY <1>1, <1>7
<1>9. \A w \in Var : InCopy(w)' = InCopy(w)
  BY <1>1, <1>3 DEF InCopy, volatile
<1>10. ~InCopy(v)
  BY <1>1 DEF InCopy, WarArr, WarScal
<1>11. AttemptView' = [AttemptView EXCEPT ![v] = x]
  BY <1>1, <1>3, <1>7, <1>8, <1>9, <1>10 DEF AttemptView
<1> QED
  BY <1>2, <1>3, <1>4, <1>5, <1>6, <1>8, <1>11 DEF IInv

\* A variable written in place is one that every attempt of the task writes.
LEMMA BodyWritesInPlace ==
    ASSUME CuckooInv, Access, Head(body.ops).op = "write",
           WriteInPlace(Head(body.ops).var, Head(body.ops).val)
    PROVE  CuckooInv'
<1> DEFINE a == Head(body.ops)
<1>1. /\ pc = "run" /\ body # NoBody /\ body.ops # <<>> /\ UNCHANGED tasksVars
      /\ body' = [body EXCEPT !.ops = Tail(@)]
  BY DEF Access
<1>2. /\ IInv /\ a.var \in Var /\ a.val \in Value /\ current = task /\ current # task_done
      /\ After([AttemptView EXCEPT ![a.var] = a.val], Tail(body.ops)) = After(AttemptView, body.ops)
      /\ Written(Tail(body.ops)) \subseteq Written(body.ops) /\ a.var \in Written(body.ops)
  BY <1>1, NextAccess
<1> DEFINE v == a.var
           x == a.val
<1>3. WriteInPlace(v, x) /\ v \in Var /\ x \in Value /\ v \in Written(body.ops)
  BY <1>2
<1>4. After([AttemptView EXCEPT ![v] = x], Tail(body.ops)) = After(AttemptView, body.ops)
  BY <1>2
<1> HIDE DEF a, v, x
<1>5. /\ CommittedStore' = [CommittedStore EXCEPT ![v] = x] /\ AttemptView' = [AttemptView EXCEPT ![v] = x]
      /\ task' = task /\ IInv' /\ pc' = "run"
  BY <1>2, <1>3, InPlaceKeeps
<1>6. v \in InPlace
  BY <1>1, <1>2, <1>3 DEF WriteInPlace, CuckooInv, Attempting
<1>7. Leftovers'
  <2>1. \A w \in Var : w # v => CommittedStore'[w] = CommittedStore[w]
    BY <1>5, ViewWords, TheProgram
  <2>2. ASSUME NEW w \in Var, CommittedStore'[w] # store[w] PROVE current # task_done /\ w \in InPlace
    BY <1>2, <1>6, <2>1, <2>2 DEF CuckooInv, Leftovers
  <2>3. store' = store /\ current' = current /\ InPlace' = InPlace
    BY <1>1, SameHistory
  <2> QED
    BY <2>2, <2>3 DEF Leftovers
<1> QED
  BY <1>1, <1>2, <1>4, <1>5, <1>7, AfterAccess

\* So an access keeps the invariant.
LEMMA AccessStep ==
    ASSUME CuckooInv, Access
    PROVE  CuckooInv' /\ UNCHANGED tasksVars
BY BodyReads, BodyWrites, BodyWritesInPlace DEF Access

\* Runtime steps that change neither what the completed tasks left nor what
\* the attempt sees.
LEMMA QuietKeeps ==
    ASSUME CuckooInv, Internal, UNCHANGED tasksVars
    PROVE  /\ IInv /\ TasksInv /\ current = task /\ store \in [Vars -> Word]
           /\ IInv' /\ TasksInv' /\ current' = task' /\ Leftovers'
           /\ CommittedStore' = CommittedStore /\ AttemptView' = AttemptView
           /\ current' = current /\ store' = store /\ InPlace' = InPlace
<1>1. IInv /\ TasksInv /\ current = task /\ store \in [Vars -> Word]
  BY TaskAtHand
<1>2. CommittedStore' = CommittedStore /\ AttemptView' = AttemptView /\ task' = task
  BY <1>1, InternalStep
<1>3. [Next]_vars
  BY DEF Internal, Next, Prologue, Body, Transition
<1>4. current' = current /\ store' = store /\ InPlace' = InPlace
  BY SameHistory
<1>5. Leftovers'
  BY <1>2, <1>4 DEF CuckooInv, Leftovers
<1> QED
  BY <1>1, <1>2, <1>3, <1>4, <1>5, RuntimeKeeps, SameStep

\* The body is over: what the attempt sees is what the task leaves behind.
LEMMA EndStep ==
    ASSUME CuckooInv, End
    PROVE  CuckooInv' /\ UNCHANGED tasksVars
<1>1. /\ pc = "run" /\ body # NoBody /\ body.ops = <<>> /\ Finish(body.next) /\ body' = NoBody
      /\ UNCHANGED tasksVars
  BY DEF End
<1>2. PICK coin \in {0, 1} : /\ After(AttemptView, body.ops) = After(store, Script(current, store, coin).ops)
                             /\ body.next = Script(current, store, coin).next
  BY <1>1 DEF CuckooInv, Attempting
<1>3. body.next \in Task /\ current # task_done
  BY <1>1 DEF CuckooInv, Attempting
<1>4. Internal
  BY <1>1, <1>3 DEF Internal
<1>5. AttemptView = After(store, Script(current, store, coin).ops)
  BY <1>1, <1>2, AfterNone, QuietKeeps, <1>4, ViewWords
<1>6. pc' = "precommit" /\ nextTask' = body.next
  BY <1>1 DEF Finish
<1>7. Finished'
  <2> DEFINE s == Script(current, store, coin)
  <2>1. s' = s
    BY <1>1, SameHistory
  <2> HIDE DEF s
  <2>2. AttemptView' = After(store', s'.ops) /\ nextTask' = s'.next
    BY <1>1, <1>2, <1>4, <1>5, <1>6, <2>1, QuietKeeps DEF s
  <2> QED
    BY <1>1, <1>3, <1>4, <2>2, QuietKeeps DEF Finished, s
<1>8. Attempting' /\ Fresh'
  BY <1>1, <1>6 DEF Attempting, Fresh, Finishing
<1> QED
  BY <1>1, <1>4, <1>7, <1>8, QuietKeeps DEF CuckooInv

\* The prologue and the privatization of the scalars come before the body.
LEMMA PrologueStep ==
    ASSUME CuckooInv, Prologue \/ Privatize, UNCHANGED <<body, tasksVars>>
    PROVE  CuckooInv'
<1>1. Internal /\ UNCHANGED tasksVars /\ body' = body
  BY DEF Internal, Prologue
<1>2. pc \in {"prologue", "clear", "wrap", "inc", "test", "copy", "advance", "resetNum",
              "resetIndex", "resetFlag", "drop", "privatize"}
  BY DEF Prologue, TestWrap, ClearIsDirty, WrapNumBoots, IncNumBoots, TestCommit, CopyEntry, AdvanceIndex,
         ResetNum, ResetIndex, ResetFlag, DropList, Privatize
<1>3. pc' \in {"prologue", "clear", "wrap", "inc", "test", "copy", "advance", "resetNum",
               "resetIndex", "resetFlag", "drop", "privatize", "run"}
  BY <1>2 DEF Prologue, TestWrap, ClearIsDirty, WrapNumBoots, IncNumBoots, TestCommit, CopyEntry, AdvanceIndex,
         ResetNum, ResetIndex, ResetFlag, DropList, Privatize, EnterTask
<1>4. body = NoBody
  BY <1>2 DEF CuckooInv, Attempting
<1>5. AttemptView = CommittedStore
  BY <1>2, <1>4 DEF CuckooInv, Fresh, Finishing
<1>6. Attempting' /\ Finished'
  BY <1>1, <1>3, <1>4 DEF Attempting, Finished, Finishing
<1>7. Fresh'
  BY <1>1, <1>3, <1>5, QuietKeeps DEF Fresh
<1> QED
  BY <1>1, <1>6, <1>7, QuietKeeps DEF CuckooInv

\* write_to_gbuf() and the stamp belong to the write that called for them.
LEMMA GbufStep ==
    ASSUME CuckooInv, GbufEntry \/ GbufCount \/ MarkDirty, UNCHANGED <<body, tasksVars>>, arg \in Arr
    PROVE  CuckooInv'
<1>1. Internal /\ UNCHANGED tasksVars /\ body' = body
  BY DEF Internal
<1>2. pc \in {"entry", "count", "mark"} /\ (pc' = "run" \/ (pc' \in {"entry", "count", "mark"} /\ arg' \in Arr))
  BY DEF GbufEntry, GbufCount, MarkDirty
<1>3. ~Finishing /\ ~Finishing'
  BY <1>2, VarAssumption DEF Finishing
<1>4. body # NoBody
  BY <1>2, <1>3 DEF CuckooInv, Fresh
<1>5. Attempting'
  <2>1. PICK coin \in {0, 1} : /\ After(AttemptView, body.ops) = After(store, Script(current, store, coin).ops)
                               /\ body.next = Script(current, store, coin).next
    BY <1>4 DEF CuckooInv, Attempting
  <2> DEFINE s == Script(current, store, coin)
  <2>2. s' = s
    BY <1>1, SameHistory
  <2> HIDE DEF s
  <2>3. After(AttemptView', body'.ops) = After(store', s'.ops) /\ body'.next = s'.next
    BY <1>1, <2>1, <2>2, QuietKeeps DEF s
  <2>4. /\ current # task_done /\ body \in [ops : Seq(WordAccesses), next : Task]
        /\ Written(body.ops) \ War[current] \subseteq InPlace
    BY <1>4 DEF CuckooInv, Attempting
  <2> QED
    BY <1>1, <1>2, <2>3, <2>4, QuietKeeps DEF Attempting, s
<1>6. Finished' /\ Fresh'
  BY <1>1, <1>3, <1>4 DEF Finished, Fresh
<1> QED
  BY <1>1, <1>5, <1>6, QuietKeeps DEF CuckooInv

\* On the way from the body to the transition the attempt sees the same.
LEMMA CommitStep ==
    ASSUME CuckooInv, UNCHANGED <<body, tasksVars>>,
           PreCommit \/ SetTask \/ SetFlag \/ ((GbufEntry \/ GbufCount) /\ arg \in Scal)
    PROVE  CuckooInv'
<1>1. Internal /\ UNCHANGED tasksVars /\ body' = body
  BY DEF Internal
<1>2. nextTask' = nextTask /\ Finishing
  BY DEF PreCommit, SetTask, SetFlag, GbufEntry, GbufCount, Finishing, nv
<1>3. Finishing'
  <2>1. CASE PreCommit
    <3>1. todo \subseteq Scal
      BY <2>1 DEF PreCommit, CuckooInv, IInv, ControlInv, Running, WarScal
    <3> QED
      BY <2>1, <3>1 DEF PreCommit, Finishing
  <2>2. CASE SetTask \/ SetFlag
    BY <2>2 DEF SetTask, SetFlag, Finishing
  <2>3. CASE (GbufEntry \/ GbufCount) /\ arg \in Scal
    BY <2>3, VarAssumption DEF GbufEntry, GbufCount, Finishing
  <2> QED
    BY <2>1, <2>2, <2>3
<1>4. /\ current # task_done /\ body = NoBody
      /\ \E coin \in {0, 1} : /\ AttemptView = After(store, Script(current, store, coin).ops)
                              /\ nextTask = Script(current, store, coin).next
  BY <1>2 DEF CuckooInv, Finished
<1>5. Finished'
  <2>1. PICK coin \in {0, 1} : /\ AttemptView = After(store, Script(current, store, coin).ops)
                               /\ nextTask = Script(current, store, coin).next
    BY <1>4
  <2> DEFINE s == Script(current, store, coin)
  <2>2. s' = s
    BY <1>1, SameHistory
  <2> HIDE DEF s
  <2>3. AttemptView' = After(store', s'.ops) /\ nextTask' = s'.next
    BY <1>1, <1>2, <2>1, <2>2, QuietKeeps DEF s
  <2> QED
    BY <1>1, <1>4, <2>3, QuietKeeps DEF Finished, s
<1>6. Attempting' /\ Fresh'
  BY <1>1, <1>3, <1>4 DEF Attempting, Fresh
<1> QED
  BY <1>1, <1>5, <1>6, QuietKeeps DEF CuckooInv

\* The transition: the attempt counts as a run of the task.
LEMMA SwitchStep ==
    ASSUME CuckooInv, Switch
    PROVE  CuckooInv' /\ TasksNext
<1>1. /\ SwitchContext /\ pc = "switch" /\ pc' = "prologue" /\ body' = body
      /\ IInv /\ TasksInv /\ current = task /\ store \in [Vars -> Word] /\ Finishing
  BY TaskAtHand DEF Switch, SwitchContext, Finishing
<1>2. /\ current # task_done /\ body = NoBody
      /\ \E coin \in {0, 1} : /\ AttemptView = After(store, Script(current, store, coin).ops)
                              /\ nextTask = Script(current, store, coin).next
  BY <1>1 DEF CuckooInv, Finished
<1>3. CommittedStore' = AttemptView /\ AttemptView' = AttemptView
  BY <1>1, CompleteStep DEF Atomic!Complete
<1>4. task' = nextTask
  BY <1>1 DEF IInv, ControlInv, SwitchContext, task
<1>5. store' = AttemptView /\ current' = nextTask
  <2>1. Running /\ CommittedStore = mem
    BY <1>1, ViewWords DEF Running
  <2>2. Listed = Entered
    BY <1>1, <2>1 DEF IInv, ListInv
  <2>3. \A v \in Var : v \in Entered <=> InCopy(v)
    BY <1>1 DEF Entered, EnteredScal, InCopy
  <2>4. store' = [v \in Var |-> IF v \in Listed THEN bak[v] ELSE mem[v]] /\ current' = task'
    BY DEF Switch
  <2>5. AttemptView = [v \in Var |-> IF v \in Listed THEN bak[v] ELSE mem[v]]
    BY <2>1, <2>2, <2>3 DEF AttemptView
  <2> QED
    BY <1>4, <2>4, <2>5
<1>6. RunTask(current) /\ current \in entry_task..task_print_stats
  <2>1. PICK coin \in {0, 1} : /\ AttemptView = After(store, Script(current, store, coin).ops)
                               /\ nextTask = Script(current, store, coin).next
    BY <1>2
  <2>2. Script(current, store, coin) \in {Script(current, store, c) : c \in {0, 1}}
    OBVIOUS
  <2>3. RunTask(current)
    BY <1>5, <2>1, <2>2 DEF RunTask
  <2>4. current \in 0..13
    BY <1>1, <1>2, AllSteady
  <2> QED
    BY <2>3, <2>4, Tasks
<1>7. TasksNext
  BY <1>6 DEF TasksNext
<1>8. IInv'
  <2>1. [Next]_vars
    BY <1>1 DEF Next, Transition
  <2> QED
    BY <1>1, <2>1, RuntimeKeeps
<1>9. TasksInv'
  BY <1>1, <1>7, Inductive
<1>10. Leftovers' /\ Attempting' /\ Finished' /\ Fresh'
  BY <1>1, <1>2, <1>3, <1>5 DEF Leftovers, Attempting, Finished, Fresh, Finishing
<1> QED
  BY <1>4, <1>5, <1>7, <1>8, <1>9, <1>10 DEF CuckooInv

\* A torn word is a word.
LEMMA TornIsWord ==
    ASSUME NEW old \in Word, NEW new \in Word
    PROVE  TornWord(old, new) \in Word
<1>1. old \in Nat /\ old < 65536 /\ new \in Nat
  BY WordBound
<1>2. (old - (old % 256)) + (new % 256) \in Nat /\ (old - (old % 256)) + (new % 256) < 65536
  BY <1>1, SMT
<1> QED
  BY <1>2, BelowIsWord DEF TornWord

\* After a power failure the task starts over from what the completed tasks
\* and interrupted attempts left.
LEMMA CuckooFailureStep ==
    ASSUME CuckooInv, CuckooFailure
    PROVE  CuckooInv' /\ UNCHANGED tasksVars
<1>1. body' = NoBody /\ UNCHANGED tasksVars /\ IInv /\ TasksInv /\ current = task
  BY TaskAtHand DEF CuckooFailure
<1>2. Failure
  <2>1. ASSUME NEW v, pc = "copy", v = data_dest[gv_index], TornCopy(TornWord(mem[v], bak[v]))
        PROVE  Failure
    <3>1. gv_index < num_dirty_gv /\ gv_index \in Nat /\ num_dirty_gv \in Nat
      BY <1>1, <2>1, GbufAssumption DEF IInv, TypeOK, ControlInv
    <3>2. v \in Var
      BY <1>1, <2>1, <3>1 DEF IInv, ControlInv
    <3>3. mem[v] \in Word /\ bak[v] \in Word
      BY <1>1, <3>2, ViewWords, TheProgram
    <3>4. TornWord(mem[v], bak[v]) \in Value
      BY <3>3, TornIsWord, TheProgram
    <3> QED
      BY <2>1, <3>4 DEF Failure
  <2> QED
    BY <2>1 DEF CuckooFailure, Failure
<1>3. Reboot
  BY <1>2 DEF Failure, PowerFail, TornCopy, TornClear
<1>4. CommittedStore' = CommittedStore /\ task' = task /\ AttemptView' = CommittedStore
  BY <1>1, <1>2, FailureStep DEF Atomic!PowerFail
<1>5. IInv'
  <2>1. [Next]_vars
    BY <1>2 DEF Next
  <2> QED
    BY <1>1, <2>1, RuntimeKeeps
<1>6. Leftovers' /\ current' = current /\ TasksInv'
  BY <1>1, <1>4, SameHistory, SameStep DEF CuckooInv, Leftovers
<1>7. Attempting' /\ Finished' /\ Fresh'
  BY <1>1, <1>3, <1>4 DEF Reboot, Attempting, Finished, Fresh, Finishing
<1> QED
  BY <1>1, <1>4, <1>5, <1>6, <1>7 DEF CuckooInv

\* Nothing happens.
LEMMA CuckooStutter ==
    ASSUME CuckooInv, UNCHANGED allVars
    PROVE  CuckooInv' /\ UNCHANGED tasksVars
<1>1. UNCHANGED tasksVars /\ UNCHANGED vars /\ body' = body /\ IInv /\ TasksInv
  BY TaskAtHand DEF allVars
<1>2. IInv' /\ TasksInv' /\ task' = task
  BY <1>1, RuntimeKeeps, SameStep DEF tasksVars, vars, nv, task
<1>3. /\ CommittedStore' = CommittedStore /\ AttemptView' = AttemptView /\ Finishing' = Finishing
      /\ pc' = pc /\ arg' = arg /\ nextTask' = nextTask
  BY <1>1 DEF vars, nv, volatile, CommittedStore, AttemptView, InCopy, Running, Pending, needCommit,
              task, WarArr, WarScal, Finishing
<1>4. InPlace' = InPlace /\ store' = store /\ current' = current
  BY <1>1, SameHistory
<1>5. Leftovers' /\ Attempting' /\ Finished' /\ Fresh'
  BY <1>1, <1>3, <1>4 DEF CuckooInv, Leftovers, Attempting, Finished, Fresh
<1> QED
  BY <1>1, <1>2, <1>4, <1>5 DEF CuckooInv

\* The device as it is programmed satisfies the invariant.
LEMMA CuckooInitIs == CuckooInit => CuckooInv /\ TasksInit
<1> SUFFICES ASSUME CuckooInit PROVE CuckooInv /\ TasksInit
  OBVIOUS
<1>1. /\ mem = [v \in Var |-> 0] /\ ctx[0].task = entry_task /\ ~ctx[0].needCommit /\ curctx = 0
      /\ pc = "prologue" /\ body = NoBody /\ store = mem /\ current = task /\ Init
  BY ProgramAssumption, Tasks DEF CuckooInit, Init
<1>2. task = entry_task /\ ~needCommit
  BY <1>1 DEF task, needCommit
<1>3. TasksInit
  BY <1>1, <1>2, TheProgram DEF TasksInit, Vars
<1>4. IInv /\ TasksInv
  BY <1>1, <1>3, InitIInv, InitIs
<1>5. CommittedStore = store
  BY <1>1, <1>2, <1>4 DEF CommittedStore, IInv, TypeOK
<1>6. AttemptView = CommittedStore
  BY <1>1, <1>5 DEF AttemptView, Running, CommittedStore
<1>7. Leftovers /\ Attempting /\ Finished /\ Fresh
  BY <1>1, <1>5, <1>6 DEF Leftovers, Attempting, Finished, Fresh, Finishing
<1> QED
  BY <1>1, <1>3, <1>4, <1>7 DEF CuckooInv

\* Every step keeps the invariant, and is a step of the tasks or of none.
LEMMA CuckooInductive ==
    ASSUME CuckooInv, [CuckooNext]_allVars
    PROVE  CuckooInv' /\ [TasksNext]_tasksVars
<1>1. CASE Begin \/ Access \/ End
  BY <1>1, BeginStep, AccessStep, EndStep
<1>2. CASE Switch
  BY <1>2, SwitchStep
<1>3. CASE CuckooFailure
  BY <1>3, CuckooFailureStep
<1>4. CASE UNCHANGED allVars
  BY <1>4, CuckooStutter
<1>5. ASSUME UNCHANGED <<body, tasksVars>>, Prologue \/ Privatize
      PROVE  CuckooInv' /\ UNCHANGED tasksVars
  BY <1>5, PrologueStep
<1>6. ASSUME UNCHANGED <<body, tasksVars>>,
             PreCommit \/ GbufEntry \/ GbufCount \/ MarkDirty \/ SetTask \/ SetFlag
      PROVE  CuckooInv' /\ UNCHANGED tasksVars
  <2>1. CASE PreCommit \/ SetTask \/ SetFlag
    BY <1>6, <2>1, CommitStep
  <2>2. CASE (GbufEntry \/ GbufCount) /\ arg \in Scal
    BY <1>6, <2>2, CommitStep
  <2>3. CASE MarkDirty \/ ((GbufEntry \/ GbufCount) /\ arg \notin Scal)
    <3>1. /\ pc \in {"entry", "count", "mark"} => arg \in War[task]
          /\ pc = "mark" => arg \in Arr
          /\ task \in Task
      BY DEF CuckooInv, IInv, ControlInv
    <3>2. arg \in Arr
      BY <2>3, <3>1, TaskAssumption DEF MarkDirty, GbufEntry, GbufCount, Var
    <3> QED
      BY <1>6, <2>3, <3>2, GbufStep
  <2> QED
    BY <1>6, <2>1, <2>2, <2>3
<1> QED
  BY <1>1, <1>2, <1>3, <1>4, <1>5, <1>6 DEF CuckooNext

-----------------------------------------------------------------------------
(* What follows.                                                           *)

\* Whatever interrupted attempts leave behind is in variables that the task
\* writes before it ends, and an attempt that has begun is on the way to the
\* memory an uninterrupted run of the task ends with.
THEOREM CuckooInvariance == CuckooSpec => []CuckooInv
<1>1. CuckooInit => CuckooInv
  BY CuckooInitIs
<1>2. CuckooInv /\ [CuckooNext]_allVars => CuckooInv'
  BY CuckooInductive
<1> QED
  BY <1>1, <1>2, PTL DEF CuckooSpec

\* The compiled filter, with its power failing anywhere and its scalars partly
\* written in place, runs as if each task ran once, as a whole: it implements
\* CuckooTasks.
THEOREM CuckooRunsAsTasks == CuckooSpec => RunsAsTasks
<1>1. CuckooInit => TasksInit
  BY CuckooInitIs
<1>2. CuckooInv /\ [CuckooNext]_allVars => [TasksNext]_tasksVars
  BY CuckooInductive
<1>3. CuckooInv => current = task
  BY DEF CuckooInv
<1> QED
  BY <1>1, <1>2, <1>3, CuckooInvariance, PTL DEF CuckooSpec, RunsAsTasks

\* No power failure makes the filter forget a key: as long as no insertion has
\* given up, every key inserted is where a lookup finds it.
THEOREM CuckooKeepsKeys == CuckooSpec => []NoKeyLost
<1>1. CuckooInv => NoKeyLost
  BY KeysHaveHomes DEF CuckooInv
<1> QED
  BY <1>1, CuckooInvariance, PTL

\* The filter has no false negatives, however often the power fails.
THEOREM CuckooFinalCounts == CuckooSpec => []FinalCounts
<1>1. ASSUME CuckooInv, pc = "run", task = task_done
      PROVE  mem = store /\ mem[member_count] >= mem[inserted_count]
  <2>1. IInv /\ TasksInv /\ current = task_done /\ store \in [Vars -> Word]
    BY <1>1, TaskAtHand
  <2>2. CommittedStore = mem /\ mem \in [Vars -> Word]
    BY <1>1, <2>1, ViewWords DEF Running
  <2>3. \A v \in Vars : mem[v] = store[v]
    BY <1>1, <2>1, <2>2, TheProgram DEF CuckooInv, Leftovers
  <2>4. mem = store
    BY <2>1, <2>2, <2>3
  <2>5. store[member_count] >= store[inserted_count]
    BY <2>1, HomesAreFound DEF NoFalseNegatives
  <2> QED
    BY <2>4, <2>5
<1>2. CuckooInv => FinalCounts
  BY <1>1 DEF FinalCounts
<1> QED
  BY <1>2, CuckooInvariance, PTL
=============================================================================
