----------------------------- MODULE CuckooDino -----------------------------
(***************************************************************************)
(* The cuckoo filter application on DINO: the filter is in non-volatile    *)
(* memory, the key, its place and the counts are in locals.                *)
(***************************************************************************)
EXTENDS CuckooHash, Sequences

CONSTANTS NUM_KEYS, MAX_RELOCATIONS     \* 32 and 8 in the code

INIT_KEY == 1

filter(i) == <<"filter", i>>
printed == <<"printed">>    \* the output
Filter == {filter(i) : i \in 0..NUM_BUCKETS-1}

Start == [at |-> "main",
          vol |-> [i |-> 0, key |-> 0, inserting |-> TRUE, inserts |-> 0, members |-> 0, fp |-> 0,
                   index1 |-> 0, index2 |-> 0, index_victim |-> 0, fp_victim |-> 0, relocation_count |-> 0],
          nv |-> [w \in Filter \cup {printed} |-> IF w = printed THEN <<>> ELSE 0]]

Seg(stores, vol, b) == [stores |-> stores, vol |-> vol, next |-> b]

\* The buckets with a DINO_MANUAL_VERSION_VAL before a boundary.
Versioned(at, vol) == CASE at = "TASK_INSERT_UPDATE" -> {filter(vol.index1), filter(vol.index2)}
                        [] at = "TASK_RELOCATE_UPDATE" -> {filter(vol.index_victim)}
                        [] OTHER -> {}

\* main() before its first boundary.
Clear(vol) == Seg([i \in 1..NUM_BUCKETS |-> <<filter(i - 1), 0>>], vol, "TASK_MAIN")

Main(vol) == Seg(<<>>, [vol EXCEPT !.key = INIT_KEY, !.inserts = 0, !.i = 0], "TASK_GENERATE_KEY")

GenerateKey(vol) == Seg(<<>>, [vol EXCEPT !.key = ((@ + 1) * 17) % 65536],
                        IF vol.inserting THEN "TASK_INSERT_FINGERPRINT" ELSE "TASK_LOOKUP_FINGERPRINT")

Fingerprint(vol, b) == Seg(<<>>, [vol EXCEPT !.fp = hash_to_fingerprint(vol.key)], b)

Index1(vol, b) == Seg(<<>>, [vol EXCEPT !.index1 = hash_to_index(vol.key)], b)

Index2(vol, b) == Seg(<<>>, [vol EXCEPT !.index2 = xor(vol.index1, hash_to_index(vol.fp))], b)

\* insert() returns after stores, and main() goes on to the next key or to the lookups.
Inserted(stores, vol, success) ==
    LET counted == [vol EXCEPT !.inserts = @ + success, !.i = @ + 1]
    IN  Seg(stores, IF counted.i < NUM_KEYS THEN counted
                    ELSE [counted EXCEPT !.key = INIT_KEY, !.members = 0, !.i = 0, !.inserting = FALSE],
            "TASK_GENERATE_KEY")

InsertUpdate(vol, nv, rand) ==
    LET free1 == nv[filter(vol.index1)] = 0
        free2 == nv[filter(vol.index2)] = 0
        victim == IF rand = 1 THEN vol.index1 ELSE vol.index2
    IN  CASE free1 -> Inserted(<<<<filter(vol.index1), vol.fp>>>>, vol, 1)
          [] ~free1 /\ free2 -> Inserted(<<<<filter(vol.index2), vol.fp>>>>, vol, 1)
          [] OTHER -> Seg(<<<<filter(victim), vol.fp>>>>,
                          [vol EXCEPT !.index_victim = victim, !.fp_victim = nv[filter(victim)],
                                      !.relocation_count = 0],
                          "TASK_RELOCATE_VICTIM")

RelocateVictim(vol) == Seg(<<>>, [vol EXCEPT !.index_victim = xor(@, hash_to_index(vol.fp_victim))],
                           "TASK_RELOCATE_UPDATE")

RelocateUpdate(vol, nv) ==
    LET next_victim == nv[filter(vol.index_victim)]
        swap == <<<<filter(vol.index_victim), vol.fp_victim>>>>
        count == vol.relocation_count + 1
    IN  CASE next_victim = 0 -> Inserted(swap, vol, 1)
          [] next_victim # 0 /\ count >= MAX_RELOCATIONS -> Inserted(swap, vol, 0)
          [] OTHER -> Seg(swap, [vol EXCEPT !.fp_victim = next_victim, !.relocation_count = count],
                          "TASK_RELOCATE_VICTIM")

LookupCheck(vol, nv) ==
    LET member == IF vol.fp \in {nv[filter(vol.index1)], nv[filter(vol.index2)]} THEN 1 ELSE 0
    IN  Seg(<<>>, [vol EXCEPT !.members = @ + member, !.i = @ + 1],
            IF vol.i + 1 < NUM_KEYS THEN "TASK_GENERATE_KEY" ELSE "TASK_PRINT_RESULTS")

PrintResults(vol, nv) ==
    Seg(<<<<printed, [inserted |-> vol.inserts, members |-> vol.members,
                      filter |-> [i \in 0..NUM_BUCKETS-1 |-> nv[filter(i)]]]>>>>, vol, "exit")

Segment(at, vol, nv, rand) ==
    CASE at = "main" -> Clear(vol)
      [] at = "TASK_MAIN" -> Main(vol)
      [] at = "TASK_GENERATE_KEY" -> GenerateKey(vol)
      [] at = "TASK_INSERT_FINGERPRINT" -> Fingerprint(vol, "TASK_INSERT_INDEX_1")
      [] at = "TASK_INSERT_INDEX_1" -> Index1(vol, "TASK_INSERT_INDEX_2")
      [] at = "TASK_INSERT_INDEX_2" -> Index2(vol, "TASK_INSERT_UPDATE")
      [] at = "TASK_INSERT_UPDATE" -> InsertUpdate(vol, nv, rand)
      [] at = "TASK_RELOCATE_VICTIM" -> RelocateVictim(vol)
      [] at = "TASK_RELOCATE_UPDATE" -> RelocateUpdate(vol, nv)
      [] at = "TASK_LOOKUP_FINGERPRINT" -> Fingerprint(vol, "TASK_LOOKUP_INDEX_1")
      [] at = "TASK_LOOKUP_INDEX_1" -> Index1(vol, "TASK_LOOKUP_INDEX_2")
      [] at = "TASK_LOOKUP_INDEX_2" -> Index2(vol, "TASK_LOOKUP_CHECK")
      [] at = "TASK_LOOKUP_CHECK" -> LookupCheck(vol, nv)
      [] at = "TASK_PRINT_RESULTS" -> PrintResults(vol, nv)
=============================================================================
