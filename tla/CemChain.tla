------------------------------ MODULE CemChain ------------------------------
(***************************************************************************)
(* The cold chain equipment monitor on Chain.  The dictionary is in two    *)
(* multicast channels, the roots as they were made and the nodes as they   *)
(* were changed or added, so that only the latter need a field of their    *)
(* own; a task that follows a link finds the node in either.               *)
(***************************************************************************)
EXTENDS ChainProgram, CemNodes

VARIABLE out
vars == <<task, time, chan, out>>

ch_roots == MC_CH("ch_roots", "task_init_dict")
ch_dict == MC_CH("ch_dict", "task_add_insert")
ch_letter == MC_CH("ch_letter", "task_letterize")
ch_sibling == MC_CH("ch_sibling", "task_compress")

Init == ChainInit /\ out = <<>>

Enter == /\ At("_entry_task")
         /\ TRANSITION_TO("task_init", NoOutput)
         /\ UNCHANGED out

TaskInit ==
    /\ At("task_init")
    /\ TRANSITION_TO("task_init_dict",
           CHAN_OUT("parent", 0, {CH("task_init", "task_compress")})
           @@ CHAN_OUT("out_len", 0, {CH("task_init", "task_append_compressed")})
           @@ CHAN_OUT("letter", 0, {CH("task_init", "task_init_dict")})
           @@ CHAN_OUT("prev_sample", 0, {CH("task_init", "task_measure_temp")})
           @@ CHAN_OUT("letter_idx", 0, {CH("task_init", "task_sample")})
           @@ CHAN_OUT("sample_count", 1, {CH("task_init", "task_compress")}))
    /\ UNCHANGED out

InitDict ==
    /\ At("task_init_dict")
    /\ \E letter \in CHAN_IN("letter", <<CH("task_init", "task_init_dict"), SELF_CH("task_init_dict")>>) :
         LET root == CHAN_OUT_ELEM("dict", letter, Leaf(letter), {ch_roots})
         IN  IF letter + 1 < NUM_LETTERS
             THEN TRANSITION_TO("task_init_dict",
                      root @@ CHAN_OUT("letter", letter + 1, {SELF_CH("task_init_dict")}))
             ELSE TRANSITION_TO("task_sample",
                      root @@ CHAN_OUT("node_count", NUM_LETTERS, {CH("task_init_dict", "task_add_insert")}))
    /\ UNCHANGED out

Sample ==
    /\ At("task_sample")
    /\ \E letter_idx \in CHAN_IN("letter_idx", <<CH("task_init", "task_sample"), SELF_CH("task_sample")>>) :
         TRANSITION_TO(IF letter_idx = 0 THEN "task_measure_temp" ELSE "task_letterize",
             CHAN_OUT("letter_idx", letter_idx, {CH("task_sample", "task_letterize")})
             @@ CHAN_OUT("letter_idx", (letter_idx + 1) % NUM_LETTERS_IN_SAMPLE, {SELF_CH("task_sample")}))
    /\ UNCHANGED out

MeasureTemp ==
    /\ At("task_measure_temp")
    /\ \E prev \in CHAN_IN("prev_sample", <<CH("task_init", "task_measure_temp"), SELF_CH("task_measure_temp")>>) :
         TRANSITION_TO("task_letterize",
             CHAN_OUT("prev_sample", acquire_sample(prev), {SELF_CH("task_measure_temp")})
             @@ CHAN_OUT("sample", acquire_sample(prev), {CH("task_measure_temp", "task_letterize")}))
    /\ UNCHANGED out

Letterize ==
    /\ At("task_letterize")
    /\ \E sample \in CHAN_IN("sample", <<CH("task_measure_temp", "task_letterize")>>),
          letter_idx \in CHAN_IN("letter_idx", <<CH("task_sample", "task_letterize")>>) :
         TRANSITION_TO("task_compress", CHAN_OUT("letter", Letter(sample, letter_idx), {ch_letter}))
    /\ UNCHANGED out

\* Node i of the dictionary.
Node(i) == CHAN_IN_ELEM("dict", i, IF i < NUM_LETTERS THEN <<ch_roots, ch_dict>> ELSE <<ch_dict>>)

Compress ==
    /\ At("task_compress")
    /\ \E parent \in CHAN_IN("parent", <<CH("task_init", "task_compress"), CH("task_find_sibling", "task_compress")>>),
          sample_count \in CHAN_IN("sample_count", <<CH("task_init", "task_compress"), SELF_CH("task_compress"),
                                                     CH("task_append_compressed", "task_compress")>>) :
       \E parent_node \in Node(parent) :
         TRANSITION_TO("task_find_sibling",
             CHAN_OUT("sibling", parent_node.child, {ch_sibling})
             @@ CHAN_OUT("parent_node", parent_node, {CH("task_compress", "task_add_insert")})
             @@ CHAN_OUT("parent", parent, {CH("task_compress", "task_add_insert")})
             @@ CHAN_OUT("child", parent_node.child, {CH("task_compress", "task_find_sibling")})
             @@ CHAN_OUT("sample_count", sample_count + 1,
                         {SELF_CH("task_compress"), CH("task_compress", "task_append_compressed")}))
    /\ UNCHANGED out

FindSibling ==
    LET to_compress(parent) == CHAN_OUT("parent", parent, {CH("task_find_sibling", "task_compress")})
    IN  /\ At("task_find_sibling")
        /\ \E sibling \in CHAN_IN("sibling", <<ch_sibling, SELF_CH("task_find_sibling")>>),
              letter \in CHAN_IN("letter", <<ch_letter>>) :
             \/ /\ sibling # NIL
                /\ \E sibling_node \in Node(sibling) :
                     IF sibling_node.letter = letter
                     THEN TRANSITION_TO("task_letterize", to_compress(sibling))
                     ELSE TRANSITION_TO("task_find_sibling",
                              CHAN_OUT("sibling", sibling_node.sibling, {SELF_CH("task_find_sibling")}))
             \/ /\ sibling = NIL
                /\ \E child \in CHAN_IN("child", <<CH("task_compress", "task_find_sibling")>>) :
                     TRANSITION_TO(IF child = NIL THEN "task_add_insert" ELSE "task_add_node",
                                   to_compress(letter))
        /\ UNCHANGED out

AddNode ==
    /\ At("task_add_node")
    /\ \E sibling \in CHAN_IN("sibling", <<ch_sibling, SELF_CH("task_add_node")>>) :
       \E node \in Node(sibling) :
         IF node.sibling # NIL
         THEN TRANSITION_TO("task_add_node", CHAN_OUT("sibling", node.sibling, {SELF_CH("task_add_node")}))
         ELSE TRANSITION_TO("task_add_insert",
                  CHAN_OUT("sibling", sibling, {CH("task_add_node", "task_add_insert")})
                  @@ CHAN_OUT("sibling_node", node, {CH("task_add_node", "task_add_insert")}))
    /\ UNCHANGED out

\* The links that make node child a child of parent: from the parent if it has
\* none yet, else from its last one, which task_add_node has found.
Link(parent, parent_node, child) ==
    IF parent_node.child = NIL
    THEN {CHAN_OUT_ELEM("dict", parent, [parent_node EXCEPT !.child = child], {ch_dict})}
    ELSE {CHAN_OUT_ELEM("dict", last, [last_node EXCEPT !.sibling = child], {ch_dict}) :
              last \in CHAN_IN("sibling", <<CH("task_add_node", "task_add_insert")>>),
              last_node \in CHAN_IN("sibling_node", <<CH("task_add_node", "task_add_insert")>>)}

\* When the dictionary is full the task never ends.
AddInsert ==
    /\ At("task_add_insert")
    /\ \E child \in CHAN_IN("node_count", <<CH("task_init_dict", "task_add_insert"), SELF_CH("task_add_insert")>>),
          parent \in CHAN_IN("parent", <<CH("task_compress", "task_add_insert")>>),
          parent_node \in CHAN_IN("parent_node", <<CH("task_compress", "task_add_insert")>>),
          letter \in CHAN_IN("letter", <<ch_letter>>) :
         /\ child # DICT_SIZE
         /\ \E link \in Link(parent, parent_node, child) :
              TRANSITION_TO("task_append_compressed",
                  CHAN_OUT_ELEM("dict", child, Leaf(letter), {ch_dict})
                  @@ link
                  @@ CHAN_OUT("symbol", parent, {CH("task_add_insert", "task_append_compressed")})
                  @@ CHAN_OUT("node_count", child + 1, {SELF_CH("task_add_insert")}))
    /\ UNCHANGED out

AppendCompressed ==
    /\ At("task_append_compressed")
    /\ \E symbol \in CHAN_IN("symbol", <<CH("task_add_insert", "task_append_compressed")>>),
          out_len \in CHAN_IN("out_len", <<CH("task_init", "task_append_compressed"),
                                           SELF_CH("task_append_compressed")>>) :
         LET data == CHAN_OUT_ELEM("compressed_data", out_len, symbol, {CH("task_append_compressed", "task_print")})
         IN  IF out_len + 1 = BLOCK_SIZE
             THEN \E sample_count \in CHAN_IN("sample_count", <<CH("task_compress", "task_append_compressed")>>) :
                  TRANSITION_TO("task_print",
                      data
                      @@ CHAN_OUT("sample_count", sample_count, {CH("task_append_compressed", "task_print")})
                      @@ CHAN_OUT("sample_count", 0, {CH("task_append_compressed", "task_compress")})
                      @@ CHAN_OUT("out_len", 0, {SELF_CH("task_append_compressed")}))
             ELSE TRANSITION_TO("task_sample",
                      data @@ CHAN_OUT("out_len", out_len + 1, {SELF_CH("task_append_compressed")}))
    /\ UNCHANGED out

PrintBlock ==
    LET to_print == <<CH("task_append_compressed", "task_print")>>
    IN  /\ At("task_print")
        /\ \E data \in CHAN_IN_ARRAY("compressed_data", 0..BLOCK_SIZE-1, to_print),
              sample_count \in CHAN_IN("sample_count", to_print) :
             out' = [data |-> data, sample_count |-> sample_count]
        /\ TRANSITION_TO("exit", NoOutput)

Next == \/ Enter    \/ TaskInit     \/ InitDict  \/ Sample     \/ MeasureTemp       \/ Letterize
        \/ Compress \/ FindSibling  \/ AddNode   \/ AddInsert  \/ AppendCompressed  \/ PrintBlock

Spec == Init /\ [][Next]_vars
-----------------------------------------------------------------------------
\* The dictionary, how many nodes it has, and the log, as the channels hold them.
node_count == Latest({<<CH("task_init_dict", "task_add_insert"), Field("node_count")>>,
                      <<SELF_CH("task_add_insert"), Field("node_count")>>}, 0)
dict == [i \in 0..node_count-1 |-> Latest({<<ch_roots, Elem("dict", i)>>, <<ch_dict, Elem("dict", i)>>}, Leaf(0))]
compressed_data ==
    [k \in 0..node_count-NUM_LETTERS-1 |->
        Latest({<<CH("task_append_compressed", "task_print"), Elem("compressed_data", k)>>}, 0)]

\* As in Cem.
DictionaryIsForest == At("task_sample") => IsForest(dict, node_count)

\* As in Cem.
LogTellsDictionary == At("task_sample") => IsToldBy(dict, node_count, compressed_data)
=============================================================================
