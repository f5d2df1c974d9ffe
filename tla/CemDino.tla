------------------------------- MODULE CemDino -------------------------------
(***************************************************************************)
(* The cold chain equipment monitor on DINO: the dictionary and the log    *)
(* are in non-volatile memory, the rest in locals.  A word of non-volatile *)
(* memory is named by a tuple, the name of a variable and its indexes.     *)
(***************************************************************************)
EXTENDS CemNodes

letter(i) == <<"letter", i>>
sibling(i) == <<"sibling", i>>
child(i) == <<"child", i>>
data(i) == <<"data", i>>
node_count == <<"node_count">>
count == <<"count">>
sample_count == <<"sample_count">>
printed == <<"printed">>    \* the output

Words == {letter(i) : i \in 0..DICT_SIZE-1} \cup {sibling(i) : i \in 0..DICT_SIZE-1}
         \cup {child(i) : i \in 0..DICT_SIZE-1} \cup {data(i) : i \in 0..BLOCK_SIZE-1}
         \cup {node_count, count, sample_count}

Start == [at |-> "main",
          vol |-> [l |-> 0, letter |-> 0, letter_idx |-> 0, parent |-> NIL, child |-> NIL,
                   sample |-> 0, prev_sample |-> 0, sibling |-> NIL, node_index |-> NIL],
          nv |-> [w \in Words \cup {printed} |-> IF w = printed THEN <<>> ELSE 0]]

Seg(stores, vol, b) == [stores |-> stores, vol |-> vol, next |-> b]

\* The variables with a DINO_MANUAL_VERSION_VAL before a boundary.
Versioned(at) == CASE at \in {"TASK_INIT_DICT", "TASK_ADD_NODE_INIT"} -> {node_count}
                   [] at = "TASK_MAIN_LOOP" -> {sample_count}
                   [] at = "TASK_APPEND_COMPRESSED" -> {count}
                   [] OTHER -> {}

Node(i, l) == <<<<letter(i), l>>, <<sibling(i), NIL>>, <<child(i), NIL>>>>

Main(vol, nv) == Seg(<<<<node_count, 0>>>>, [vol EXCEPT !.l = 0], "TASK_INIT_DICT")

InitDict(vol, nv) ==
    LET node == Node(vol.l, vol.l) \o <<<<node_count, nv[node_count] + 1>>>>
    IN  IF vol.l + 1 < NUM_LETTERS THEN Seg(node, [vol EXCEPT !.l = @ + 1], "TASK_INIT_DICT")
        ELSE Seg(node \o <<<<sample_count, 1>>, <<count, 0>>>>,
                 [vol EXCEPT !.l = @ + 1, !.letter = 0, !.letter_idx = 0, !.prev_sample = 0],
                 "TASK_COMPRESS")

Compress(vol, nv) ==
    LET s == acquire_sample(vol.prev_sample)
        sampled == IF vol.letter_idx = 0 THEN [vol EXCEPT !.sample = s, !.prev_sample = s] ELSE vol
    IN  Seg(<<>>, [sampled EXCEPT !.child = vol.letter,
                                  !.letter_idx = (@ + 1) % NUM_LETTERS_IN_SAMPLE], "TASK_MAIN_LOOP")

CountSample(vol, nv) ==
    Seg(<<<<sample_count, nv[sample_count] + 1>>>>,
        [vol EXCEPT !.parent = vol.child,
                    !.letter = Letter(vol.sample, IF vol.letter_idx = 0 THEN NUM_LETTERS_IN_SAMPLE
                                                  ELSE vol.letter_idx - 1)],
        "TASK_FIND_CHILD")

\* find_child() goes on to sibling i, or returns NIL.
TrySibling(vol, i) == IF i = NIL THEN Seg(<<>>, [vol EXCEPT !.child = NIL], "TASK_APPEND_COMPRESSED")
                      ELSE Seg(<<>>, [vol EXCEPT !.sibling = i], "TASK_FIND_SIBLING")

FindChild(vol, nv) == TrySibling(vol, nv[child(vol.parent)])

FindSibling(vol, nv) ==
    IF nv[letter(vol.sibling)] = vol.letter
    THEN Seg(<<>>, [vol EXCEPT !.child = vol.sibling], "TASK_MAIN_LOOP")
    ELSE TrySibling(vol, nv[sibling(vol.sibling)])

AppendCompressed(vol, nv) ==
    Seg(<<<<data(nv[count]), vol.parent>>, <<count, nv[count] + 1>>>>, vol, "TASK_ADD_NODE")

AddNode(vol, nv) == Seg(<<>>, vol, IF nv[node_count] = DICT_SIZE THEN "table full" ELSE "TASK_ADD_NODE_INIT")

\* The head of the loop that looks for the last sibling, from sibling i on.
FindLast(stores, vol, nv, i) ==
    Seg(stores, [vol EXCEPT !.sibling = i],
        IF nv[sibling(i)] # NIL THEN "TASK_ADD_NODE_FIND_LAST" ELSE "TASK_ADD_NODE_LINK_SIBLING")

AddNodeInit(vol, nv) ==
    LET n == nv[node_count]
        node == Node(n, vol.letter) \o <<<<node_count, n + 1>>>>
        first == nv[child(vol.parent)]
        linking == [vol EXCEPT !.node_index = n]
    IN  IF first = NIL THEN Seg(node, linking, "TASK_ADD_NODE_LINK_CHILD")
        ELSE FindLast(node, linking, nv, first)

AddNodeFindLast(vol, nv) == FindLast(<<>>, vol, nv, nv[sibling(vol.sibling)])

Link(w, vol, nv) == Seg(<<<<w, vol.node_index>>>>, vol,
                        IF nv[count] = BLOCK_SIZE THEN "TASK_PRINT" ELSE "TASK_COMPRESS")

PrintLog(vol, nv) ==
    Seg(<<<<printed, <<[i \in 0..nv[count]-1 |-> nv[data(i)]], nv[sample_count]>>>>,
          <<count, 0>>, <<sample_count, 0>>>>, vol, "exit")

Segment(at, vol, nv) ==
    CASE at = "main" -> Seg(<<>>, vol, "TASK_MAIN")
      [] at = "TASK_MAIN" -> Main(vol, nv)
      [] at = "TASK_INIT_DICT" -> InitDict(vol, nv)
      [] at = "TASK_COMPRESS" -> Compress(vol, nv)
      [] at = "TASK_MAIN_LOOP" -> CountSample(vol, nv)
      [] at = "TASK_FIND_CHILD" -> FindChild(vol, nv)
      [] at = "TASK_FIND_SIBLING" -> FindSibling(vol, nv)
      [] at = "TASK_APPEND_COMPRESSED" -> AppendCompressed(vol, nv)
      [] at = "TASK_ADD_NODE" -> AddNode(vol, nv)
      [] at = "TASK_ADD_NODE_INIT" -> AddNodeInit(vol, nv)
      [] at = "TASK_ADD_NODE_FIND_LAST" -> AddNodeFindLast(vol, nv)
      [] at = "TASK_ADD_NODE_LINK_SIBLING" -> Link(sibling(vol.sibling), vol, nv)
      [] at = "TASK_ADD_NODE_LINK_CHILD" -> Link(child(vol.parent), vol, nv)
      [] at = "TASK_PRINT" -> PrintLog(vol, nv)
=============================================================================
