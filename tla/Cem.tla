-------------------------------- MODULE Cem --------------------------------
(***************************************************************************)
(* The cold chain equipment monitor on Alpaca: it compresses samples with  *)
(* a dictionary that grows as it goes, a tree whose nodes are linked to    *)
(* their first child and to their next sibling.  The first NUM_LETTERS     *)
(* nodes are roots, one for each letter.  Tasks take effect as a whole,    *)
(* which AlpacaRuntime shows.                                              *)
(***************************************************************************)
EXTENDS CemNodes

VARIABLES
    curr,       \* the task to run next
    nvm,        \* the variables of GLOBAL_SB, which GV() names
    printed     \* what task_print has printed

cemVars == <<curr, nvm, printed>>

CemInit ==
    /\ curr = "_entry_task"
    /\ nvm = [letter |-> 0, letter_idx |-> 0, prev_sample |-> 0, sample |-> 0,
              sample_count |-> 0, out_len |-> 0, node_count |-> 0, symbol |-> 0,
              sibling |-> NIL, child |-> NIL, parent |-> NIL, parent_next |-> NIL,
              dict |-> [i \in 0..DICT_SIZE-1 |-> Leaf(0)],
              parent_node |-> Leaf(0), sibling_node |-> Leaf(0),
              compressed_data |-> [i \in 0..BLOCK_SIZE-1 |-> 0]]
    /\ printed = <<>>

At(t) == curr = t
TRANSITION_TO(t) == curr' = t

Entry == /\ At("_entry_task")
         /\ TRANSITION_TO("task_init")
         /\ UNCHANGED <<nvm, printed>>

TaskInit ==
    /\ At("task_init")
    /\ nvm' = [nvm EXCEPT !.parent_next = 0, !.out_len = 0, !.letter = 0, !.prev_sample = 0,
                          !.letter_idx = 0, !.sample_count = 1]
    /\ TRANSITION_TO("task_init_dict")
    /\ UNCHANGED printed

InitDict ==
    LET last == nvm.letter + 1 = NUM_LETTERS
    IN  /\ At("task_init_dict")
        /\ nvm' = [nvm EXCEPT !.dict[nvm.letter] = Leaf(nvm.letter),
                              !.letter = @ + 1,
                              !.node_count = IF last THEN NUM_LETTERS ELSE @]
        /\ TRANSITION_TO(IF last THEN "task_sample" ELSE "task_init_dict")
        /\ UNCHANGED printed

Sample ==
    /\ At("task_sample")
    /\ nvm' = [nvm EXCEPT !.letter_idx = (@ + 1) % NUM_LETTERS_IN_SAMPLE]
    /\ TRANSITION_TO(IF nvm.letter_idx = 0 THEN "task_measure_temp" ELSE "task_letterize")
    /\ UNCHANGED printed

MeasureTemp ==
    /\ At("task_measure_temp")
    /\ nvm' = [nvm EXCEPT !.prev_sample = acquire_sample(@),
                          !.sample = acquire_sample(nvm.prev_sample)]
    /\ TRANSITION_TO("task_letterize")
    /\ UNCHANGED printed

Letterize ==
    /\ At("task_letterize")
    /\ nvm' = [nvm EXCEPT !.letter = Letter(nvm.sample, IF nvm.letter_idx = 0 THEN NUM_LETTERS_IN_SAMPLE
                                                        ELSE nvm.letter_idx - 1)]
    /\ TRANSITION_TO("task_compress")
    /\ UNCHANGED printed

Compress ==
    LET node == nvm.dict[nvm.parent_next]
    IN  /\ At("task_compress")
        /\ nvm' = [nvm EXCEPT !.sibling = node.child, !.parent_node = node,
                              !.parent = nvm.parent_next, !.child = node.child,
                              !.sample_count = @ + 1]
        /\ TRANSITION_TO("task_find_sibling")
        /\ UNCHANGED printed

\* Leaves task_find_sibling without a match.
NotFound == /\ nvm' = [nvm EXCEPT !.parent_next = nvm.letter]
            /\ TRANSITION_TO(IF nvm.child = NIL THEN "task_add_insert" ELSE "task_add_node")

\* (Bug) The last sibling is taken to have another letter: it is not looked at.
FindSibling_SkipsLast ==
    LET node == nvm.dict[nvm.sibling]
    IN  /\ At("task_find_sibling")
        /\ \/ /\ nvm.sibling # NIL /\ node.sibling # NIL /\ node.letter = nvm.letter
              /\ nvm' = [nvm EXCEPT !.parent_next = nvm.sibling]
              /\ TRANSITION_TO("task_letterize")
           \/ /\ nvm.sibling # NIL /\ node.sibling # NIL /\ node.letter # nvm.letter
              /\ nvm' = [nvm EXCEPT !.sibling = node.sibling]
              /\ TRANSITION_TO("task_find_sibling")
           \/ /\ nvm.sibling # NIL => node.sibling = NIL
              /\ NotFound
        /\ UNCHANGED printed

FindSibling ==
    LET node == nvm.dict[nvm.sibling]
    IN  /\ At("task_find_sibling")
        /\ \/ /\ nvm.sibling # NIL /\ node.letter = nvm.letter
              /\ nvm' = [nvm EXCEPT !.parent_next = nvm.sibling]
              /\ TRANSITION_TO("task_letterize")
           \/ /\ nvm.sibling # NIL /\ node.letter # nvm.letter /\ node.sibling # NIL
              /\ nvm' = [nvm EXCEPT !.sibling = node.sibling]
              /\ TRANSITION_TO("task_find_sibling")
           \/ /\ nvm.sibling # NIL => node.letter # nvm.letter /\ node.sibling = NIL
              /\ NotFound
        /\ UNCHANGED printed

AddNode ==
    LET node == nvm.dict[nvm.sibling]
    IN  /\ At("task_add_node")
        /\ \/ /\ node.sibling # NIL
              /\ nvm' = [nvm EXCEPT !.sibling = node.sibling]
              /\ TRANSITION_TO("task_add_node")
           \/ /\ node.sibling = NIL
              /\ nvm' = [nvm EXCEPT !.sibling_node = node]
              /\ TRANSITION_TO("task_add_insert")
        /\ UNCHANGED printed

\* (Bug) The new node is always linked as the parent's only child.
Linked_OnlyChild == [nvm.dict EXCEPT ![nvm.parent] = [nvm.parent_node EXCEPT !.child = nvm.node_count]]

\* The dictionary with node node_count linked into it.
Linked == IF nvm.parent_node.child = NIL
          THEN [nvm.dict EXCEPT ![nvm.parent] = [nvm.parent_node EXCEPT !.child = nvm.node_count]]
          ELSE [nvm.dict EXCEPT ![nvm.sibling] = [nvm.sibling_node EXCEPT !.sibling = nvm.node_count]]

\* When the dictionary is full the task never ends.
AddInsert ==
    /\ At("task_add_insert")
    /\ nvm.node_count # DICT_SIZE
    /\ nvm' = [nvm EXCEPT !.dict = [Linked EXCEPT ![nvm.node_count] = Leaf(nvm.letter)],
                          !.symbol = nvm.parent,
                          !.node_count = @ + 1]
    /\ TRANSITION_TO("task_append_compressed")
    /\ UNCHANGED printed

AppendCompressed ==
    /\ At("task_append_compressed")
    /\ nvm' = [nvm EXCEPT !.compressed_data[nvm.out_len] = nvm.symbol, !.out_len = @ + 1]
    /\ TRANSITION_TO(IF nvm.out_len + 1 = BLOCK_SIZE THEN "task_print" ELSE "task_sample")
    /\ UNCHANGED printed

PrintBlock ==
    /\ At("task_print")
    /\ printed' = [data |-> nvm.compressed_data, sample_count |-> nvm.sample_count]
    /\ TRANSITION_TO("exit")
    /\ UNCHANGED nvm

CemNext ==
    \/ Entry    \/ TaskInit     \/ InitDict  \/ Sample     \/ MeasureTemp       \/ Letterize
    \/ Compress \/ FindSibling  \/ AddNode   \/ AddInsert  \/ AppendCompressed  \/ PrintBlock

CemSpec == CemInit /\ [][CemNext]_cemVars
-----------------------------------------------------------------------------
\* Whenever a sample begins, the dictionary is a forest: children and siblings
\* lead through nodes that have been made, each reached in one way.
DictionaryIsForest == At("task_sample") => IsForest(nvm.dict, nvm.node_count)

\* Whenever a sample begins, what has been written to the log is enough to make
\* the same dictionary again: its next symbol names the node the next one is
\* added to, and the search has found every child that has the letter.
LogTellsDictionary ==
    At("task_sample") => IsToldBy(nvm.dict, nvm.node_count, nvm.compressed_data)

\* task_add_insert finds the dictionary full never, and so does not wait for ever.
DictionaryHasRoom == At("task_add_insert") => nvm.node_count < DICT_SIZE
-----------------------------------------------------------------------------
(* The inductive invariant.                                                *)

\* The dictionary holds the letters and a node for each symbol of the log.
LogFitsDictionary ==
    /\ NUM_LETTERS \in Nat \ {0} /\ BLOCK_SIZE \in Nat \ {0} /\ DICT_SIZE \in Nat
    /\ NUM_LETTERS + BLOCK_SIZE <= DICT_SIZE

Index == 0..DICT_SIZE-1
Node == [letter : 0..NUM_LETTERS-1, sibling : Index, child : Index]

Memory == [letter : 0..NUM_LETTERS, letter_idx : 0..NUM_LETTERS_IN_SAMPLE-1,
           prev_sample : 0..3, sample : 0..3, sample_count : Nat, out_len : 0..BLOCK_SIZE,
           node_count : 0..DICT_SIZE, symbol : Index, sibling : Index, child : Index,
           parent : Index, parent_next : Index, dict : [Index -> Node],
           parent_node : Node, sibling_node : Node,
           compressed_data : [0..BLOCK_SIZE-1 -> Index]]

\* The tasks that search the dictionary and add to it.
Search == {"task_compress", "task_find_sibling", "task_add_node", "task_add_insert"}

\* The tasks that run when the roots have been made.
Compressing == {"task_sample", "task_measure_temp", "task_letterize"} \cup Search
               \cup {"task_append_compressed", "task_print", "exit"}

CemTypeOK ==
    /\ curr \in {"_entry_task", "task_init", "task_init_dict"} \cup Compressing
    /\ nvm \in Memory

\* Roots have no links when they are made.
RootsInv ==
    curr = "task_init_dict" =>
        /\ nvm.letter < NUM_LETTERS /\ nvm.out_len = 0 /\ nvm.parent_next = 0
        /\ \A i \in 0..nvm.letter-1 : nvm.dict[i] = Leaf(i)

\* A node for each symbol, and one more for the symbol that is about to be
\* written to the log.
NodesInv ==
    curr \in Compressing =>
        /\ nvm.node_count = NUM_LETTERS + nvm.out_len
                            + (IF curr = "task_append_compressed" THEN 1 ELSE 0)
        /\ curr \notin {"task_print", "exit"} => nvm.out_len < BLOCK_SIZE
        /\ nvm.parent_next < nvm.node_count
        /\ curr \in Search => nvm.letter < NUM_LETTERS

\* The nodes that are not roots, and the one each was added under.
Added == NUM_LETTERS..nvm.node_count-1
Parent(j) == IF j = NUM_LETTERS + nvm.out_len THEN nvm.symbol
             ELSE nvm.compressed_data[j - NUM_LETTERS]

\* A node leads to the first one added under it, and from there each to the
\* next one added under the same node.
ParentInv == curr \in Compressing => \A j \in Added : Parent(j) \in 0..j-1
ChildInv ==
    curr \in Compressing =>
        /\ \A i \in 0..nvm.node_count-1 :
              LET c == nvm.dict[i].child IN c # NIL => c \in Added /\ Parent(c) = i
        /\ \A j \in Added : nvm.dict[Parent(j)].child \in NUM_LETTERS..j
SiblingInv ==
    curr \in Compressing =>
        /\ \A i \in 0..nvm.node_count-1 :
              LET s == nvm.dict[i].sibling
              IN  s # NIL => i \in Added /\ s \in Added /\ i < s /\ Parent(s) = Parent(i)
        /\ \A i, j \in Added : i < j /\ Parent(i) = Parent(j) => nvm.dict[i].sibling \in i+1..j
LetterInv ==
    curr \in Compressing =>
        \A i, j \in Added : i # j /\ Parent(i) = Parent(j) => nvm.dict[i].letter # nvm.dict[j].letter

\* What the search knows: the copies task_compress and task_add_node have taken
\* are those of nodes that have not changed since, and no child it has passed has
\* the letter.
SearchInv ==
    /\ curr \in Search \ {"task_compress"} =>
          /\ nvm.parent < nvm.node_count
          /\ nvm.parent_node = nvm.dict[nvm.parent] /\ nvm.child = nvm.parent_node.child
          /\ IF nvm.child = NIL THEN nvm.sibling = NIL /\ curr # "task_add_node"
             ELSE nvm.sibling \in Added /\ Parent(nvm.sibling) = nvm.parent
    /\ curr = "task_find_sibling" =>
          \A j \in Added : Parent(j) = nvm.parent /\ j < nvm.sibling => nvm.dict[j].letter # nvm.letter
    /\ curr \in {"task_add_node", "task_add_insert"} =>
          \A j \in Added : Parent(j) = nvm.parent => nvm.dict[j].letter # nvm.letter
    /\ curr = "task_add_insert" /\ nvm.child # NIL =>
          nvm.sibling_node = nvm.dict[nvm.sibling] /\ nvm.sibling_node.sibling = NIL

CemInv == /\ CemTypeOK /\ RootsInv /\ NodesInv
          /\ ParentInv /\ ChildInv /\ SiblingInv /\ LetterInv /\ SearchInv
=============================================================================
