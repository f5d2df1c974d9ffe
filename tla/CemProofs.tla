----------------------------- MODULE CemProofs -----------------------------
(***************************************************************************)
(* Proofs about Cem: the dictionary of the cold chain equipment monitor is *)
(* a forest that the compressed log tells, and it is never full, for any   *)
(* number of letters and any log that fits the dictionary.                 *)
(***************************************************************************)
EXTENDS Cem, FiniteSetTheorems, FunctionTheorems, WellFoundedInduction, TLAPS

\* What the sizes say about indexes and nodes.
LEMMA Sizes ==
    ASSUME LogFitsDictionary
    PROVE  /\ NUM_LETTERS \in Nat /\ BLOCK_SIZE \in Nat /\ DICT_SIZE \in Nat
           /\ 0 < NUM_LETTERS /\ 0 < BLOCK_SIZE /\ NUM_LETTERS + BLOCK_SIZE <= DICT_SIZE
           /\ NIL = 0 /\ NIL \in Index /\ NUM_LETTERS_IN_SAMPLE = 2
           /\ \A l \in 0..NUM_LETTERS-1 : Leaf(l) \in Node
           /\ \A l : Leaf(l).letter = l /\ Leaf(l).sibling = 0 /\ Leaf(l).child = 0
BY DEF LogFitsDictionary, NIL, Index, Leaf, Node, NUM_LETTERS_IN_SAMPLE

\* A letter of a sample is a letter.
LEMMA Letters ==
    ASSUME LogFitsDictionary, NEW s \in 0..3, NEW i \in {0, NUM_LETTERS_IN_SAMPLE}
    PROVE  Letter(s, i) \in 0..NUM_LETTERS-1
<1>1. CASE i = 0
  <2> DEFINE shift == LETTER_SIZE_BITS * i
  <2>1. shift = 0 /\ WordBits = 16
    BY <1>1 DEF LETTER_SIZE_BITS, WordBits
  <2>2. Letter(s, i) = IF shift >= WordBits THEN 0 ELSE (s \div 2^shift) % NUM_LETTERS
    BY Zenon DEF Letter
  <2> HIDE DEF shift
  <2>3. s \div 2^0 \in Int
    OBVIOUS
  <2>4. Letter(s, i) = IF 0 >= 16 THEN 0 ELSE (s \div 2^0) % NUM_LETTERS
    BY <2>1, <2>2, Zenon
  <2> QED
    BY <2>3, <2>4, Sizes
<1>2. CASE i = NUM_LETTERS_IN_SAMPLE
  <2>1. LETTER_SIZE_BITS * i = 16 /\ WordBits = 16
    BY <1>2 DEF LETTER_SIZE_BITS, WordBits, NUM_LETTERS_IN_SAMPLE
  <2> QED
    BY <2>1, Sizes DEF Letter
<1> QED
  BY <1>1, <1>2

\* The fields of the memory.
LEMMA Fields ==
    ASSUME CemTypeOK
    PROVE  /\ nvm.letter \in 0..NUM_LETTERS /\ nvm.letter_idx \in 0..NUM_LETTERS_IN_SAMPLE-1
           /\ nvm.prev_sample \in 0..3 /\ nvm.sample \in 0..3 /\ nvm.sample_count \in Nat
           /\ nvm.out_len \in 0..BLOCK_SIZE /\ nvm.node_count \in 0..DICT_SIZE
           /\ nvm.symbol \in Index /\ nvm.sibling \in Index /\ nvm.child \in Index
           /\ nvm.parent \in Index /\ nvm.parent_next \in Index
           /\ nvm.dict \in [Index -> Node] /\ nvm.parent_node \in Node /\ nvm.sibling_node \in Node
           /\ nvm.compressed_data \in [0..BLOCK_SIZE-1 -> Index]
BY DEF CemTypeOK, Memory

\* No dictionary yet, so that there is nothing to say of it.
LEMMA InitHolds == ASSUME LogFitsDictionary, CemInit PROVE CemInv
<1>1. nvm \in Memory
  BY Sizes DEF CemInit, Memory, Index
<1>2. curr \notin Compressing /\ curr # "task_init_dict" /\ curr \notin Search
  BY DEF CemInit, Compressing, Search
<1>3. CemTypeOK
  BY <1>1 DEF CemTypeOK, CemInit
<1> QED
  BY <1>2, <1>3 DEF CemInv, RootsInv, NodesInv, ParentInv, ChildInv, SiblingInv, LetterInv, SearchInv,
                    Search, Compressing

\* Types, task by task.
LEMMA TypeKept == ASSUME LogFitsDictionary, CemInv, CemNext PROVE CemTypeOK'
<1>. /\ nvm \in Memory /\ NUM_LETTERS \in Nat /\ 0 < NUM_LETTERS /\ NIL \in Index
     /\ 0 \in Index /\ CemTypeOK /\ NUM_LETTERS \in Index
  BY Sizes DEF CemInv, CemTypeOK, Index
<1> USE DEF At, TRANSITION_TO
<1>1. CASE Entry
  BY <1>1 DEF Entry, CemTypeOK
<1>2. CASE TaskInit
  <2>1. /\ 0 \in 0..NUM_LETTERS /\ 0 \in 0..NUM_LETTERS_IN_SAMPLE-1 /\ 0 \in 0..BLOCK_SIZE
        /\ 0 \in 0..3 /\ 1 \in Nat
    BY Sizes
  <2>2. nvm' = [nvm EXCEPT !.parent_next = 0, !.out_len = 0, !.letter = 0, !.prev_sample = 0,
                           !.letter_idx = 0, !.sample_count = 1]
    BY <1>2 DEF TaskInit
  <2>3. nvm' \in Memory
    BY <2>1, <2>2 DEF Memory
  <2> QED
    BY <1>2, <2>3 DEF TaskInit, CemTypeOK
<1>3. CASE InitDict
  <2>1. nvm.letter \in 0..NUM_LETTERS-1 /\ Leaf(nvm.letter) \in Node /\ nvm.dict \in [Index -> Node]
    BY <1>3, Fields, Sizes DEF InitDict, CemInv, RootsInv
  <2>2. [nvm.dict EXCEPT ![nvm.letter] = Leaf(nvm.letter)] \in [Index -> Node]
    BY <2>1
  <2> DEFINE d == [nvm.dict EXCEPT ![nvm.letter] = Leaf(nvm.letter)]
             c == IF nvm.letter + 1 = NUM_LETTERS THEN NUM_LETTERS ELSE nvm.node_count
  <2>3. nvm' = [nvm EXCEPT !.dict = d, !.letter = nvm.letter + 1, !.node_count = c]
    BY <1>3 DEF InitDict
  <2>4. d \in [Index -> Node] /\ c \in 0..DICT_SIZE /\ nvm.letter + 1 \in 0..NUM_LETTERS
    BY <2>1, <2>2, Sizes, Fields
  <2> HIDE DEF d, c
  <2>5. nvm' \in Memory
    BY <2>3, <2>4 DEF Memory
  <2> QED
    BY <1>3, <2>5 DEF InitDict, CemTypeOK, Compressing
<1>4. CASE Sample
  <2>1. nvm' \in Memory
    BY <1>4 DEF Sample, Memory, NUM_LETTERS_IN_SAMPLE
  <2> QED
    BY <1>4, <2>1 DEF Sample, CemTypeOK, Compressing
<1>5. CASE MeasureTemp
  <2>1. acquire_sample(nvm.prev_sample) \in 0..3
    BY Fields DEF acquire_sample
  <2>2. nvm' = [nvm EXCEPT !.prev_sample = acquire_sample(nvm.prev_sample),
                           !.sample = acquire_sample(nvm.prev_sample)]
    BY <1>5 DEF MeasureTemp
  <2>3. nvm' \in Memory
    BY <2>1, <2>2 DEF Memory
  <2> QED
    BY <1>5, <2>3 DEF MeasureTemp, CemTypeOK, Compressing
<1>6. CASE Letterize
  <2> DEFINE l == Letter(nvm.sample, IF nvm.letter_idx = 0 THEN NUM_LETTERS_IN_SAMPLE
                                     ELSE nvm.letter_idx - 1)
  <2>1. l \in 0..NUM_LETTERS-1
    <3>1. nvm.sample \in 0..3 /\ nvm.letter_idx \in {0, 1} /\ NUM_LETTERS_IN_SAMPLE = 2
      BY Fields, Sizes
    <3>2. CASE nvm.letter_idx = 0
      BY <3>1, <3>2, Letters
    <3>3. CASE nvm.letter_idx = 1
      BY <3>1, <3>3, Letters
    <3> QED
      BY <3>1, <3>2, <3>3
  <2>2. nvm' = [nvm EXCEPT !.letter = l]
    BY <1>6 DEF Letterize
  <2> HIDE DEF l
  <2>3. l \in 0..NUM_LETTERS
    BY <2>1
  <2>4. nvm' \in Memory
    BY <2>2, <2>3 DEF Memory
  <2> QED
    BY <1>6, <2>4 DEF Letterize, CemTypeOK, Compressing, Search
<1>7. CASE Compress
  <2> DEFINE node == nvm.dict[nvm.parent_next]
  <2>1. /\ node \in Node /\ node.child \in Index
        /\ nvm.parent_next \in Index /\ nvm.sample_count + 1 \in Nat
    <3>1. nvm.parent_next \in Index /\ nvm.dict \in [Index -> Node] /\ nvm.sample_count \in Nat
      BY Fields
    <3>2. node \in Node
      BY <3>1
    <3> QED
      BY <3>1, <3>2 DEF Node
  <2>2. nvm' = [nvm EXCEPT !.sibling = node.child, !.parent_node = node,
                           !.parent = nvm.parent_next, !.child = node.child,
                           !.sample_count = nvm.sample_count + 1]
    BY <1>7 DEF Compress
  <2> HIDE DEF node
  <2>3. nvm' \in Memory
    BY <2>1, <2>2 DEF Memory
  <2> QED
    BY <1>7, <2>3 DEF Compress, CemTypeOK, Compressing, Search
<1>8. CASE FindSibling
  <2>1. nvm.sibling \in Index /\ nvm.dict[nvm.sibling].sibling \in Index
    BY Fields DEF Node
  <2>2. nvm.letter < NUM_LETTERS /\ nvm.letter \in Nat
    BY <1>8, Fields DEF FindSibling, CemInv, NodesInv, Compressing, Search
  <2>3. nvm.letter \in Index
    BY <2>2, Sizes DEF Index
  <2>4. \E i \in Index : nvm' \in {[nvm EXCEPT !.parent_next = i], [nvm EXCEPT !.sibling = i]}
    BY <1>8, <2>1, <2>3 DEF FindSibling, NotFound
  <2>5. nvm' \in Memory
    BY <2>4 DEF Memory
  <2> QED
    BY <1>8, <2>5 DEF FindSibling, NotFound, CemTypeOK, Compressing, Search
<1>9. CASE AddNode
  <2>1. nvm.dict[nvm.sibling] \in Node /\ nvm.dict[nvm.sibling].sibling \in Index
    BY Fields DEF Node
  <2> DEFINE i == nvm.dict[nvm.sibling].sibling
             node == nvm.dict[nvm.sibling]
  <2>2. i \in Index /\ node \in Node
    BY <2>1
  <2>3. ASSUME node.sibling # NIL PROVE nvm' \in Memory
    <3>1. nvm' = [nvm EXCEPT !.sibling = i]
      BY <1>9, <2>3 DEF AddNode
    <3> HIDE DEF i, node
    <3> QED
      BY <2>2, <3>1 DEF Memory
  <2>4. ASSUME node.sibling = NIL PROVE nvm' \in Memory
    <3>1. nvm' = [nvm EXCEPT !.sibling_node = node]
      BY <1>9, <2>4 DEF AddNode
    <3> HIDE DEF i, node
    <3> QED
      BY <2>2, <3>1 DEF Memory
  <2>5. nvm' \in Memory
    BY <2>3, <2>4
  <2> QED
    BY <1>9, <2>5 DEF AddNode, CemTypeOK, Compressing, Search
<1>10. CASE AddInsert
  <2>1. nvm.node_count \in Index /\ nvm.node_count + 1 \in 0..DICT_SIZE
    <3>1. nvm.node_count # DICT_SIZE
      BY <1>10 DEF AddInsert
    <3>2. nvm.node_count \in 0..DICT_SIZE /\ DICT_SIZE \in Nat
      BY Fields, Sizes
    <3> QED
      BY <3>1, <3>2 DEF Index
  <2>2. nvm.parent_node \in Node /\ nvm.sibling_node \in Node /\ nvm.dict \in [Index -> Node]
        /\ nvm.parent \in Index
    BY Fields
  <2>3. /\ [nvm.parent_node EXCEPT !.child = nvm.node_count] \in Node
        /\ [nvm.sibling_node EXCEPT !.sibling = nvm.node_count] \in Node
    BY <2>1, <2>2 DEF Node
  <2>4. Linked \in [Index -> Node]
    <3> DEFINE a == [nvm.parent_node EXCEPT !.child = nvm.node_count]
               b == [nvm.sibling_node EXCEPT !.sibling = nvm.node_count]
    <3>1. Linked = IF nvm.parent_node.child = NIL THEN [nvm.dict EXCEPT ![nvm.parent] = a]
                   ELSE [nvm.dict EXCEPT ![nvm.sibling] = b]
      BY DEF Linked
    <3>2. a \in Node /\ b \in Node
      BY <2>3
    <3> HIDE DEF a, b
    <3> QED
      BY <2>2, <3>1, <3>2
  <2>5. Leaf(nvm.letter) \in Node
    BY <1>10, Fields, Sizes DEF AddInsert, CemInv, NodesInv, Compressing, Search
  <2> DEFINE d == [Linked EXCEPT ![nvm.node_count] = Leaf(nvm.letter)]
  <2>6. d \in [Index -> Node]
    BY <2>4, <2>5
  <2>7. nvm' = [nvm EXCEPT !.dict = d, !.symbol = nvm.parent, !.node_count = nvm.node_count + 1]
    BY <1>10 DEF AddInsert
  <2> HIDE DEF d
  <2>8. nvm' \in Memory
    BY <2>1, <2>2, <2>6, <2>7 DEF Memory
  <2> QED
    BY <1>10, <2>8 DEF AddInsert, CemTypeOK, Compressing
<1>11. CASE AppendCompressed
  <2>1. nvm.out_len \in 0..BLOCK_SIZE-1 /\ nvm.out_len + 1 \in 0..BLOCK_SIZE
    BY <1>11, Fields, Sizes DEF AppendCompressed, CemInv, NodesInv, Compressing
  <2> DEFINE d == [nvm.compressed_data EXCEPT ![nvm.out_len] = nvm.symbol]
  <2>2. d \in [0..BLOCK_SIZE-1 -> Index]
    BY Fields
  <2>3. nvm' = [nvm EXCEPT !.compressed_data = d, !.out_len = nvm.out_len + 1]
    BY <1>11 DEF AppendCompressed
  <2> HIDE DEF d
  <2>4. nvm' \in Memory
    BY <2>1, <2>2, <2>3 DEF Memory
  <2> QED
    BY <1>11, <2>4 DEF AppendCompressed, CemTypeOK, Compressing
<1>12. CASE PrintBlock
  BY <1>12 DEF PrintBlock, CemTypeOK, Compressing
<1> QED
  BY <1>1, <1>2, <1>3, <1>4, <1>5, <1>6, <1>7, <1>8, <1>9, <1>10, <1>11, <1>12 DEF CemNext

\* What the dictionary and the log are made of.
Links == <<nvm.dict, nvm.node_count, nvm.out_len, nvm.symbol, nvm.compressed_data>>

\* What the tasks that search change, and what they leave alone.
LEMMA SearchSteps ==
    ASSUME CemTypeOK
    PROVE  /\ Sample => /\ UNCHANGED <<Links, nvm.parent_next>>
                        /\ curr = "task_sample" /\ curr' \in {"task_measure_temp", "task_letterize"}
           /\ MeasureTemp => /\ UNCHANGED <<Links, nvm.parent_next>>
                             /\ curr = "task_measure_temp" /\ curr' = "task_letterize"
           /\ Letterize => /\ UNCHANGED <<Links, nvm.parent_next>>
                           /\ curr = "task_letterize" /\ curr' = "task_compress"
           /\ Compress => /\ UNCHANGED <<Links, nvm.parent_next, nvm.letter>>
                          /\ curr = "task_compress" /\ curr' = "task_find_sibling"
                          /\ nvm'.parent = nvm.parent_next
                          /\ nvm'.parent_node = nvm.dict[nvm.parent_next]
                          /\ nvm'.child = nvm.dict[nvm.parent_next].child
                          /\ nvm'.sibling = nvm.dict[nvm.parent_next].child
           /\ FindSibling => /\ UNCHANGED <<Links, nvm.letter, nvm.parent, nvm.parent_node, nvm.child>>
                             /\ curr = "task_find_sibling"
           /\ AddNode => /\ UNCHANGED <<Links, nvm.parent_next, nvm.letter, nvm.parent,
                                       nvm.parent_node, nvm.child>>
                         /\ curr = "task_add_node"
           /\ PrintBlock => /\ UNCHANGED nvm /\ curr = "task_print" /\ curr' = "exit"
<1>1. nvm \in Memory
  BY DEF CemTypeOK
<1> USE <1>1 DEF Memory, Links, At, TRANSITION_TO
<1>2. Sample => /\ UNCHANGED <<Links, nvm.parent_next>>
                /\ curr = "task_sample" /\ curr' \in {"task_measure_temp", "task_letterize"}
  BY DEF Sample
<1>3. MeasureTemp => /\ UNCHANGED <<Links, nvm.parent_next>>
                     /\ curr = "task_measure_temp" /\ curr' = "task_letterize"
  BY DEF MeasureTemp
<1>4. Letterize => /\ UNCHANGED <<Links, nvm.parent_next>>
                   /\ curr = "task_letterize" /\ curr' = "task_compress"
  BY DEF Letterize
<1>5. Compress => /\ UNCHANGED <<Links, nvm.parent_next, nvm.letter>>
                  /\ curr = "task_compress" /\ curr' = "task_find_sibling"
                  /\ nvm'.parent = nvm.parent_next
                  /\ nvm'.parent_node = nvm.dict[nvm.parent_next]
                  /\ nvm'.child = nvm.dict[nvm.parent_next].child
                  /\ nvm'.sibling = nvm.dict[nvm.parent_next].child
  BY DEF Compress
<1>6. FindSibling => /\ UNCHANGED <<Links, nvm.letter, nvm.parent, nvm.parent_node, nvm.child>>
                     /\ curr = "task_find_sibling"
  BY DEF FindSibling, NotFound
<1>7. AddNode => /\ UNCHANGED <<Links, nvm.parent_next, nvm.letter, nvm.parent,
                                nvm.parent_node, nvm.child>>
                 /\ curr = "task_add_node"
  BY DEF AddNode
<1>8. PrintBlock => /\ UNCHANGED nvm /\ curr = "task_print" /\ curr' = "exit"
  BY DEF PrintBlock
<1> QED
  BY <1>2, <1>3, <1>4, <1>5, <1>6, <1>7, <1>8

\* A step that leaves dictionary and log alone keeps what is said about them.
LEMMA LinksStay ==
    ASSUME CemInv, curr \in Compressing, UNCHANGED Links
    PROVE  ParentInv' /\ ChildInv' /\ SiblingInv' /\ LetterInv'
<1>1. /\ nvm'.dict = nvm.dict /\ nvm'.node_count = nvm.node_count /\ nvm'.out_len = nvm.out_len
      /\ nvm'.symbol = nvm.symbol /\ nvm'.compressed_data = nvm.compressed_data
  BY DEF Links
<1>2. Added' = Added /\ \A j : Parent(j)' = Parent(j)
  BY <1>1 DEF Added, Parent
<1>3. ParentInv'
  BY <1>2 DEF CemInv, ParentInv
<1>4. ChildInv'
  BY <1>1, <1>2 DEF CemInv, ChildInv
<1>5. SiblingInv'
  BY <1>1, <1>2 DEF CemInv, SiblingInv
<1>6. LetterInv'
  BY <1>1, <1>2 DEF CemInv, LetterInv
<1> QED
  BY <1>3, <1>4, <1>5, <1>6

\* The first steps: a root for each letter, with no links.
LEMMA StartKept ==
    ASSUME LogFitsDictionary, CemInv, Entry \/ TaskInit \/ InitDict
    PROVE  /\ RootsInv' /\ NodesInv' /\ ParentInv' /\ ChildInv' /\ SiblingInv' /\ LetterInv'
           /\ SearchInv'
<1> USE DEF At, TRANSITION_TO
<1>1. CASE Entry
  <2>1. curr' = "task_init"
    BY <1>1 DEF Entry
  <2> QED
    BY <2>1 DEF RootsInv, NodesInv, ParentInv, ChildInv, SiblingInv, LetterInv, SearchInv, Compressing, Search
<1>2. CASE TaskInit
  <2>1. curr' = "task_init_dict"
    BY <1>2 DEF TaskInit
  <2>2. nvm'.letter = 0 /\ nvm'.out_len = 0 /\ nvm'.parent_next = 0
    BY <1>2 DEF TaskInit, CemInv, CemTypeOK, Memory
  <2>3. RootsInv'
    BY <2>1, <2>2, Sizes DEF RootsInv
  <2> QED
    BY <2>1, <2>3 DEF NodesInv, ParentInv, ChildInv, SiblingInv, LetterInv, SearchInv, Compressing, Search
<1>3. CASE InitDict
  <2> DEFINE last == nvm.letter + 1 = NUM_LETTERS
  <2>1. /\ curr = "task_init_dict"
        /\ nvm.letter \in 0..NUM_LETTERS-1 /\ nvm.out_len = 0 /\ nvm.parent_next = 0
        /\ \A i \in 0..nvm.letter-1 : nvm.dict[i] = Leaf(i)
    BY <1>3, Fields, Sizes DEF InitDict, CemInv, RootsInv
  <2>2. /\ curr' = IF last THEN "task_sample" ELSE "task_init_dict"
        /\ nvm'.letter = nvm.letter + 1 /\ nvm'.out_len = 0 /\ nvm'.parent_next = 0
        /\ last => nvm'.node_count = NUM_LETTERS
        /\ nvm'.dict = [nvm.dict EXCEPT ![nvm.letter] = Leaf(nvm.letter)]
    BY <1>3, <2>1 DEF InitDict, CemInv, CemTypeOK, Memory
  <2>3. nvm.dict \in [Index -> Node] /\ 0..NUM_LETTERS-1 \subseteq Index
    BY Fields, Sizes DEF CemInv, Index
  <2>4. \A i \in 0..nvm.letter : nvm'.dict[i] = Leaf(i)
    BY <2>1, <2>2, <2>3
  <2>5. CASE ~last
    <3>1. RootsInv'
      BY <2>1, <2>2, <2>4, <2>5, Sizes DEF RootsInv
    <3> QED
      BY <2>2, <2>5, <3>1 DEF NodesInv, ParentInv, ChildInv, SiblingInv, LetterInv, SearchInv, Compressing, Search
  <2>6. CASE last
    <3>1. curr' = "task_sample" /\ curr' \notin Search
      BY <2>2, <2>6 DEF Search
    <3>2. Added' = {}
      BY <2>2, <2>6, Sizes DEF Added
    <3>3. \A i \in 0..nvm'.node_count-1 : nvm'.dict[i].child = NIL /\ nvm'.dict[i].sibling = NIL
      BY <2>1, <2>2, <2>4, <2>6, Sizes
    <3>4. RootsInv' /\ SearchInv'
      BY <3>1 DEF RootsInv, SearchInv, Search
    <3>5. NodesInv'
      BY <2>2, <2>6, <3>1, Sizes DEF NodesInv
    <3>6. ParentInv' /\ LetterInv'
      BY <3>2 DEF ParentInv, LetterInv
    <3>7. ChildInv' /\ SiblingInv'
      BY <3>2, <3>3 DEF ChildInv, SiblingInv
    <3> QED
      BY <3>4, <3>5, <3>6, <3>7
  <2> QED
    BY <2>5, <2>6
<1> QED
  BY <1>1, <1>2, <1>3

\* The tasks on the way to the search, and the last one.
LEMMA SamplingKept ==
    ASSUME LogFitsDictionary, CemInv, Sample \/ MeasureTemp \/ Letterize \/ PrintBlock
    PROVE  /\ RootsInv' /\ NodesInv' /\ ParentInv' /\ ChildInv' /\ SiblingInv' /\ LetterInv'
           /\ SearchInv'
<1>1. CemTypeOK
  BY DEF CemInv
<1>2. /\ UNCHANGED <<Links, nvm.parent_next>>
      /\ curr \in {"task_sample", "task_measure_temp", "task_letterize", "task_print"}
      /\ curr' \in {"task_measure_temp", "task_letterize", "task_compress", "exit"}
      /\ curr' = "exit" <=> curr = "task_print"
      /\ curr' = "task_compress" => Letterize
  <2>1. CASE Sample
    BY <1>1, <2>1, SearchSteps
  <2>2. CASE MeasureTemp
    BY <1>1, <2>2, SearchSteps
  <2>3. CASE Letterize
    BY <1>1, <2>3, SearchSteps
  <2>4. CASE PrintBlock
    BY <1>1, <2>4, SearchSteps DEF Links
  <2> QED
    BY <2>1, <2>2, <2>3, <2>4
<1>3. curr \in Compressing /\ curr' \in Compressing
  BY <1>2 DEF Compressing, Search
<1>4. ParentInv' /\ ChildInv' /\ SiblingInv' /\ LetterInv'
  BY <1>2, <1>3, LinksStay
<1>5. RootsInv' /\ SearchInv'
  BY <1>2 DEF RootsInv, SearchInv, Search
<1>6. curr' = "task_compress" => nvm'.letter < NUM_LETTERS
  <2> SUFFICES ASSUME Letterize PROVE nvm'.letter < NUM_LETTERS
    BY <1>2
  <2>1. nvm.sample \in 0..3 /\ nvm.letter_idx \in {0, 1} /\ NUM_LETTERS_IN_SAMPLE = 2
    BY <1>1, Fields, Sizes
  <2>2. nvm'.letter \in {Letter(nvm.sample, NUM_LETTERS_IN_SAMPLE), Letter(nvm.sample, 0)}
    BY <1>1, <2>1 DEF Letterize, CemTypeOK, Memory
  <2>3. \A i \in {0, NUM_LETTERS_IN_SAMPLE} : Letter(nvm.sample, i) \in 0..NUM_LETTERS-1
    BY <2>1, Letters
  <2> QED
    BY <2>2, <2>3, Sizes
<1>7. NodesInv'
  <2>1. /\ nvm'.node_count = nvm.node_count /\ nvm'.out_len = nvm.out_len
        /\ nvm'.parent_next = nvm.parent_next
    BY <1>2 DEF Links
  <2> QED
    BY <1>2, <1>3, <1>6, <2>1 DEF CemInv, NodesInv, Search
<1> QED
  BY <1>4, <1>5, <1>7

\* The search begins with the first child of the node reached so far.
LEMMA CompressKept ==
    ASSUME LogFitsDictionary, CemInv, Compress
    PROVE  /\ RootsInv' /\ NodesInv' /\ ParentInv' /\ ChildInv' /\ SiblingInv' /\ LetterInv'
           /\ SearchInv'
<1> DEFINE p == nvm.parent_next
<1>1. CemTypeOK
  BY DEF CemInv
<1>2. /\ UNCHANGED <<Links, nvm.parent_next, nvm.letter>>
      /\ curr = "task_compress" /\ curr' = "task_find_sibling"
      /\ nvm'.parent = p /\ nvm'.parent_node = nvm.dict[p]
      /\ nvm'.child = nvm.dict[p].child /\ nvm'.sibling = nvm.dict[p].child
  BY <1>1, SearchSteps
<1>3. curr \in Compressing
  BY <1>2 DEF Compressing, Search
<1>4. ParentInv' /\ ChildInv' /\ SiblingInv' /\ LetterInv'
  BY <1>2, <1>3, LinksStay
<1>5. /\ nvm'.dict = nvm.dict /\ nvm'.node_count = nvm.node_count /\ nvm'.out_len = nvm.out_len
      /\ nvm'.parent_next = p /\ nvm'.letter = nvm.letter
      /\ Added' = Added /\ \A j : Parent(j)' = Parent(j)
  BY <1>2 DEF Links, Added, Parent
<1>6. p \in 0..nvm.node_count-1
  BY <1>1, <1>3, Fields DEF CemInv, NodesInv, Index
<1>7. RootsInv' /\ NodesInv'
  BY <1>2, <1>3, <1>5 DEF RootsInv, NodesInv, CemInv, Search
<1>8. nvm.dict[p].child # NIL => nvm.dict[p].child \in Added /\ Parent(nvm.dict[p].child) = p
  BY <1>3, <1>6 DEF CemInv, ChildInv
<1>9. \A j \in Added : Parent(j) = p => ~(j < nvm.dict[p].child)
  BY <1>1, <1>3, Sizes, Fields DEF CemInv, ChildInv, Added
<1>10. SearchInv'
  BY <1>2, <1>5, <1>6, <1>8, <1>9, Sizes, <1>1, Fields DEF SearchInv
<1> QED
  BY <1>4, <1>7, <1>10

\* The search ends at a child with the letter, or goes on to the next one.
LEMMA FindSiblingKept ==
    ASSUME LogFitsDictionary, CemInv, FindSibling
    PROVE  /\ RootsInv' /\ NodesInv' /\ ParentInv' /\ ChildInv' /\ SiblingInv' /\ LetterInv'
           /\ SearchInv'
<1> DEFINE s == nvm.sibling
           p == nvm.parent
<1>1. CemTypeOK
  BY DEF CemInv
<1>2. /\ UNCHANGED <<Links, nvm.letter, nvm.parent, nvm.parent_node, nvm.child>>
      /\ curr = "task_find_sibling"
  BY <1>1, SearchSteps
<1>3. curr \in Compressing /\ curr \in Search
  BY <1>2 DEF Compressing, Search
<1>4. ParentInv' /\ ChildInv' /\ SiblingInv' /\ LetterInv'
  BY <1>2, <1>3, LinksStay
<1>5. /\ nvm'.dict = nvm.dict /\ nvm'.node_count = nvm.node_count /\ nvm'.out_len = nvm.out_len
      /\ nvm'.letter = nvm.letter /\ nvm'.parent = p /\ nvm'.parent_node = nvm.parent_node
      /\ nvm'.child = nvm.child
      /\ Added' = Added /\ \A j : Parent(j)' = Parent(j)
  BY <1>2 DEF Links, Added, Parent
<1>6. /\ p < nvm.node_count /\ nvm.parent_node = nvm.dict[p] /\ nvm.child = nvm.parent_node.child
      /\ IF nvm.child = NIL THEN s = NIL ELSE s \in Added /\ Parent(s) = p
      /\ \A j \in Added : Parent(j) = p /\ j < s => nvm.dict[j].letter # nvm.letter
      /\ p \in 0..nvm.node_count-1
  BY <1>1, <1>2, Fields DEF CemInv, SearchInv, Search, Index
<1>7. /\ nvm.node_count = NUM_LETTERS + nvm.out_len /\ nvm.out_len < BLOCK_SIZE
      /\ nvm.letter < NUM_LETTERS
  BY <1>1, <1>2, <1>3, Fields, Sizes DEF CemInv, NodesInv
<1>8. Added \subseteq 0..nvm.node_count-1 /\ NIL \notin Added /\ Added \subseteq Nat
      /\ nvm.letter < nvm.node_count
  BY <1>1, <1>7, Sizes, Fields DEF Added
<1> HIDE DEF s, p
<1>12. ASSUME NEW i \in Added, NEW j \in Added, i < j, Parent(i) = Parent(j)
       PROVE  nvm.dict[i].sibling # NIL /\ nvm.dict[i].sibling <= j
  <2>1. nvm.dict[i].sibling \in i+1..j
    BY <1>3, <1>12 DEF CemInv, SiblingInv
  <2>2. i \in Nat /\ j \in Nat /\ NIL = 0
    BY <1>8, Sizes
  <2> QED
    BY <2>1, <2>2
<1>9. CASE s # NIL /\ nvm.dict[s].letter = nvm.letter
  <2>1. curr' = "task_letterize" /\ nvm'.parent_next = s
    BY <1>1, <1>9 DEF FindSibling, At, TRANSITION_TO, NotFound, CemTypeOK, Memory, s
  <2>2. s \in 0..nvm.node_count-1
    BY <1>6, <1>8, <1>9
  <2> QED
    BY <1>4, <1>5, <1>7, <1>8, <2>1, <2>2, Fields, <1>1 DEF RootsInv, NodesInv, SearchInv, Search, s, p
<1>10. CASE s # NIL /\ nvm.dict[s].letter # nvm.letter /\ nvm.dict[s].sibling # NIL
  <2> DEFINE next == nvm.dict[s].sibling
  <2>1. curr' = "task_find_sibling" /\ nvm'.sibling = next /\ nvm'.parent_next = nvm.parent_next
    BY <1>1, <1>10 DEF FindSibling, At, TRANSITION_TO, NotFound, CemTypeOK, Memory, s
  <2>2. s \in Added /\ Parent(s) = p /\ nvm.child # NIL
    BY <1>6, <1>8, <1>10
  <2>3. next \in Added /\ s < next /\ Parent(next) = p
    BY <1>3, <1>8, <1>10, <2>2 DEF CemInv, SiblingInv
  <2>4. \A j \in Added : s < j /\ Parent(j) = p => ~(j < next)
    <3> SUFFICES ASSUME NEW j \in Added, s < j, Parent(j) = p PROVE ~(j < next)
      OBVIOUS
    <3>1. next <= j
      BY <1>12, <2>2
    <3>2. j \in Nat /\ next \in Nat
      BY <1>8, <2>3
    <3> QED
      BY <3>1, <3>2
  <2>5. \A j \in Added : Parent(j) = p /\ j < next => nvm.dict[j].letter # nvm.letter
    <3> SUFFICES ASSUME NEW j \in Added, Parent(j) = p, j < next PROVE nvm.dict[j].letter # nvm.letter
      OBVIOUS
    <3>1. ~(s < j)
      BY <2>4
    <3>2. j \in Nat /\ s \in Nat
      BY <1>8, <2>2
    <3>3. j < s \/ j = s
      BY <3>1, <3>2
    <3> QED
      BY <1>6, <1>10, <3>3
  <2>6. SearchInv'
    BY <1>5, <1>6, <2>1, <2>2, <2>3, <2>5 DEF SearchInv, p, s
  <2>7. RootsInv' /\ NodesInv'
    BY <1>2, <1>3, <1>5, <2>1 DEF RootsInv, NodesInv, CemInv, Search
  <2> QED
    BY <1>4, <2>6, <2>7
<1>11. CASE s # NIL => nvm.dict[s].letter # nvm.letter /\ nvm.dict[s].sibling = NIL
  <2>1. /\ curr' = IF nvm.child = NIL THEN "task_add_insert" ELSE "task_add_node"
        /\ nvm'.parent_next = nvm.letter /\ nvm'.sibling = s
    BY <1>1, <1>11 DEF FindSibling, At, TRANSITION_TO, NotFound, CemTypeOK, Memory, s
  <2>2. \A j \in Added : Parent(j) = p => nvm.dict[j].letter # nvm.letter
    <3>1. CASE nvm.child = NIL
      <4>1. \A j \in Added : nvm.dict[Parent(j)].child # NIL
        BY <1>1, <1>3, Sizes DEF CemInv, ChildInv
      <4> QED
        BY <1>6, <3>1, <4>1
    <3>2. CASE nvm.child # NIL
      <4>1. s \in Added /\ Parent(s) = p /\ s # NIL
        BY <1>6, <1>8, <3>2
      <4>2. \A j \in Added : Parent(j) = p => ~(s < j)
        BY <1>11, <1>12, <4>1
      <4>3. nvm.dict[s].letter # nvm.letter
        BY <1>11, <4>1
      <4>4. \A j \in Added : Parent(j) = p /\ j < s => nvm.dict[j].letter # nvm.letter
        BY <1>6
      <4>5. \A j \in Added : j \in Nat
        BY <1>8
      <4> SUFFICES ASSUME NEW j \in Added, Parent(j) = p PROVE nvm.dict[j].letter # nvm.letter
        OBVIOUS
      <4>6. j < s \/ j = s
        BY <4>1, <4>2, <4>5
      <4> QED
        BY <4>3, <4>4, <4>6
    <3> QED
      BY <3>1, <3>2
  <2>3. SearchInv'
    BY <1>5, <1>6, <2>1, <2>2 DEF SearchInv, p, s
  <2>4. RootsInv' /\ NodesInv'
    BY <1>5, <1>7, <1>8, <2>1, <1>1, Fields DEF RootsInv, NodesInv, Search
  <2> QED
    BY <1>4, <2>3, <2>4
<1> QED
  BY <1>9, <1>10, <1>11

\* The walk to the last child, of which task_add_insert gets a copy.
LEMMA AddNodeKept ==
    ASSUME LogFitsDictionary, CemInv, AddNode
    PROVE  /\ RootsInv' /\ NodesInv' /\ ParentInv' /\ ChildInv' /\ SiblingInv' /\ LetterInv'
           /\ SearchInv'
<1> DEFINE s == nvm.sibling
           p == nvm.parent
<1>1. CemTypeOK
  BY DEF CemInv
<1>2. /\ UNCHANGED <<Links, nvm.parent_next, nvm.letter, nvm.parent, nvm.parent_node, nvm.child>>
      /\ curr = "task_add_node"
  BY <1>1, SearchSteps
<1>3. curr \in Compressing /\ curr \in Search
  BY <1>2 DEF Compressing, Search
<1>4. ParentInv' /\ ChildInv' /\ SiblingInv' /\ LetterInv'
  BY <1>2, <1>3, LinksStay
<1>5. /\ nvm'.dict = nvm.dict /\ nvm'.node_count = nvm.node_count /\ nvm'.out_len = nvm.out_len
      /\ nvm'.letter = nvm.letter /\ nvm'.parent = p /\ nvm'.parent_node = nvm.parent_node
      /\ nvm'.child = nvm.child /\ nvm'.parent_next = nvm.parent_next
      /\ Added' = Added /\ \A j : Parent(j)' = Parent(j)
  BY <1>2 DEF Links, Added, Parent
<1>6. /\ p < nvm.node_count /\ nvm.parent_node = nvm.dict[p] /\ nvm.child = nvm.parent_node.child
      /\ nvm.child # NIL /\ s \in Added /\ Parent(s) = p
      /\ \A j \in Added : Parent(j) = p => nvm.dict[j].letter # nvm.letter
  BY <1>2 DEF CemInv, SearchInv, Search
<1>7. curr' \in {"task_add_node", "task_add_insert"}
  BY DEF AddNode, At, TRANSITION_TO
<1>8. RootsInv' /\ NodesInv'
  BY <1>2, <1>3, <1>5, <1>7 DEF RootsInv, NodesInv, CemInv, Search, Compressing
<1>9. CASE nvm.dict[s].sibling # NIL
  <2> DEFINE next == nvm.dict[s].sibling
  <2>1. curr' = "task_add_node" /\ nvm'.sibling = next
    BY <1>1, <1>9 DEF AddNode, At, TRANSITION_TO, CemTypeOK, Memory
  <2>2. s \in 0..nvm.node_count-1
    BY <1>1, <1>6, Sizes, Fields DEF Added
  <2>3. next \in Added /\ Parent(next) = p
    BY <1>3, <1>6, <1>9, <2>2 DEF CemInv, SiblingInv
  <2>4. SearchInv'
    BY <1>5, <1>6, <2>1, <2>3 DEF SearchInv, Search
  <2> QED
    BY <1>4, <1>8, <2>4
<1>10. CASE nvm.dict[s].sibling = NIL
  <2>1. curr' = "task_add_insert" /\ nvm'.sibling = s /\ nvm'.sibling_node = nvm.dict[s]
    BY <1>1, <1>10 DEF AddNode, At, TRANSITION_TO, CemTypeOK, Memory
  <2>2. SearchInv'
    BY <1>5, <1>6, <1>10, <2>1 DEF SearchInv, Search
  <2> QED
    BY <1>4, <1>8, <2>2
<1> QED
  BY <1>9, <1>10

\* The log gets the symbol of the node that was added last.
LEMMA AppendKept ==
    ASSUME LogFitsDictionary, CemInv, AppendCompressed
    PROVE  /\ RootsInv' /\ NodesInv' /\ ParentInv' /\ ChildInv' /\ SiblingInv' /\ LetterInv'
           /\ SearchInv'
<1> DEFINE k == nvm.out_len
<1>1. CemTypeOK
  BY DEF CemInv
<1>2. /\ curr = "task_append_compressed"
      /\ curr' = IF k + 1 = BLOCK_SIZE THEN "task_print" ELSE "task_sample"
      /\ nvm'.compressed_data = [nvm.compressed_data EXCEPT ![k] = nvm.symbol]
      /\ nvm'.out_len = k + 1
      /\ nvm'.dict = nvm.dict /\ nvm'.node_count = nvm.node_count
      /\ nvm'.parent_next = nvm.parent_next
  BY <1>1 DEF AppendCompressed, At, TRANSITION_TO, CemTypeOK, Memory
<1>3. curr \in Compressing /\ curr' \in Compressing /\ curr' \notin Search /\ curr \notin Search
  BY <1>2 DEF Compressing, Search
<1>4. /\ nvm.node_count = NUM_LETTERS + k + 1 /\ k < BLOCK_SIZE
      /\ nvm.parent_next < nvm.node_count /\ k \in Nat
  BY <1>1, <1>2, <1>3, Fields DEF CemInv, NodesInv
<1>5. Added' = Added
  BY <1>2 DEF Added
<1>6. \A j \in Added : Parent(j)' = Parent(j)
  <2> SUFFICES ASSUME NEW j \in Added PROVE Parent(j)' = Parent(j)
    OBVIOUS
  <2>1. j \in NUM_LETTERS..NUM_LETTERS+k /\ NUM_LETTERS \in Nat
    BY <1>4, Sizes DEF Added
  <2>2. j # NUM_LETTERS + (k + 1) /\ j - NUM_LETTERS \in 0..k
    BY <1>4, <2>1
  <2>3. Parent(j)' = [nvm.compressed_data EXCEPT ![k] = nvm.symbol][j - NUM_LETTERS]
    BY <1>2, <2>2 DEF Parent
  <2>4. k \in 0..BLOCK_SIZE-1 /\ nvm.compressed_data \in [0..BLOCK_SIZE-1 -> Index]
    BY <1>1, <1>4, Fields, Sizes
  <2>5. Parent(j) = IF j = NUM_LETTERS + k THEN nvm.symbol ELSE nvm.compressed_data[j - NUM_LETTERS]
    BY DEF Parent
  <2> HIDE DEF k
  <2>6. CASE j = NUM_LETTERS + k
    <3>1. j - NUM_LETTERS = k
      BY <1>4, <2>1, <2>6
    <3>2. [nvm.compressed_data EXCEPT ![k] = nvm.symbol][k] = nvm.symbol
      BY <2>4
    <3> QED
      BY <2>3, <2>5, <2>6, <3>1, <3>2
  <2>7. CASE j # NUM_LETTERS + k
    BY <1>4, <2>1, <2>2, <2>3, <2>4, <2>5, <2>7
  <2> QED
    BY <2>6, <2>7
<1>7. /\ ParentInv /\ ChildInv /\ SiblingInv /\ LetterInv
  BY DEF CemInv
<1>8. ParentInv'
  BY <1>3, <1>5, <1>6, <1>7 DEF ParentInv
<1>9. ChildInv'
  BY <1>2, <1>3, <1>5, <1>6, <1>7 DEF ChildInv
<1>10. SiblingInv'
  BY <1>2, <1>3, <1>5, <1>6, <1>7 DEF SiblingInv
<1>11. LetterInv'
  BY <1>2, <1>3, <1>5, <1>6, <1>7 DEF LetterInv
<1>12. RootsInv' /\ SearchInv'
  BY <1>2 DEF RootsInv, SearchInv, Search
<1>13. NodesInv'
  <2>1. nvm'.node_count = NUM_LETTERS + nvm'.out_len + 0 /\ nvm'.parent_next < nvm'.node_count
    BY <1>2, <1>4, Sizes
  <2>2. curr' # "task_append_compressed" /\ (curr' \notin {"task_print", "exit"} => k + 1 < BLOCK_SIZE)
    BY <1>2, <1>4, Sizes
  <2> QED
    BY <1>2, <1>3, <2>1, <2>2 DEF NodesInv
<1> QED
  BY <1>8, <1>9, <1>10, <1>11, <1>12, <1>13

\* A new node under nvm.parent.
LEMMA AddInsertKept ==
    ASSUME LogFitsDictionary, CemInv, AddInsert
    PROVE  /\ RootsInv' /\ NodesInv' /\ ParentInv' /\ ChildInv' /\ SiblingInv' /\ LetterInv'
           /\ SearchInv'
<1>20. PICK n, p, s : n = nvm.node_count /\ p = nvm.parent /\ s = nvm.sibling
  OBVIOUS
<1> DEFINE only == nvm.child = NIL
           Old == 0..n-1
<1>1. CemTypeOK
  BY DEF CemInv
<1>2. /\ curr = "task_add_insert" /\ curr' = "task_append_compressed"
      /\ nvm'.dict = [Linked EXCEPT ![n] = Leaf(nvm.letter)]
      /\ nvm'.symbol = p /\ nvm'.node_count = n + 1
      /\ nvm'.out_len = nvm.out_len /\ nvm'.compressed_data = nvm.compressed_data
      /\ nvm'.parent_next = nvm.parent_next
  BY <1>1, <1>20 DEF AddInsert, At, TRANSITION_TO, CemTypeOK, Memory
<1>3. /\ curr \in Compressing /\ curr' \in Compressing /\ curr' \notin Search
      /\ curr \in Search
  BY <1>2 DEF Compressing, Search
<1>4. /\ n = NUM_LETTERS + nvm.out_len /\ nvm.out_len < BLOCK_SIZE /\ nvm.parent_next < n
      /\ nvm.letter < NUM_LETTERS /\ n \in Index /\ n \in Nat /\ n > 0 /\ NIL = 0
      /\ NUM_LETTERS \in Nat /\ 0 < NUM_LETTERS /\ NUM_LETTERS <= n
  <2>1. /\ n = NUM_LETTERS + nvm.out_len + 0 /\ nvm.out_len < BLOCK_SIZE /\ nvm.parent_next < n
        /\ nvm.letter < NUM_LETTERS
    BY <1>2, <1>3, <1>20 DEF CemInv, NodesInv
  <2> QED
    BY <1>1, <1>20, <2>1, Fields, Sizes DEF Index
<1>5. /\ p \in Old /\ nvm.parent_node = nvm.dict[p] /\ nvm.child = nvm.parent_node.child
      /\ ~only => /\ s \in Added /\ Parent(s) = p
                  /\ nvm.sibling_node = nvm.dict[s] /\ nvm.dict[s].sibling = NIL
      /\ \A j \in Added : Parent(j) = p => nvm.dict[j].letter # nvm.letter
  <2>1. /\ p < n /\ nvm.parent_node = nvm.dict[p] /\ nvm.child = nvm.parent_node.child
        /\ nvm.child # NIL => s \in Added /\ Parent(s) = p
    BY <1>2, <1>20 DEF CemInv, SearchInv, Search
  <2>2. nvm.child # NIL => nvm.sibling_node = nvm.dict[s] /\ nvm.sibling_node.sibling = NIL
    BY <1>2, <1>20 DEF CemInv, SearchInv
  <2>3. \A j \in Added : Parent(j) = p => nvm.dict[j].letter # nvm.letter
    BY <1>2, <1>20 DEF CemInv, SearchInv
  <2>4. p \in Old
    <3>1. p \in Index
      BY <1>1, <1>20, Fields
    <3> QED
      BY <1>4, <2>1, <3>1 DEF Index
  <2> QED
    BY <2>1, <2>2, <2>3, <2>4
<1>6. /\ Added' = Added \cup {n} /\ Added \subseteq Old /\ n \notin Old /\ Old \subseteq Index
      /\ (0..nvm'.node_count-1) = Old \cup {n} /\ NIL \notin Added
      /\ \A j \in Added : j \in Nat /\ NUM_LETTERS <= j /\ j < n
  <2>1. Added = NUM_LETTERS..n-1 /\ Added' = NUM_LETTERS..(n+1)-1 /\ nvm'.node_count = n + 1
    BY <1>2, <1>20 DEF Added
  <2>2. n \in Nat /\ NUM_LETTERS \in Nat /\ 0 < NUM_LETTERS /\ NUM_LETTERS <= n
        /\ DICT_SIZE \in Nat /\ n < DICT_SIZE /\ NIL = 0
    BY <1>1, <1>4, Fields, Sizes DEF Index
  <2>3. Added' = Added \cup {n} /\ (0..nvm'.node_count-1) = Old \cup {n}
    BY <2>1, <2>2
  <2>4. Added \subseteq Old /\ n \notin Old /\ Old \subseteq Index /\ NIL \notin Added
    BY <2>1, <2>2 DEF Index
  <2>5. \A j \in Added : j \in Nat /\ NUM_LETTERS <= j /\ j < n
    BY <2>1, <2>2
  <2> QED
    BY <2>3, <2>4, <2>5
<1>7. /\ Parent(n)' = p
      /\ \A j \in Added : Parent(j)' = Parent(j)
  BY <1>2, <1>4, <1>6 DEF Parent
<1>8. /\ nvm'.dict[n] = Leaf(nvm.letter)
      /\ \A i \in Old :
            /\ nvm'.dict[i].letter = nvm.dict[i].letter
            /\ nvm'.dict[i].child = (IF only /\ i = p THEN n ELSE nvm.dict[i].child)
            /\ nvm'.dict[i].sibling = (IF ~only /\ i = s THEN n ELSE nvm.dict[i].sibling)
  <2>1. nvm.dict \in [Index -> Node]
    BY <1>1, Fields
  <2>2. \A i \in Index : DOMAIN nvm.dict[i] = {"letter", "sibling", "child"}
    BY <2>1 DEF Node
  <2>3. only => Linked = [nvm.dict EXCEPT ![p] = [nvm.dict[p] EXCEPT !.child = n]]
    BY <1>5, <1>20 DEF Linked
  <2>4. ~only => Linked = [nvm.dict EXCEPT ![s] = [nvm.dict[s] EXCEPT !.sibling = n]]
    BY <1>5, <1>20 DEF Linked
  <2>5. s \in Index /\ p \in Index
    BY <1>1, <1>20, Fields
  <2>6. CASE only
    BY <1>2, <1>4, <1>6, <2>1, <2>2, <2>3, <2>5, <2>6 DEF Node
  <2>7. CASE ~only
    BY <1>2, <1>4, <1>6, <2>1, <2>2, <2>4, <2>5, <2>7 DEF Node
  <2> QED
    BY <2>6, <2>7
<1>9. only => \A j \in Added : Parent(j) # p
  <2> SUFFICES ASSUME only, NEW j \in Added, Parent(j) = p PROVE FALSE
    OBVIOUS
  <2>1. nvm.dict[p].child \in NUM_LETTERS..j
    BY <1>3 DEF CemInv, ChildInv
  <2>2. nvm.dict[p].child = NIL
    BY <1>5
  <2> QED
    BY <1>4, <2>1, <2>2
<1>10. ~only => \A j \in Added : Parent(j) = p => j <= s
  <2> SUFFICES ASSUME ~only, NEW j \in Added, Parent(j) = p, ~(j <= s) PROVE FALSE
    OBVIOUS
  <2>1. s \in Added /\ Parent(s) = Parent(j) /\ s < j
    <3>1. s \in Added /\ Parent(s) = p
      BY <1>5
    <3>2. s \in Nat /\ j \in Nat
      BY <1>6, <3>1
    <3> QED
      BY <3>1, <3>2
  <2>2. nvm.dict[s].sibling \in s+1..j
    BY <1>3, <2>1 DEF CemInv, SiblingInv
  <2> QED
    BY <1>4, <1>5, <1>6, <2>1, <2>2
<1>11. /\ \A j \in Added : Parent(j) \in 0..j-1
       /\ \A i \in Old : LET c == nvm.dict[i].child IN c # NIL => c \in Added /\ Parent(c) = i
       /\ \A j \in Added : nvm.dict[Parent(j)].child \in NUM_LETTERS..j
       /\ \A i \in Old : LET b == nvm.dict[i].sibling
                         IN  b # NIL => i \in Added /\ b \in Added /\ i < b /\ Parent(b) = Parent(i)
       /\ \A i, j \in Added : i < j /\ Parent(i) = Parent(j) => nvm.dict[i].sibling \in i+1..j
       /\ \A i, j \in Added : i # j /\ Parent(i) = Parent(j) => nvm.dict[i].letter # nvm.dict[j].letter
  BY <1>3, <1>20 DEF CemInv, ParentInv, ChildInv, SiblingInv, LetterInv
<1>12. nvm'.dict[n].letter = nvm.letter /\ nvm'.dict[n].child = NIL /\ nvm'.dict[n].sibling = NIL
  BY <1>4, <1>8, Sizes
<1> HIDE DEF only, Old
<1>13. /\ Old = 0..n-1 /\ (only => nvm.dict[p].child = NIL) /\ (~only => nvm.dict[p].child # NIL)
  BY <1>5 DEF Old, only
<1>14. ParentInv'
  <2>1. p \in 0..n-1
    BY <1>5, <1>13
  <2> QED
    BY <1>6, <1>7, <1>11, <2>1 DEF ParentInv
<1>15. ChildInv'
  <2>1. ASSUME NEW i \in Old \cup {n}, NEW c, c = nvm'.dict[i].child, c # NIL
        PROVE  c \in Added' /\ Parent(c)' = i
    <3>1. CASE i = n
      BY <1>12, <2>1, <3>1
    <3>2. CASE i \in Old /\ only /\ i = p
      <4>1. c = n
        BY <1>8, <2>1, <3>2
      <4> QED
        BY <1>6, <1>7, <3>2, <4>1
    <3>3. CASE i \in Old /\ ~(only /\ i = p)
      <4>1. c = nvm.dict[i].child
        BY <1>8, <2>1, <3>3
      <4>2. c \in Added /\ Parent(c) = i
        BY <1>11, <2>1, <3>3, <4>1
      <4> QED
        BY <1>6, <1>7, <4>1, <4>2
    <3> QED
      BY <2>1, <3>1, <3>2, <3>3
  <2>2. ASSUME NEW j \in Added
        PROVE  nvm'.dict[Parent(j)'].child \in NUM_LETTERS..j
    <3>1. Parent(j) \in Old
      BY <1>6, <1>11, <1>13
    <3>2. nvm'.dict[Parent(j)].child = nvm.dict[Parent(j)].child
      BY <1>8, <1>9, <3>1
    <3> QED
      BY <1>7, <1>11, <3>2
  <2>3. nvm'.dict[p].child \in NUM_LETTERS..n
    <3>1. CASE only
      <4>1. nvm'.dict[p].child = n
        BY <1>5, <1>8, <3>1
      <4> QED
        BY <1>4, <4>1
    <3>2. CASE ~only
      <4>1. nvm'.dict[p].child = nvm.dict[p].child /\ nvm.dict[p].child \in Added
        BY <1>5, <1>8, <1>11, <1>13, <3>2
      <4> QED
        <5>1. nvm.dict[p].child \in Nat /\ NUM_LETTERS <= nvm.dict[p].child /\ nvm.dict[p].child < n
          BY <1>6, <4>1
        <5> QED
          BY <1>4, <4>1, <5>1
    <3> QED
      BY <3>1, <3>2
  <2> QED
    <3>1. \A i \in 0..nvm'.node_count-1 :
            \A c : c = nvm'.dict[i].child => (c # NIL => c \in Added' /\ Parent(c)' = i)
      BY <1>6, <2>1
    <3>2. \A j \in Added' : nvm'.dict[Parent(j)'].child \in NUM_LETTERS..j
      BY <1>6, <1>7, <2>2, <2>3
    <3> QED
      BY <3>1, <3>2 DEF ChildInv
<1>16. SiblingInv'
  <2>1. ASSUME NEW i \in Old \cup {n}, NEW b, b = nvm'.dict[i].sibling, b # NIL
        PROVE  i \in Added' /\ b \in Added' /\ i < b /\ Parent(b)' = Parent(i)'
    <3>1. CASE i = n
      BY <1>12, <2>1, <3>1
    <3>2. CASE i \in Old /\ ~only /\ i = s
      <4>1. b = n /\ i \in Added /\ Parent(i) = p
        BY <1>5, <1>8, <2>1, <3>2
      <4> QED
        BY <1>6, <1>7, <4>1
    <3>3. CASE i \in Old /\ ~(~only /\ i = s)
      <4>1. b = nvm.dict[i].sibling
        BY <1>8, <2>1, <3>3
      <4>2. i \in Added /\ b \in Added /\ i < b /\ Parent(b) = Parent(i)
        BY <1>11, <2>1, <3>3, <4>1
      <4> QED
        BY <1>6, <1>7, <4>1, <4>2
    <3> QED
      BY <2>1, <3>1, <3>2, <3>3
  <2>2. ASSUME NEW i \in Added, NEW j \in Added, i < j, Parent(i)' = Parent(j)'
        PROVE  nvm'.dict[i].sibling \in i+1..j
    <3>1. Parent(i) = Parent(j) /\ i \in Old
      BY <1>6, <1>7, <2>2
    <3>2. ~(~only /\ i = s)
      <4>1. ~only /\ i = s => j <= s
        BY <1>5, <1>10, <3>1
      <4> QED
        BY <1>6, <2>2, <4>1
    <3>3. nvm'.dict[i].sibling = nvm.dict[i].sibling
      BY <1>8, <3>1, <3>2
    <3> QED
      BY <1>11, <2>2, <3>1, <3>3
  <2>3. ASSUME NEW i \in Added, Parent(i)' = Parent(n)'
        PROVE  nvm'.dict[i].sibling \in i+1..n
    <3>1. Parent(i) = p /\ i \in Old /\ i \in Nat /\ i < n /\ n \in Nat
      BY <1>4, <1>6, <1>7, <2>3
    <3>2. ~only /\ s \in Added /\ Parent(s) = p /\ i <= s /\ s \in Nat /\ s < n
      BY <1>5, <1>6, <1>9, <1>10, <3>1
    <3>3. CASE i = s
      BY <1>8, <3>1, <3>2, <3>3
    <3>4. CASE i # s
      <4>1. nvm'.dict[i].sibling = nvm.dict[i].sibling
        BY <1>8, <3>1, <3>4
      <4>2. i < s
        BY <3>1, <3>2, <3>4
      <4>3. nvm.dict[i].sibling \in i+1..s
        BY <1>11, <3>1, <3>2, <4>2
      <4> QED
        BY <3>1, <3>2, <4>1, <4>3
    <3> QED
      BY <3>3, <3>4
  <2>4. \A j \in Added : ~(n < j)
    BY <1>4, <1>6
  <2>5. \A i, j \in Added' : i < j /\ Parent(i)' = Parent(j)' => nvm'.dict[i].sibling \in i+1..j
    <3> SUFFICES ASSUME NEW i \in Added', NEW j \in Added', i < j, Parent(i)' = Parent(j)'
                 PROVE  nvm'.dict[i].sibling \in i+1..j
      OBVIOUS
    <3>1. i \in Added \/ i = n
      BY <1>6
    <3>2. j \in Added \/ j = n
      BY <1>6
    <3>3. i # n
      BY <1>4, <2>4, <3>2
    <3> QED
      BY <2>2, <2>3, <3>1, <3>2, <3>3
  <2> QED
    <3>1. \A i \in 0..nvm'.node_count-1 : \A b :
            b = nvm'.dict[i].sibling =>
                (b # NIL => i \in Added' /\ b \in Added' /\ i < b /\ Parent(b)' = Parent(i)')
      BY <1>6, <2>1
    <3> QED
      BY <2>5, <3>1 DEF SiblingInv
<1>17. LetterInv'
  <2>1. \A i \in Added : i \in Old /\ nvm'.dict[i].letter = nvm.dict[i].letter
    BY <1>6, <1>8
  <2>2. \A i \in Added : Parent(i) = p => nvm'.dict[i].letter # nvm'.dict[n].letter
    BY <1>5, <1>12, <2>1
  <2>3. \A i, j \in Added : i # j /\ Parent(i) = Parent(j) => nvm'.dict[i].letter # nvm'.dict[j].letter
    BY <1>11, <2>1
  <2>4. \A i, j \in Added' : i # j /\ Parent(i)' = Parent(j)' => nvm'.dict[i].letter # nvm'.dict[j].letter
    <3> SUFFICES ASSUME NEW i \in Added', NEW j \in Added', i # j, Parent(i)' = Parent(j)'
                 PROVE  nvm'.dict[i].letter # nvm'.dict[j].letter
      OBVIOUS
    <3>1. (i \in Added \/ i = n) /\ (j \in Added \/ j = n)
      BY <1>6
    <3> QED
      BY <1>7, <2>2, <2>3, <3>1
  <2> QED
    BY <2>4 DEF LetterInv
<1>18. RootsInv' /\ SearchInv'
  BY <1>2, <1>3 DEF RootsInv, SearchInv, Search
<1>19. NodesInv'
  <2>1. nvm'.node_count = NUM_LETTERS + nvm'.out_len + 1 /\ nvm'.parent_next < nvm'.node_count
    BY <1>1, <1>2, <1>4, Fields, Sizes DEF Index
  <2>2. nvm'.out_len < BLOCK_SIZE
    BY <1>2, <1>4
  <2>3. curr' = "task_append_compressed"
    BY <1>2
  <2> QED
    BY <2>1, <2>2, <2>3 DEF NodesInv, Search
<1> QED
  BY <1>14, <1>15, <1>16, <1>17, <1>18, <1>19

\* The inductive invariant holds in every state.
THEOREM CemInvariance == ASSUME LogFitsDictionary PROVE CemSpec => []CemInv
<1>1. CemInit => CemInv
  BY InitHolds
<1>2. CemInv /\ [CemNext]_cemVars => CemInv'
  <2> SUFFICES ASSUME CemInv, [CemNext]_cemVars PROVE CemInv'
    OBVIOUS
  <2>1. CASE CemNext
    <3>1. CemTypeOK'
      BY <2>1, TypeKept
    <3>2. /\ RootsInv' /\ NodesInv' /\ ParentInv' /\ ChildInv' /\ SiblingInv' /\ LetterInv'
          /\ SearchInv'
      BY <2>1, StartKept, SamplingKept, CompressKept, FindSiblingKept, AddNodeKept, AppendKept,
         AddInsertKept DEF CemNext
    <3> QED
      BY <3>1, <3>2 DEF CemInv
  <2>2. CASE UNCHANGED cemVars
    BY <2>2 DEF cemVars, CemInv, CemTypeOK, RootsInv, NodesInv, ParentInv, ChildInv, SiblingInv,
                LetterInv, SearchInv, Added, Parent
  <2> QED
    BY <2>1, <2>2
<1> QED
  BY <1>1, <1>2, PTL DEF CemSpec

\* Each symbol of the log has room in the dictionary, so that task_add_insert never
\* finds it full, where it would wait for ever.
THEOREM RoomAlways == ASSUME LogFitsDictionary PROVE CemSpec => []DictionaryHasRoom
<1>1. CemInv => DictionaryHasRoom
  <2> SUFFICES ASSUME CemInv, curr = "task_add_insert" PROVE nvm.node_count < DICT_SIZE
    BY DEF DictionaryHasRoom, At
  <2>1. nvm.node_count = NUM_LETTERS + nvm.out_len + 0 /\ nvm.out_len < BLOCK_SIZE
    BY DEF CemInv, NodesInv, Compressing, Search
  <2> QED
    BY <2>1, Fields, Sizes DEF CemInv
<1> QED
  BY <1>1, CemInvariance, PTL

\* When a sample begins, the log names the node that each one was added under.
THEOREM LogAlways == ASSUME LogFitsDictionary PROVE CemSpec => []LogTellsDictionary
<1>1. CemInv => LogTellsDictionary
  <2> SUFFICES ASSUME CemInv, curr = "task_sample"
               PROVE  IsToldBy(nvm.dict, nvm.node_count, nvm.compressed_data)
    BY DEF LogTellsDictionary, At
  <2>1. curr \in Compressing /\ nvm.node_count = NUM_LETTERS + nvm.out_len + 0
    BY DEF CemInv, NodesInv, Compressing, Search
  <2>2. \A j \in Added : Parent(j) = nvm.compressed_data[j - NUM_LETTERS]
    BY <2>1, Fields, Sizes DEF CemInv, Added, Parent
  <2>3. \A i \in 0..nvm.node_count-1 :
            nvm.dict[i].child # NIL =>
                nvm.compressed_data[nvm.dict[i].child - NUM_LETTERS] = i
    BY <2>1, <2>2 DEF CemInv, ChildInv
  <2>4. \A i \in 0..nvm.node_count-1 :
            nvm.dict[i].sibling # NIL =>
                /\ i \in Added
                /\ nvm.compressed_data[nvm.dict[i].sibling - NUM_LETTERS]
                     = nvm.compressed_data[i - NUM_LETTERS]
    BY <2>1, <2>2 DEF CemInv, SiblingInv
  <2>5. \A i, j \in Added :
            i # j /\ nvm.compressed_data[i - NUM_LETTERS] = nvm.compressed_data[j - NUM_LETTERS]
                => nvm.dict[i].letter # nvm.dict[j].letter
    BY <2>1, <2>2 DEF CemInv, LetterInv
  <2> QED
    BY <2>3, <2>4, <2>5 DEF IsToldBy, Added
<1> QED
  BY <1>1, CemInvariance, PTL

\* Every node that was added is linked: as a child, or after the last one before
\* it that was added under the same node.
LEMMA Linking ==
    ASSUME LogFitsDictionary, CemInv, curr = "task_sample", NEW j \in Added
    PROVE  \/ \E i \in 0..nvm.node_count-1 : nvm.dict[i].child = j
           \/ \E i \in 0..nvm.node_count-1 : nvm.dict[i].sibling = j
<1>1. curr \in Compressing
  BY DEF Compressing
<1>2. /\ NUM_LETTERS \in Nat /\ 0 < NUM_LETTERS /\ NIL = 0 /\ nvm.node_count \in Nat
      /\ Added = NUM_LETTERS..nvm.node_count-1 /\ j \in Nat
  BY Fields, Sizes DEF CemInv, Added
<1>3. PICK p : p = Parent(j)
  OBVIOUS
<1>4. p \in 0..j-1 /\ p \in 0..nvm.node_count-1
  BY <1>1, <1>2, <1>3 DEF CemInv, ParentInv
<1>5. nvm.dict[p].child \in NUM_LETTERS..j
  BY <1>1, <1>3 DEF CemInv, ChildInv
<1>6. SUFFICES ASSUME nvm.dict[p].child # j
               PROVE  \E i \in 0..nvm.node_count-1 : nvm.dict[i].sibling = j
  BY <1>4
<1> DEFINE T == {d \in Nat : d > 0 /\ j - d \in Added /\ Parent(j - d) = p}
<1>7. PICK c : c = nvm.dict[p].child
  OBVIOUS
<1>8. c \in Added /\ Parent(c) = p /\ c < j
  BY <1>1, <1>2, <1>4, <1>5, <1>6, <1>7 DEF CemInv, ChildInv
<1>9. j - c \in T
  <2>1. j - c \in Nat /\ j - c > 0 /\ j - (j - c) = c
    BY <1>2, <1>8
  <2> QED
    BY <1>8, <2>1
<1>10. PICK d \in T : \A k \in T : ~(<<k, d>> \in OpToRel(<, Nat))
  BY <1>9, NatLessThanWellFounded, WFMin
<1>11. \A k \in T : ~(k < d)
  BY <1>10 DEF OpToRel
<1>12. PICK i : i = j - d
  OBVIOUS
<1>13. i \in Added /\ Parent(i) = p /\ i < j /\ i \in Nat /\ i \in 0..nvm.node_count-1
  BY <1>2, <1>12
<1>14. PICK s : s = nvm.dict[i].sibling
  OBVIOUS
<1>15. s \in i+1..j
  BY <1>1, <1>3, <1>13, <1>14 DEF CemInv, SiblingInv
<1>16. s \in Added /\ Parent(s) = p
  <2>1. s # NIL
    BY <1>2, <1>13, <1>15
  <2> QED
    BY <1>1, <1>13, <1>14, <2>1 DEF CemInv, SiblingInv
<1>17. ~(s < j)
  <2> SUFFICES ASSUME s < j PROVE FALSE
    OBVIOUS
  <2>1. j - s \in Nat /\ j - s > 0 /\ j - (j - s) = s /\ j - s < d
    BY <1>2, <1>12, <1>13, <1>15
  <2>2. j - s \in T
    BY <1>16, <2>1
  <2> QED
    BY <1>11, <2>1, <2>2
<1>18. s = j
  BY <1>2, <1>13, <1>15, <1>17
<1> QED
  BY <1>13, <1>14, <1>18

\* No node is linked twice.
LEMMA LinkedOnce ==
    ASSUME LogFitsDictionary, CemInv, curr = "task_sample",
           NEW i \in 0..nvm.node_count-1, NEW k \in 0..nvm.node_count-1
    PROVE  /\ nvm.dict[i].child # NIL /\ nvm.dict[i].child = nvm.dict[k].child => i = k
           /\ nvm.dict[i].sibling # NIL /\ nvm.dict[i].sibling = nvm.dict[k].sibling => i = k
           /\ nvm.dict[i].child # NIL => nvm.dict[i].child # nvm.dict[k].sibling
<1>1. curr \in Compressing /\ i \in Int /\ k \in Int
  BY DEF Compressing
<1>2. /\ NUM_LETTERS \in Nat /\ 0 < NUM_LETTERS /\ NIL = 0 /\ nvm.node_count \in Nat
      /\ Added = NUM_LETTERS..nvm.node_count-1
  BY Fields, Sizes DEF CemInv, Added
<1>3. ASSUME nvm.dict[i].child # NIL, nvm.dict[i].child = nvm.dict[k].child PROVE i = k
  BY <1>1, <1>3 DEF CemInv, ChildInv
<1>4. ASSUME nvm.dict[i].sibling # NIL, nvm.dict[i].sibling = nvm.dict[k].sibling PROVE i = k
  <2>1. PICK s : s = nvm.dict[i].sibling
    OBVIOUS
  <2>2. /\ i \in Added /\ k \in Added /\ s \in Added /\ i < s /\ k < s
        /\ Parent(s) = Parent(i) /\ Parent(s) = Parent(k)
    BY <1>1, <1>4, <2>1 DEF CemInv, SiblingInv
  <2>3. \A a, b \in Added : a < b /\ Parent(a) = Parent(b) => nvm.dict[a].sibling \in a+1..b
    BY <1>1 DEF CemInv, SiblingInv
  <2>4. ~(i < k)
    <3>1. i < k => s \in i+1..k
      BY <2>1, <2>2, <2>3
    <3> QED
      BY <1>1, <2>2, <3>1
  <2>5. ~(k < i)
    <3>1. k < i => s \in k+1..i
      BY <1>4, <2>1, <2>2, <2>3
    <3> QED
      BY <1>1, <2>2, <3>1
  <2> QED
    BY <1>1, <2>4, <2>5
<1>5. ASSUME nvm.dict[i].child # NIL, nvm.dict[i].child = nvm.dict[k].sibling PROVE FALSE
  <2>1. PICK s : s = nvm.dict[i].child
    OBVIOUS
  <2>2. s # NIL /\ s = nvm.dict[k].sibling
    BY <1>5, <2>1
  <2>3. s \in Added /\ Parent(s) = i
    BY <1>1, <2>1, <2>2 DEF CemInv, ChildInv
  <2>4. k \in Added /\ k < s /\ Parent(s) = Parent(k)
    BY <1>1, <2>2 DEF CemInv, SiblingInv
  <2>5. nvm.dict[i].child \in NUM_LETTERS..k
    BY <1>1, <2>3, <2>4 DEF CemInv, ChildInv
  <2> QED
    BY <1>1, <1>2, <2>1, <2>3, <2>4, <2>5
<1> QED
  BY <1>3, <1>4, <1>5

\* When a sample begins, the dictionary is a forest: where links lead is one to
\* one with the nodes that were added.
THEOREM ForestAlways == ASSUME LogFitsDictionary PROVE CemSpec => []DictionaryIsForest
<1>1. CemInv => DictionaryIsForest
  <2> SUFFICES ASSUME CemInv, curr = "task_sample" PROVE IsForest(nvm.dict, nvm.node_count)
    BY DEF DictionaryIsForest, At
  <2> DEFINE n == nvm.node_count
             names == {"sibling", "child"}
             links == {l \in (0..n-1) \X names : nvm.dict[l[1]][l[2]] # NIL}
             target == [l \in links |-> nvm.dict[l[1]][l[2]]]
  <2>1. curr \in Compressing
    BY DEF Compressing
  <2>2. /\ NUM_LETTERS \in Nat /\ n \in Nat /\ Added = NUM_LETTERS..n-1
        /\ n - NUM_LETTERS \in Nat
    BY <2>1, Fields, Sizes DEF CemInv, NodesInv, Added
  <2>3. \A i \in 0..n-1 : /\ nvm.dict[i]["sibling"] = nvm.dict[i].sibling
                          /\ nvm.dict[i]["child"] = nvm.dict[i].child
    OBVIOUS
  <2>4. \A l \in links : target[l] \in Added
    <3> SUFFICES ASSUME NEW l \in links PROVE nvm.dict[l[1]][l[2]] \in Added
      OBVIOUS
    <3>1. l[1] \in 0..n-1 /\ l[2] \in names /\ nvm.dict[l[1]][l[2]] # NIL
      OBVIOUS
    <3>2. CASE l[2] = "sibling"
      BY <2>1, <2>3, <3>1, <3>2 DEF CemInv, SiblingInv
    <3>3. CASE l[2] = "child"
      BY <2>1, <2>3, <3>1, <3>3 DEF CemInv, ChildInv
    <3> QED
      BY <3>1, <3>2, <3>3
  <2>5. \A j \in Added : \E l \in links : target[l] = j
    <3> SUFFICES ASSUME NEW j \in Added PROVE \E l \in links : nvm.dict[l[1]][l[2]] = j
      OBVIOUS
    <3>1. j # NIL
      BY <2>2, Sizes
    <3>2. CASE \E i \in 0..n-1 : nvm.dict[i].child = j
      <4>1. PICK i \in 0..n-1 : nvm.dict[i].child = j
        BY <3>2
      <4>2. <<i, "child">> \in links
        BY <2>3, <3>1, <4>1
      <4> QED
        BY <2>3, <4>1, <4>2
    <3>3. CASE \E i \in 0..n-1 : nvm.dict[i].sibling = j
      <4>1. PICK i \in 0..n-1 : nvm.dict[i].sibling = j
        BY <3>3
      <4>2. <<i, "sibling">> \in links
        BY <2>3, <3>1, <4>1
      <4> QED
        BY <2>3, <4>1, <4>2
    <3> QED
      BY <3>2, <3>3, Linking
  <2>6. \A l, m \in links : target[l] = target[m] => l = m
    <3> SUFFICES ASSUME NEW l \in links, NEW m \in links,
                        nvm.dict[l[1]][l[2]] = nvm.dict[m[1]][m[2]]
                 PROVE  l = m
      OBVIOUS
    <3>1. PICK i, k : i = l[1] /\ k = m[1]
      OBVIOUS
    <3>2. /\ l = <<i, l[2]>> /\ m = <<k, m[2]>> /\ i \in 0..n-1 /\ k \in 0..n-1
          /\ l[2] \in names /\ m[2] \in names
          /\ nvm.dict[i][l[2]] # NIL /\ nvm.dict[i][l[2]] = nvm.dict[k][m[2]]
      BY <3>1
    <3>3. /\ nvm.dict[i].child # NIL /\ nvm.dict[i].child = nvm.dict[k].child => i = k
          /\ nvm.dict[i].sibling # NIL /\ nvm.dict[i].sibling = nvm.dict[k].sibling => i = k
          /\ nvm.dict[i].child # NIL => nvm.dict[i].child # nvm.dict[k].sibling
          /\ nvm.dict[k].child # NIL => nvm.dict[k].child # nvm.dict[i].sibling
      BY <3>2, LinkedOnce
    <3>4. i = k /\ l[2] = m[2]
      BY <2>3, <3>2, <3>3
    <3> QED
      BY <3>2, <3>4
  <2>7. target \in Bijection(links, Added)
    <3>1. target \in [links -> Added]
      BY <2>4
    <3> HIDE DEF target, links
    <3> QED
      BY <2>5, <2>6, <3>1, Fun_IsBij
  <2>8. IsFiniteSet(links)
    <3>1. IsFiniteSet(names)
      <4>1. IsFiniteSet({"sibling"})
        BY FS_Singleton
      <4>2. IsFiniteSet({"sibling"} \cup {"child"})
        BY <4>1, FS_AddElement
      <4>3. names = {"sibling"} \cup {"child"}
        OBVIOUS
      <4> QED
        BY <4>2, <4>3
    <3>2. IsFiniteSet(0..n-1)
      <4>1. 0 \in Int /\ n - 1 \in Int
        BY <2>2
      <4> QED
        BY <4>1, FS_Interval
    <3>3. IsFiniteSet((0..n-1) \X names)
      BY <3>1, <3>2, FS_Product
    <3>4. links \in SUBSET ((0..n-1) \X names)
      OBVIOUS
    <3> QED
      BY <3>3, <3>4, FS_Subset
  <2>9. Cardinality(links) = n - NUM_LETTERS
    <3>1. Cardinality(links) = Cardinality(Added)
      BY <2>7, <2>8, FS_Bijection DEF ExistsBijection
    <3>2. Cardinality(NUM_LETTERS..n-1) = n - NUM_LETTERS
      <4>1. NUM_LETTERS \in Int /\ n - 1 \in Int
        BY <2>2
      <4>2. Cardinality(NUM_LETTERS..n-1) = IF NUM_LETTERS > n - 1 THEN 0 ELSE (n - 1) - NUM_LETTERS + 1
        BY <4>1, FS_Interval
      <4> HIDE DEF n
      <4> QED
        BY <2>2, <4>2
    <3> QED
      BY <2>2, <3>1, <3>2
  <2>10. {nvm.dict[l[1]][l[2]] : l \in links} = NUM_LETTERS..n-1
    <3>1. \A l \in links : nvm.dict[l[1]][l[2]] = target[l]
      OBVIOUS
    <3> HIDE DEF target, links
    <3> QED
      BY <2>2, <2>4, <2>5, <3>1
  <2> QED
    BY <2>9, <2>10 DEF IsForest
<1> QED
  BY <1>1, CemInvariance, PTL
=============================================================================
