------------------------------ MODULE CemNodes ------------------------------
(***************************************************************************)
(* What the three versions of the cold chain equipment monitor share: the  *)
(* samples, their letters, and the nodes of the dictionary.                *)
(***************************************************************************)
EXTENDS Integers, FiniteSets, Sequences

CONSTANTS
    NUM_LETTERS,    \* 256 in the code
    DICT_SIZE,      \* 512
    BLOCK_SIZE      \* 64

NIL == 0
NUM_LETTERS_IN_SAMPLE == 2
LETTER_SIZE_BITS == 8
WordBits == 16

\* The test data the application is built with.
acquire_sample(prev_sample) == (prev_sample + 1) % 4

\* The letter at index i of a sample: LETTER_MASK is NUM_LETTERS - 1, with NUM_LETTERS
\* a power of two.  The mask of the second letter is beyond the word: shifted out bit
\* by bit, it leaves nothing.
Letter(sample, i) == LET shift == LETTER_SIZE_BITS * i
                     IN  IF shift >= WordBits THEN 0 ELSE (sample \div 2^shift) % NUM_LETTERS

Leaf(l) == [letter |-> l, sibling |-> NIL, child |-> NIL]

\* The tree of the first n nodes of dict: each one that is not a root is the
\* child or the sibling of exactly one node, and nothing else is linked.
IsForest(dict, n) ==
    LET links == {l \in (0..n-1) \X {"sibling", "child"} : dict[l[1]][l[2]] # NIL}
    IN  /\ {dict[l[1]][l[2]] : l \in links} = NUM_LETTERS..n-1
        /\ Cardinality(links) = n - NUM_LETTERS

\* The first n nodes of dict are those that log tells: node NUM_LETTERS + k was
\* added under node log[k].  Links lead from a node to one of its children, and
\* from a child to another of the same node; children of a node have different
\* letters, so that a word is in one place only.
IsToldBy(dict, n, log) ==
    LET nodes == NUM_LETTERS..n-1
        parent(j) == log[j - NUM_LETTERS]
    IN  /\ \A i \in 0..n-1 :
              /\ dict[i].child # NIL => parent(dict[i].child) = i
              /\ dict[i].sibling # NIL => i \in nodes /\ parent(dict[i].sibling) = parent(i)
        /\ \A i, j \in nodes :
              i # j /\ parent(i) = parent(j) => dict[i].letter # dict[j].letter

\* The application prints src/golden_result/cem.txt: the compressed block, and the
\* samples in it.
golden ==
    LET data == <<
            0, 1, 0, 2, 0, 3, 0, 262,
            256, 257, 258, 259, 260, 261, 263, 270,
            264, 265, 266, 267, 268, 269, 271, 278,
            272, 273, 274, 275, 276, 277, 279, 286,
            280, 281, 282, 283, 284, 285, 287, 294,
            288, 289, 290, 291, 292, 293, 295, 302,
            296, 297, 298, 299, 300, 301, 303, 310,
            304, 305, 306, 307, 308, 309, 311, 318>>
    IN  [data |-> [i \in 0..63 |-> data[i+1]], sample_count |-> 353]
=============================================================================
