----------------------------- MODULE BitCounts -----------------------------
(***************************************************************************)
(* The seven ways the bit count application counts the bits of a word,     *)
(* as functions of main_bc_dino.c, where they are functions of their own,  *)
(* and that program.  Bitcount and BitcountChain have its other versions.  *)
(***************************************************************************)
EXTENDS Integers, Bitwise, SequencesExt

CONSTANTS SEED, ITER    \* 4 and 100 in the code

Bit(x, i) == (x \div 2^i) % 2

\* The byte, or the nibble, of x from bit i on.
Byte(x, i) == (x \div 2^i) % 256
Nibble(x, i) == (x \div 2^i) % 16

\* The table bits: how many bits are set in each byte.
bits(b) == FoldFunction(+, 0, [i \in 0..7 |-> Bit(b, i)])

\* Clears the lowest bit until none is left.
bit_count[x \in Nat] == IF x = 0 THEN 0 ELSE 1 + bit_count[x & (x - 1)]

\* (x & ~mask) >> k, which is (x >> k) & mask for the masks used, plus
\* x & mask.
Halve[x \in Nat, k \in Nat, mask \in Nat] == ((x \div 2^k) & mask) + (x & mask)

bitcount(x) ==
    Halve[Halve[Halve[Halve[Halve[x, 1, \H55555555], 2, \H33333333], 4, \H0F0F0F0F],
                8, \H00FF00FF], 16, \H0000FFFF]

\* Nibble after nibble until only zeros are left.
ntbl_bitcnt[x \in Nat] ==
    bits(Nibble(x, 0)) + (IF x \div 16 = 0 THEN 0 ELSE ntbl_bitcnt[x \div 16])

ntbl_bitcount(x) ==
    bits(Nibble(x, 0)) + bits(Nibble(x, 4)) + bits(Nibble(x, 8)) + bits(Nibble(x, 12))
    + bits(Nibble(x, 16)) + bits(Nibble(x, 20)) + bits(Nibble(x, 24)) + bits(Nibble(x, 28))

BW_btbl_bitcount(x) ==
    bits(Byte(x, 0)) + bits(Byte(x, 8)) + bits(Byte(x, 24)) + bits(Byte(x, 16))

AR_btbl_bitcount(x) ==
    bits(Byte(x, 0)) + bits(Byte(x, 8)) + bits(Byte(x, 16)) + bits(Byte(x, 24))

\* Shifts until no bit is left.
bit_shifter[x \in Nat] == IF x = 0 THEN 0 ELSE (x % 2) + bit_shifter[x \div 2]

\* The methods in the order the application uses them.
Count(func, x) ==
    CASE func = 0 -> bit_count[x]
      [] func = 1 -> bitcount(x)
      [] func = 2 -> ntbl_bitcnt[x]
      [] func = 3 -> ntbl_bitcount(x)
      [] func = 4 -> BW_btbl_bitcount(x)
      [] func = 5 -> AR_btbl_bitcount(x)
      [] func = 6 -> bit_shifter[x]

Funcs == 0..6

\* The application prints src/golden_result/bc.txt: the bits every method counts.
golden == [f \in Funcs |-> 502]
-----------------------------------------------------------------------------
(* The application on DINO: it keeps everything in locals, so that its     *)
(* segments store nothing to non-volatile memory but its output.           *)

Boundaries == <<"TASK_B0", "TASK_B1", "TASK_B2", "TASK_B3", "TASK_B4", "TASK_B5", "TASK_B6">>

Start == [at |-> "main",
          vol |-> [n |-> [f \in Funcs |-> 0], func |-> 0, seed |-> 0, iter |-> 0],
          nv |-> [out |-> <<>>]]

To(b, vol) == [stores |-> <<>>, vol |-> vol, next |-> b]

\* The head of the outer loop.
OuterLoop(vol) == IF vol.func \in Funcs THEN To("TASK_SELECT_FUNC", vol) ELSE To("TASK_END", vol)

\* The head of an inner loop.
InnerLoop(vol) == IF vol.iter < ITER THEN To(Boundaries[vol.func + 1], vol)
                  ELSE OuterLoop([vol EXCEPT !.func = @ + 1])

Segment(at, vol, nv) ==
    CASE at = "main" -> To("TASK_INIT", vol)
      [] at = "TASK_INIT" -> OuterLoop([vol EXCEPT !.func = 0])
      [] at = "TASK_SELECT_FUNC" -> InnerLoop([vol EXCEPT !.seed = SEED, !.iter = 0])
      [] at \in {Boundaries[f + 1] : f \in Funcs} ->
            InnerLoop([vol EXCEPT !.n[vol.func] = @ + Count(vol.func, vol.seed),
                                  !.iter = @ + 1, !.seed = @ + 13])
      [] at = "TASK_END" -> [stores |-> <<<<"out", vol.n>>>>, vol |-> vol, next |-> "exit"]
=============================================================================
