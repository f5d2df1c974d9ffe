------------------------------ MODULE RsaDino ------------------------------
(***************************************************************************)
(* The RSA application on DINO: the numbers are in non-volatile memory and *)
(* a loop over their digits has a boundary in every pass; what a pass      *)
(* hands to the next is in locals.                                         *)
(***************************************************************************)
EXTENDS RsaDigits

CYPHERTEXT_LEN == <<"CYPHERTEXT_LEN">>
Words(message) ==
    ({"in_block", "out_block", "qxn", "product"} \X ProductDigits)
    \cup ({"CYPHERTEXT"} \X (0..CYPHERTEXT_SIZE(message)-1)) \cup {CYPHERTEXT_LEN}

\* m names the number that mod_mult() multiplies by in_block.  lower says
\* whether the linker placed the blocks before qxn.
Start(message, lower) ==
    [at |-> "main",
     vol |-> [message |-> message, lower |-> lower, in_block_offset |-> 0, out_block_offset |-> 0, e |-> 0,
              m |-> "out_block", i |-> 0, carry |-> 0, d |-> 0, normalizable |-> FALSE,
              m_d |-> <<0, 0, 0>>, q |-> 0],
     nv |-> [w \in Words(message) |-> 0]]

Seg(stores, vol, b) == [stores |-> stores, vol |-> vol, next |-> b]

\* A number in memory, and the stores of the first n digits of f to number x.
Number(nv, x) == [i \in ProductDigits |-> nv[<<x, i>>]]
Stores(x, n, f) == [k \in 1..n |-> <<<<x, k - 1>>, f[k - 1]>>]

\* How far up the modulus is when digit d is reduced, and when it is normalized.
Offset(vol) == vol.d - NUM_DIGITS
NormalizeOffset(vol) == vol.d + 1 - NUM_DIGITS

\* The digits with a DINO_MANUAL_VERSION_VAL before a boundary.
Versioned(at, vol) ==
    CASE at = "REDUCE_NORMALIZE_LOOP" -> {<<vol.m, vol.i + NormalizeOffset(vol)>>}
      [] at \in {"REDUCE_ADD_LOOP", "REDUCE_SUBTRACT_LOOP"} -> {<<vol.m, vol.i>>}
      [] OTHER -> {}

Unrestored == {"REDUCE_NORMALIZE"}

\* The next block of the message or, after the last, the end.
NextBlock(stores, vol) ==
    IF vol.in_block_offset < Len(vol.message) THEN Seg(stores, vol, "ENCRYPT")
    ELSE Seg(Append(stores, <<CYPHERTEXT_LEN, vol.out_block_offset>>), vol, "ENCRYPT_DONE")

Encrypt(vol) ==
    Seg(Stores("in_block", NUM_DIGITS, Padded(vol.message, vol.in_block_offset)), [vol EXCEPT !.e = pubkey_e], "MOD_EXP")

\* out_block is multiplied by the base if the exponent is odd, and then the
\* base is squared.
ModExpLoop(vol) == Seg(<<>>, [vol EXCEPT !.m = IF vol.e % 2 = 1 THEN "out_block" ELSE "in_block"], "MULT")

\* mod_mult() returns.
ModMultDone(vol) ==
    IF vol.m = "out_block" THEN Seg(<<>>, [vol EXCEPT !.m = "in_block"], "MULT")
    ELSE Seg(<<>>, [vol EXCEPT !.e = @ \div 2], IF vol.e \div 2 > 0 THEN "MOD_EXP_LOOP" ELSE "MOD_EXP_DONE")

ModExpDone(vol, nv) ==
    NextBlock([k \in 1..NUM_DIGITS |-> <<<<"CYPHERTEXT", vol.out_block_offset + k - 1>>, nv[<<"out_block", k - 1>>]>>],
              [vol EXCEPT !.in_block_offset = @ + NUM_DIGITS - NUM_PAD_DIGITS, !.out_block_offset = @ + NUM_DIGITS])

MultDigitLoop(vol, nv) ==
    LET column == Column(Number(nv, vol.m), Number(nv, "in_block"), vol.i, vol.carry)
    IN  Seg(<<<<<<"product", vol.i>>, column.digit>>>>, [vol EXCEPT !.i = @ + 1, !.carry = column.carry],
            IF vol.i + 1 < 2 * NUM_DIGITS THEN "MULT_DIGIT_LOOP" ELSE "MULT_COPY")

MultCopy(vol, nv) == Seg(Stores(vol.m, 2 * NUM_DIGITS, Number(nv, "product")), vol, "MULT_DONE")

\* Which of the answers there are is the first or the second of rand.
ReduceNormalizable(vol, nv, rand) ==
    LET answers == Normalizable(Number(nv, vol.m), NormalizeOffset(vol))
    IN  Seg(<<>>, [vol EXCEPT !.normalizable = IF rand = 0 THEN TRUE \in answers ELSE FALSE \notin answers],
            "REDUCE_NORMALIZABLE_DONE")

\* The head of the loop over the digits from d down to NUM_DIGITS.
ReduceLoop(vol) == Seg(<<>>, vol, IF vol.d >= NUM_DIGITS THEN "REDUCE_QUOTIENT_1" ELSE "REDUCE_DONE")

ReduceNormalizableDone(vol) ==
    CASE vol.normalizable -> Seg(<<>>, vol, "REDUCE_NORMALIZE")
      [] ~vol.normalizable /\ vol.d = NUM_DIGITS - 1 -> ModMultDone(vol)
      [] OTHER -> ReduceLoop(vol)

\* Digit i of the number, less s: the borrow of the digits before is in carry.
\* The loop goes on while i is less than n.
SubtractDigit(vol, nv, i, s, n, loop, done) ==
    LET less == nv[<<vol.m, i>>] - s - vol.carry
    IN  Seg(<<<<<<vol.m, i>>, less % 256>>>>, [vol EXCEPT !.i = @ + 1, !.carry = IF less < 0 THEN 1 ELSE 0],
            IF vol.i + 1 < n THEN loop ELSE done)

\* Digit i of the modulus offset digits further up.
ModulusDigit(i, offset) == IF i - offset \in Digits THEN Modulus[i - offset] ELSE 0

ReduceQuotient1(vol, nv) ==
    Seg(<<>>, [vol EXCEPT !.m_d = [k \in 1..3 |-> nv[<<vol.m, vol.d + 1 - k>>]]], "REDUCE_QUOTIENT_2")

\* The first guess, and one more, which the loop takes back.
ReduceQuotient2(vol) ==
    LET n_n == Modulus[NUM_DIGITS - 1]
    IN  Seg(<<>>, [vol EXCEPT !.q = IF vol.m_d[1] = n_n THEN 255 ELSE (vol.m_d[1] * 256 + vol.m_d[2]) \div n_n],
            "REDUCE_QUOTIENT_3")

\* (Bug) The first guess is always taken.
ReduceQuotient4_Guess(vol) == Seg(<<>>, [vol EXCEPT !.q = @ - 1], "REDUCE_QUOTIENT_DONE")

ReduceQuotient4(vol) ==
    LET n_div == Modulus[NUM_DIGITS - 1] * 256 + Modulus[NUM_DIGITS - 2]
        n_q == (vol.m_d[1] * 256 + vol.m_d[2]) * 256 + vol.m_d[3]
    IN  Seg(<<>>, [vol EXCEPT !.q = @ - 1],
            IF n_div * (vol.q - 1) > n_q THEN "REDUCE_QUOTIENT_4" ELSE "REDUCE_QUOTIENT_DONE")

\* The loops over the digits from the offset up.
DigitLoop(stores, vol, loop) == Seg(stores, [vol EXCEPT !.i = Offset(vol), !.carry = 0], loop)
NextDigit(stores, vol, carry, loop, done) ==
    Seg(stores, [vol EXCEPT !.i = @ + 1, !.carry = carry], IF vol.i + 1 < 2 * NUM_DIGITS THEN loop ELSE done)

ReduceMultiply(vol) == DigitLoop(Stores("qxn", Offset(vol), Zero(ProductDigits)), vol, "REDUCE_MULTIPLY_LOOP")

ReduceMultiplyLoop(vol) ==
    LET p == (vol.carry + vol.q * ModulusDigit(vol.i, Offset(vol))) % 65536
    IN  NextDigit(<<<<<<"qxn", vol.i>>, p % 256>>>>, vol, p \div 256, "REDUCE_MULTIPLY_LOOP", "REDUCE_MULTIPLY_DONE")

\* What reduce_compare() compares is the addresses of the two numbers.
ReduceCompareDone(vol) == Seg(<<>>, vol, IF vol.lower THEN "REDUCE_ADD" ELSE "REDUCE_SUBTRACT")

ReduceAddLoop(vol, nv) ==
    LET r == vol.carry + nv[<<vol.m, vol.i>>] + ModulusDigit(vol.i, Offset(vol))
    IN  NextDigit(<<<<<<vol.m, vol.i>>, r % 256>>>>, vol, r \div 256, "REDUCE_ADD_LOOP", "REDUCE_ADD_DONE")

Segment(at, vol, nv, rand) ==
    CASE at = "main" -> Seg(<<>>, vol, "PRINT_PLAINTEXT")
      [] at = "PRINT_PLAINTEXT" -> NextBlock(<<>>, [vol EXCEPT !.in_block_offset = 0, !.out_block_offset = 0])
      [] at = "ENCRYPT" -> Encrypt(vol)
      [] at = "MOD_EXP" -> Seg(Stores("out_block", NUM_DIGITS, One), vol, "MOD_EXP_LOOP")
      [] at = "MOD_EXP_LOOP" -> ModExpLoop(vol)
      [] at = "MULT" -> Seg(<<>>, [vol EXCEPT !.i = 0, !.carry = 0], "MULT_DIGIT_LOOP")
      [] at = "MULT_DIGIT_LOOP" -> MultDigitLoop(vol, nv)
      [] at = "MULT_COPY" -> MultCopy(vol, nv)
      [] at = "MULT_DONE" -> Seg(<<>>, vol, "REDUCE")
      [] at = "REDUCE" -> Seg(<<>>, [vol EXCEPT !.d = TopDigit(Number(nv, vol.m))], "REDUCE_NORMALIZABLE")
      [] at = "REDUCE_NORMALIZABLE" -> ReduceNormalizable(vol, nv, rand)
      [] at = "REDUCE_NORMALIZABLE_DONE" -> ReduceNormalizableDone(vol)
      [] at = "REDUCE_NORMALIZE" -> Seg(<<>>, [vol EXCEPT !.i = 0, !.carry = 0], "REDUCE_NORMALIZE_LOOP")
      [] at = "REDUCE_NORMALIZE_LOOP" -> SubtractDigit(vol, nv, vol.i + NormalizeOffset(vol), Modulus[vol.i], NUM_DIGITS,
                                                       "REDUCE_NORMALIZE_LOOP", "REDUCE_NORMALIZE_DONE")
      [] at = "REDUCE_NORMALIZE_DONE" -> ReduceLoop(vol)
      [] at = "REDUCE_QUOTIENT_1" -> ReduceQuotient1(vol, nv)
      [] at = "REDUCE_QUOTIENT_2" -> ReduceQuotient2(vol)
      [] at = "REDUCE_QUOTIENT_3" -> Seg(<<>>, [vol EXCEPT !.q = @ + 1], "REDUCE_QUOTIENT_4")
      [] at = "REDUCE_QUOTIENT_4" -> ReduceQuotient4(vol)
      [] at = "REDUCE_QUOTIENT_DONE" -> Seg(<<>>, vol, "REDUCE_MULTIPLY")
      [] at = "REDUCE_MULTIPLY" -> ReduceMultiply(vol)
      [] at = "REDUCE_MULTIPLY_LOOP" -> ReduceMultiplyLoop(vol)
      [] at = "REDUCE_MULTIPLY_DONE" -> Seg(<<>>, vol, "REDUCE_COMPARE")
      [] at = "REDUCE_COMPARE" -> Seg(<<>>, vol, "REDUCE_COMPARE_DONE")
      [] at = "REDUCE_COMPARE_DONE" -> ReduceCompareDone(vol)
      [] at = "REDUCE_ADD" -> DigitLoop(<<>>, vol, "REDUCE_ADD_LOOP")
      [] at = "REDUCE_ADD_LOOP" -> ReduceAddLoop(vol, nv)
      [] at = "REDUCE_ADD_DONE" -> Seg(<<>>, vol, "REDUCE_SUBTRACT")
      [] at = "REDUCE_SUBTRACT" -> DigitLoop(<<>>, vol, "REDUCE_SUBTRACT_LOOP")
      [] at = "REDUCE_SUBTRACT_LOOP" -> SubtractDigit(vol, nv, vol.i, nv[<<"qxn", vol.i>>], 2 * NUM_DIGITS,
                                                      "REDUCE_SUBTRACT_LOOP", "REDUCE_SUBTRACT_DONE")
      [] at = "REDUCE_SUBTRACT_DONE" -> ReduceLoop([vol EXCEPT !.d = @ - 1])
      [] at = "REDUCE_DONE" -> ModMultDone(vol)
      [] at = "MOD_EXP_DONE" -> ModExpDone(vol, nv)
      [] at = "ENCRYPT_DONE" -> Seg(<<>>, vol, "PRINT_CYPHERTEXT")
      [] at = "PRINT_CYPHERTEXT" -> Seg(<<>>, vol, "exit")

\* What the program prints.
Printed(nv) == [i \in 0..nv[CYPHERTEXT_LEN]-1 |-> nv[<<"CYPHERTEXT", i>>]]
=============================================================================
