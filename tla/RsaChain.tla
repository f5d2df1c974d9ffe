------------------------------ MODULE RsaChain ------------------------------
(***************************************************************************)
(* The RSA application on Chain.  A number that tasks change in turn is in *)
(* as many channels as there are tasks that write it, and each channel may *)
(* have only some of its digits.  The digits that are sent to be printed   *)
(* are left out: task_print_product only goes on to the next task.         *)
(***************************************************************************)
EXTENDS ChainProgram, RsaDigits

VARIABLE PLAINTEXT      \* the one that was compiled in
VARIABLE out
vars == <<PLAINTEXT, task, time, chan, out>>

ch_base == MC_CH("ch_base", "task_pad")
ch_square_base == MC_CH("ch_square_base", "task_square_base_get_result")
ch_modulus == MC_CH("ch_modulus", "task_init")
ch_product == MC_CH("ch_product", "task_mult")
ch_normalized_product == MC_CH("ch_normalized_product", "task_reduce_normalize")
ch_reduce_add == CH("task_reduce_add", "task_reduce_subtract")
ch_reduce_subtract_product == MC_CH("ch_reduce_subtract_product", "task_reduce_subtract")
ch_qn == MC_CH("ch_qn", "task_reduce_multiply")
ch_digit == MC_CH("ch_digit", "task_reduce_digits")
ch_reduce_digit == MC_CH("ch_reduce_digit", "task_reduce_quotient")
ch_mult_mod == CALL_CH("ch_mult_mod")
ch_result == RET_CH("ch_mult_mod")
ch_print_product == CALL_CH("ch_print_product")

Init == ChainInit /\ PLAINTEXT \in Messages /\ out = <<>>

Enter == /\ At("_entry_task")
         /\ TRANSITION_TO("task_init", NoOutput)
         /\ UNCHANGED out

TaskInit ==
    LET to_pad == {CH("task_init", "task_pad")}
    IN  /\ At("task_init")
        /\ TRANSITION_TO("task_pad",
               CHAN_OUT_ARRAY("NN", Modulus, {ch_modulus}) @@ CHAN_OUT("E", pubkey_e, to_pad)
               @@ CHAN_OUT("message_length", Len(PLAINTEXT), to_pad) @@ CHAN_OUT("block_offset", 0, to_pad)
               @@ CHAN_OUT("cyphertext_len", 0, {CH("task_init", "task_mult_block_get_result")}))
        /\ UNCHANGED out

Pad ==
    LET from_init == CH("task_init", "task_pad")
        self == SELF_CH("task_pad")
    IN  /\ At("task_pad")
        /\ \E block_offset \in CHAN_IN("block_offset", <<from_init, self>>),
              message_length \in CHAN_IN("message_length", <<from_init>>) :
             \/ /\ block_offset >= message_length
                /\ TRANSITION_TO("task_print_cyphertext", NoOutput)
             \/ /\ block_offset < message_length
                /\ \E e \in CHAN_IN("E", <<from_init>>) :
                     TRANSITION_TO("task_exp",
                         CHAN_OUT_ARRAY("base", Padded(PLAINTEXT, block_offset), {ch_base})
                         @@ CHAN_OUT_ARRAY("block", One, {CH("task_pad", "task_mult_block")})
                         @@ CHAN_OUT("E", e, {CH("task_pad", "task_exp")})
                         @@ CHAN_OUT("block_offset", block_offset + NUM_DIGITS - NUM_PAD_DIGITS, {self}))
        /\ UNCHANGED out

Exp ==
    LET self == SELF_CH("task_exp")
    IN  /\ At("task_exp")
        /\ \E e \in CHAN_IN("E", <<CH("task_pad", "task_exp"), self>>) :
             TRANSITION_TO(IF e % 2 = 1 THEN "task_mult_block" ELSE "task_square_base",
                           CHAN_OUT("E", e \div 2, {self, CH("task_exp", "task_mult_block_get_result")}))
        /\ UNCHANGED out

Base == CHAN_IN_ARRAY("base", Digits, <<ch_base, ch_square_base>>)

Block == CHAN_IN_ARRAY("block", Digits, <<CH("task_pad", "task_mult_block"),
                                          CH("task_mult_block_get_result", "task_mult_block")>>)

\* The call that multiplies a by b and goes on with task t.
MultModArgs(a, b, t) == CHAN_OUT_ARRAY("A", a, {ch_mult_mod}) @@ CHAN_OUT_ARRAY("B", b, {ch_mult_mod})
                        @@ CHAN_OUT("next_task", t, {ch_mult_mod})

MultBlock ==
    /\ At("task_mult_block")
    /\ \E base \in Base, block \in Block :
         TRANSITION_TO("task_mult_mod", MultModArgs(base, block, "task_mult_block_get_result"))
    /\ UNCHANGED out

SquareBase ==
    /\ At("task_square_base")
    /\ \E base \in Base :
         TRANSITION_TO("task_mult_mod", MultModArgs(base, base, "task_square_base_get_result"))
    /\ UNCHANGED out

Result == CHAN_IN_ARRAY("product", Digits, <<ch_result>>)

\* The length is passed on to the next execution of the task, and when a
\* block is finished to the task that prints.
MultBlockGetResult ==
    LET self == SELF_CH("task_mult_block_get_result")
        to_print == CH("task_mult_block_get_result", "task_print_cyphertext")
    IN  /\ At("task_mult_block_get_result")
        /\ \E result \in Result, e \in CHAN_IN("E", <<CH("task_exp", "task_mult_block_get_result")>>),
              len \in CHAN_IN("cyphertext_len", <<CH("task_init", "task_mult_block_get_result"), self>>) :
             LET block == CHAN_OUT_ARRAY("block", result, {CH("task_mult_block_get_result", "task_mult_block")})
                 fits == len + NUM_DIGITS <= CYPHERTEXT_SIZE(PLAINTEXT)
                 saved == IF fits THEN [i \in len..len + NUM_DIGITS - 1 |-> result[i - len]] ELSE <<>>
             IN  \/ /\ e > 0
                    /\ TRANSITION_TO("task_square_base", block @@ CHAN_OUT("cyphertext_len", len, {self}))
                 \/ /\ e = 0
                    /\ TRANSITION_TO("task_pad",
                           block @@ CHAN_OUT_ARRAY("cyphertext", saved, {to_print})
                           @@ CHAN_OUT("cyphertext_len", IF fits THEN len + NUM_DIGITS ELSE len, {self, to_print}))
        /\ UNCHANGED out

SquareBaseGetResult ==
    /\ At("task_square_base_get_result")
    /\ \E result \in Result : TRANSITION_TO("task_exp", CHAN_OUT_ARRAY("base", result, {ch_square_base}))
    /\ UNCHANGED out

\* The task does not end.
PrintCyphertext ==
    LET from == <<CH("task_mult_block_get_result", "task_print_cyphertext")>>
    IN  /\ At("task_print_cyphertext")
        /\ \E len \in CHAN_IN("cyphertext_len", from) :
             \E cyphertext \in CHAN_IN_ARRAY("cyphertext", 0..len-1, from) : out' = cyphertext
        /\ task' = "exit"
        /\ UNCHANGED <<time, chan>>

MultMod ==
    LET to_mult == {CH("task_mult_mod", "task_mult")}
    IN  /\ At("task_mult_mod")
        /\ \E a \in CHAN_IN_ARRAY("A", Digits, <<ch_mult_mod>>), b \in CHAN_IN_ARRAY("B", Digits, <<ch_mult_mod>>) :
             TRANSITION_TO("task_mult", CHAN_OUT_ARRAY("A", a, to_mult) @@ CHAN_OUT_ARRAY("B", b, to_mult)
                                        @@ CHAN_OUT("digit", 0, to_mult) @@ CHAN_OUT("carry", 0, to_mult))
        /\ UNCHANGED out

\* The call that prints a product and goes on with task t.
PrintThen(t) == CHAN_OUT("next_task", t, {ch_print_product})

Mult ==
    LET from == CH("task_mult_mod", "task_mult")
        self == SELF_CH("task_mult")
    IN  /\ At("task_mult")
        /\ \E digit \in CHAN_IN("digit", <<from, self>>), carry \in CHAN_IN("carry", <<from, self>>),
              a \in CHAN_IN_ARRAY("A", Digits, <<from>>), b \in CHAN_IN_ARRAY("B", Digits, <<from>>) :
             LET column == Column(a, b, digit, carry)
                 product == CHAN_OUT_ELEM("product", digit, column.digit, {ch_product})
             IN  \/ /\ digit + 1 < 2 * NUM_DIGITS
                    /\ TRANSITION_TO("task_mult", product @@ CHAN_OUT("carry", column.carry, {self})
                                                  @@ CHAN_OUT("digit", digit + 1, {self}))
                 \/ /\ digit + 1 = 2 * NUM_DIGITS
                    /\ TRANSITION_TO("task_print_product", product @@ PrintThen("task_reduce_digits"))
        /\ UNCHANGED out

\* The product as task_mult left it.
Multiplied == CHAN_IN_ARRAY("product", ProductDigits, <<ch_product>>)

\* A product of zero starts the program over.
ReduceDigits ==
    /\ At("task_reduce_digits")
    /\ \E product \in Multiplied :
         LET d == TopDigit(product)
         IN  \/ /\ product[d] = 0
                /\ TRANSITION_TO("task_init", NoOutput)
             \/ /\ product[d] # 0
                /\ TRANSITION_TO("task_reduce_normalizable", CHAN_OUT("digit", d, {ch_digit}))
    /\ UNCHANGED out

\* See ReduceNormalizable in Rsa for offsets below zero.
ReduceNormalizable ==
    /\ At("task_reduce_normalizable")
    /\ \E d \in CHAN_IN("digit", <<ch_digit>>), product \in Multiplied :
         LET offset == d + 1 - NUM_DIGITS
             sent == CHAN_OUT("offset", offset, {CH("task_reduce_normalizable", "task_reduce_normalize")})
         IN  /\ offset >= 0
             /\ \E normalizable \in Normalizable(product, offset) :
                  \/ /\ normalizable
                     /\ TRANSITION_TO("task_reduce_normalize", sent)
                  \/ /\ ~normalizable /\ offset = 0
                     /\ \E t \in CHAN_IN("next_task", <<ch_mult_mod>>) :
                          TRANSITION_TO(t, sent @@ CHAN_OUT_ARRAY("product", [i \in Digits |-> product[i]], {ch_result}))
                  \/ /\ ~normalizable /\ offset > 0
                     /\ TRANSITION_TO("task_reduce_n_divisor", sent)
    /\ UNCHANGED out

\* With no more digits to reduce it is not the difference that is returned.
ReduceNormalize ==
    /\ At("task_reduce_normalize")
    /\ \E offset \in CHAN_IN("offset", <<CH("task_reduce_normalizable", "task_reduce_normalize")>>),
          product \in Multiplied, t \in CHAN_IN("next_task", <<ch_mult_mod>>) :
         LET normalized == Normalize(product, offset)
             outs == CHAN_OUT_ARRAY("product", [i \in offset..offset + NUM_DIGITS - 1 |-> normalized[i]],
                                    {ch_normalized_product})
         IN  TRANSITION_TO("task_print_product",
                 outs @@ IF offset > 0 THEN PrintThen("task_reduce_n_divisor")
                         ELSE PrintThen(t) @@ CHAN_OUT_ARRAY("product", [i \in Digits |-> product[i]], {ch_result}))
    /\ UNCHANGED out

ReduceNDivisor ==
    /\ At("task_reduce_n_divisor")
    /\ \E n \in CHAN_IN_ARRAY("NN", {NUM_DIGITS - 1, NUM_DIGITS - 2}, <<ch_modulus>>) :
         TRANSITION_TO("task_reduce_quotient",
             CHAN_OUT("n_div", n[NUM_DIGITS - 1] * 256 + n[NUM_DIGITS - 2],
                      {CH("task_reduce_n_divisor", "task_reduce_quotient")}))
    /\ UNCHANGED out

\* (Bug) What task_reduce_subtract left is not synced with.
Reduced_Once(D) == CHAN_IN_ARRAY("product", D, <<ch_product, ch_normalized_product>>)

\* Digits D of the product as the last task to reduce it left them.
Reduced(D) == CHAN_IN_ARRAY("product", D, <<ch_product, ch_normalized_product, ch_reduce_subtract_product>>)

ReduceQuotient ==
    LET self == SELF_CH("task_reduce_quotient")
    IN  /\ At("task_reduce_quotient")
        /\ \E d \in CHAN_IN("digit", <<ch_digit, self>>) :
             \E product \in Reduced(d - 2..d) :
               TRANSITION_TO("task_reduce_multiply",
                   CHAN_OUT("quotient", Quotient(product, d), {CH("task_reduce_quotient", "task_reduce_multiply")})
                   @@ CHAN_OUT("digit", d, {ch_reduce_digit}) @@ CHAN_OUT("digit", d - 1, {self}))
        /\ UNCHANGED out

Offset == {d - NUM_DIGITS : d \in CHAN_IN("digit", <<ch_reduce_digit>>)}

\* The multiple is sent without its digits below the offset.
ReduceMultiply ==
    /\ At("task_reduce_multiply")
    /\ \E offset \in Offset, q \in CHAN_IN("quotient", <<CH("task_reduce_quotient", "task_reduce_multiply")>>) :
         LET multiple == Multiple(q, offset)
         IN  TRANSITION_TO("task_print_product",
                 CHAN_OUT_ARRAY("product", [i \in offset..2 * NUM_DIGITS - 1 |-> multiple[i]], {ch_qn})
                 @@ PrintThen("task_reduce_compare"))
    /\ UNCHANGED out

\* The comparison stops at the first difference, but if there is none from the
\* offset up it goes on to digits of the multiple that are those of an earlier
\* one, or have not been written.
ReduceCompare ==
    LET Differ(i) == Reduced({i}) # {} /\ CHAN_IN_ELEM("product", i, <<ch_qn>>) # {}
        m(i) == (CHOOSE f \in Reduced({i}) : TRUE)[i]
        qn(i) == CHOOSE x \in CHAN_IN_ELEM("product", i, <<ch_qn>>) : TRUE
        differences == {i \in ProductDigits : Differ(i) /\ m(i) # qn(i)}
        first == CHOOSE i \in differences : \A j \in differences : j <= i
        read == {i \in ProductDigits : differences # {} => i >= first}
    IN  /\ At("task_reduce_compare")
        /\ \A i \in read : Differ(i)
        /\ TRANSITION_TO(IF differences # {} /\ m(first) < qn(first) THEN "task_reduce_add"
                         ELSE "task_reduce_subtract", NoOutput)
        /\ UNCHANGED out

ReduceAdd ==
    /\ At("task_reduce_add")
    /\ \E offset \in Offset, product \in Reduced(ProductDigits) :
         LET sum == AddBack(product, offset)
         IN  TRANSITION_TO("task_print_product",
                 CHAN_OUT_ARRAY("product", [i \in offset..2 * NUM_DIGITS - 1 |-> sum[i]], {ch_reduce_add})
                 @@ PrintThen("task_reduce_subtract"))
    /\ UNCHANGED out

\* (Bug) The sum of task_reduce_add is not synced with.
ToSubtractFrom_NotAdded ==
    CHAN_IN_ARRAY("product", ProductDigits,
                  <<ch_product, ch_normalized_product, SELF_CH("task_reduce_subtract")>>)

\* What the multiple is subtracted from.
ToSubtractFrom ==
    CHAN_IN_ARRAY("product", ProductDigits,
                  <<ch_product, ch_normalized_product, ch_reduce_add, SELF_CH("task_reduce_subtract")>>)

ReduceSubtract ==
    /\ At("task_reduce_subtract")
    /\ \E offset \in Offset, product \in ToSubtractFrom :
         \E qn \in CHAN_IN_ARRAY("product", offset..2 * NUM_DIGITS - 1, <<ch_qn>>),
            t \in CHAN_IN("next_task", <<ch_mult_mod>>) :
           LET difference == Subtract(product, qn, offset, 2 * NUM_DIGITS - 1)
               outs == CHAN_OUT_ARRAY("product", [i \in DOMAIN qn |-> difference[i]],
                                      {ch_reduce_subtract_product, SELF_CH("task_reduce_subtract")})
           IN  TRANSITION_TO("task_print_product",
                   outs @@ IF offset > 0 THEN PrintThen("task_reduce_quotient")
                           ELSE PrintThen(t) @@ CHAN_OUT_ARRAY("product", difference, {ch_result}))
    /\ UNCHANGED out

PrintProduct ==
    /\ At("task_print_product")
    /\ \E t \in CHAN_IN("next_task", <<ch_print_product>>) : TRANSITION_TO(t, NoOutput)
    /\ UNCHANGED out

Step == \/ Enter              \/ TaskInit        \/ Pad             \/ Exp
        \/ MultBlock          \/ MultBlockGetResult
        \/ SquareBase         \/ SquareBaseGetResult
        \/ PrintCyphertext    \/ MultMod         \/ Mult            \/ ReduceDigits
        \/ ReduceNormalizable \/ ReduceNormalize \/ ReduceNDivisor  \/ ReduceQuotient
        \/ ReduceMultiply     \/ ReduceCompare   \/ ReduceAdd       \/ ReduceSubtract
        \/ PrintProduct

Next == Step /\ UNCHANGED PLAINTEXT

Spec == Init /\ [][Next]_vars
-----------------------------------------------------------------------------
\* What the tasks that take a result find is less than the modulus, and all
\* of it has been written.
ResultIsReduced ==
    task \in {"task_mult_block_get_result", "task_square_base_get_result"} =>
        \E result \in Result : IsLess(result, Modulus, Digits)
=============================================================================
