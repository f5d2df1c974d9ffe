--------------------------------- MODULE Rsa ---------------------------------
(***************************************************************************)
(* The RSA application on Alpaca: it encrypts a message block by block, by *)
(* square and multiply, each product reduced modulo the key.  Multiplying  *)
(* and reducing are tasks that return to next_task, and each product is    *)
(* printed by a task that returns to next_task_print.                      *)
(***************************************************************************)
EXTENDS RsaDigits

VARIABLE PLAINTEXT      \* the one that was compiled in
VARIABLES task, mem, out

vars == <<PLAINTEXT, task, mem, out>>

Init ==
    /\ PLAINTEXT \in Messages
    /\ task = "_entry_task"
    /\ mem = [product |-> Zero(ProductDigits), product2 |-> Zero(ProductDigits),
              base |-> Zero(Digits), block |-> Zero(Digits), modulus |-> Zero(Digits),
              exponent |-> 0, block_offset |-> 0, message_length |-> 0,
              cyphertext |-> Zero(0..CYPHERTEXT_SIZE(PLAINTEXT)-1), cyphertext_len |-> 0,
              digit |-> 0, carry |-> 0, reduce |-> 0, offset |-> 0, n_div |-> 0, quotient |-> 0,
              next_task |-> "NULL", next_task_print |-> "NULL"]
    /\ out = <<>>

At(t) == task = t
TRANSITION_TO(t) == task' = t

Enter == /\ At("_entry_task")
         /\ TRANSITION_TO("task_init")
         /\ UNCHANGED <<mem, out>>

TaskInit ==
    /\ At("task_init")
    /\ mem' = [mem EXCEPT !.modulus = Modulus, !.message_length = Len(PLAINTEXT),
                          !.block_offset = 0, !.cyphertext_len = 0]
    /\ TRANSITION_TO("task_pad")
    /\ UNCHANGED out

Pad ==
    /\ At("task_pad")
    /\ \/ /\ mem.block_offset >= mem.message_length
          /\ TRANSITION_TO("task_print_cyphertext")
          /\ UNCHANGED mem
       \/ /\ mem.block_offset < mem.message_length
          /\ mem' = [mem EXCEPT !.base = Padded(PLAINTEXT, mem.block_offset), !.block = One, !.exponent = pubkey_e,
                                !.block_offset = @ + NUM_DIGITS - NUM_PAD_DIGITS]
          /\ TRANSITION_TO("task_exp")
    /\ UNCHANGED out

\* (Bug) The exponent loses only its last bit if that is set.
Exp_Odd ==
    /\ At("task_exp")
    /\ mem' = [mem EXCEPT !.exponent = IF @ % 2 = 1 THEN @ - 1 ELSE @ \div 2]
    /\ TRANSITION_TO(IF mem.exponent % 2 = 1 THEN "task_mult_block" ELSE "task_square_base")
    /\ UNCHANGED out

Exp ==
    /\ At("task_exp")
    /\ mem' = [mem EXCEPT !.exponent = @ \div 2]
    /\ TRANSITION_TO(IF mem.exponent % 2 = 1 THEN "task_mult_block" ELSE "task_square_base")
    /\ UNCHANGED out

\* Both multiply base by block.
MultBlock ==
    /\ At("task_mult_block")
    /\ mem' = [mem EXCEPT !.next_task = "task_mult_block_get_result"]
    /\ TRANSITION_TO("task_mult_mod")
    /\ UNCHANGED out

SquareBase ==
    /\ At("task_square_base")
    /\ mem' = [mem EXCEPT !.next_task = "task_square_base_get_result"]
    /\ TRANSITION_TO("task_mult_mod")
    /\ UNCHANGED out

\* The digits of the product that a result has.
Result == [i \in Digits |-> mem.product[i]]

\* A block is dropped if there is no room for it.
SavedBlock ==
    LET len == mem.cyphertext_len
    IN  IF len + NUM_DIGITS > CYPHERTEXT_SIZE(PLAINTEXT) THEN mem
        ELSE [mem EXCEPT !.cyphertext = [i \in DOMAIN @ |-> IF i - len \in Digits THEN mem.product[i - len] ELSE @[i]],
                         !.cyphertext_len = len + NUM_DIGITS]

MultBlockGetResult ==
    /\ At("task_mult_block_get_result")
    /\ \/ /\ mem.exponent > 0
          /\ mem' = [mem EXCEPT !.block = Result]
          /\ TRANSITION_TO("task_square_base")
       \/ /\ mem.exponent = 0
          /\ mem' = [SavedBlock EXCEPT !.block = Result]
          /\ TRANSITION_TO("task_pad")
    /\ UNCHANGED out

SquareBaseGetResult ==
    /\ At("task_square_base_get_result")
    /\ mem' = [mem EXCEPT !.base = Result]
    /\ TRANSITION_TO("task_exp")
    /\ UNCHANGED out

PrintCyphertext ==
    /\ At("task_print_cyphertext")
    /\ out' = [i \in 0..mem.cyphertext_len-1 |-> mem.cyphertext[i]]
    /\ TRANSITION_TO("exit")
    /\ UNCHANGED mem

MultMod ==
    /\ At("task_mult_mod")
    /\ mem' = [mem EXCEPT !.digit = 0, !.carry = 0]
    /\ TRANSITION_TO("task_mult")
    /\ UNCHANGED out

\* Prints the product and goes on with task t.
PrintThen(t) == [mem EXCEPT !.next_task_print = t]

Mult ==
    LET column == Column(mem.base, mem.block, mem.digit, mem.carry)
        more == mem.digit + 1 < 2 * NUM_DIGITS
    IN  /\ At("task_mult")
        /\ mem' = [(IF more THEN mem ELSE PrintThen("task_reduce_digits")) EXCEPT
                       !.product[mem.digit] = column.digit,
                       !.carry = IF more THEN column.carry ELSE @,
                       !.digit = @ + 1]
        /\ TRANSITION_TO(IF more THEN "task_mult" ELSE "task_print_product")
        /\ UNCHANGED out

ReduceDigits ==
    LET d == TopDigit(mem.product)
    IN  /\ At("task_reduce_digits")
        /\ \/ /\ mem.product[d] = 0
              /\ TRANSITION_TO("task_init")
              /\ UNCHANGED mem
           \/ /\ mem.product[d] # 0
              /\ mem' = [mem EXCEPT !.reduce = d]
              /\ TRANSITION_TO("task_reduce_normalizable")
        /\ UNCHANGED out

\* If the product has fewer digits than the modulus the offset goes below
\* zero, and the tasks after this one write outside the product.
ReduceNormalizable ==
    LET offset == mem.reduce + 1 - NUM_DIGITS
    IN  /\ At("task_reduce_normalizable")
        /\ offset >= 0
        /\ mem' = [mem EXCEPT !.offset = offset]
        /\ \E normalizable \in Normalizable(mem.product, offset) :
             \/ /\ normalizable
                /\ TRANSITION_TO("task_reduce_normalize")
             \/ /\ ~normalizable /\ offset = 0
                /\ TRANSITION_TO(mem.next_task)
             \/ /\ ~normalizable /\ offset > 0
                /\ TRANSITION_TO("task_reduce_n_divisor")
        /\ UNCHANGED out

ReduceNormalize ==
    /\ At("task_reduce_normalize")
    /\ mem' = [PrintThen(IF mem.offset > 0 THEN "task_reduce_n_divisor" ELSE mem.next_task)
               EXCEPT !.product = Normalize(@, mem.offset)]
    /\ TRANSITION_TO("task_print_product")
    /\ UNCHANGED out

ReduceNDivisor ==
    /\ At("task_reduce_n_divisor")
    /\ mem' = [mem EXCEPT !.n_div = mem.modulus[NUM_DIGITS - 1] * 256 + mem.modulus[NUM_DIGITS - 2]]
    /\ TRANSITION_TO("task_reduce_quotient")
    /\ UNCHANGED out

ReduceQuotient ==
    /\ At("task_reduce_quotient")
    /\ mem' = [mem EXCEPT !.quotient = Quotient(mem.product, mem.reduce), !.reduce = @ - 1]
    /\ TRANSITION_TO("task_reduce_multiply")
    /\ UNCHANGED out

\* How far up the modulus is, after task_reduce_quotient.
Offset == mem.reduce + 1 - NUM_DIGITS

ReduceMultiply ==
    /\ At("task_reduce_multiply")
    /\ mem' = [PrintThen("task_reduce_compare") EXCEPT !.product2 = Multiple(mem.quotient, Offset)]
    /\ TRANSITION_TO("task_print_product")
    /\ UNCHANGED out

ReduceCompare ==
    /\ At("task_reduce_compare")
    /\ TRANSITION_TO(IF IsLess(mem.product, mem.product2, ProductDigits) THEN "task_reduce_add"
                     ELSE "task_reduce_subtract")
    /\ UNCHANGED <<mem, out>>

ReduceAdd ==
    /\ At("task_reduce_add")
    /\ mem' = [PrintThen("task_reduce_subtract") EXCEPT !.product = AddBack(@, Offset)]
    /\ TRANSITION_TO("task_print_product")
    /\ UNCHANGED out

ReduceSubtract ==
    /\ At("task_reduce_subtract")
    /\ mem' = [PrintThen(IF Offset > 0 THEN "task_reduce_quotient" ELSE mem.next_task)
               EXCEPT !.product = Subtract(@, mem.product2, Offset, 2 * NUM_DIGITS - 1)]
    /\ TRANSITION_TO("task_print_product")
    /\ UNCHANGED out

PrintProduct == /\ At("task_print_product")
                /\ TRANSITION_TO(mem.next_task_print)
                /\ UNCHANGED <<mem, out>>

Step == \/ Enter              \/ TaskInit        \/ Pad             \/ Exp
        \/ MultBlock          \/ MultBlockGetResult
        \/ SquareBase         \/ SquareBaseGetResult
        \/ PrintCyphertext    \/ MultMod         \/ Mult            \/ ReduceDigits
        \/ ReduceNormalizable \/ ReduceNormalize \/ ReduceNDivisor  \/ ReduceQuotient
        \/ ReduceMultiply     \/ ReduceCompare   \/ ReduceAdd       \/ ReduceSubtract
        \/ PrintProduct

Next == Step /\ UNCHANGED PLAINTEXT

Spec == Init /\ [][Next]_vars
-----------------------------------------------------------------------------
\* task_square_base multiplies base by block: that is the square of base only
\* if they are equal.
SquaresBase == At("task_square_base") => mem.block = mem.base

\* What returns to the tasks that take a result is less than the modulus.
ResultIsReduced ==
    task \in {"task_mult_block_get_result", "task_square_base_get_result"} =>
        /\ \A i \in ProductDigits \ Digits : mem.product[i] = 0
        /\ IsLess(mem.product, mem.modulus, Digits)
=============================================================================
