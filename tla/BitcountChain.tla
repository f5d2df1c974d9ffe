---------------------------- MODULE BitcountChain ----------------------------
(***************************************************************************)
(* The bit count application on Chain: what Bitcount keeps in globals is   *)
(* passed from task to task, and from a task to itself.                    *)
(***************************************************************************)
EXTENDS ChainProgram, BitCounts

VARIABLE out
vars == <<task, time, chan, out>>

Counters == <<"task_bit_count", "task_bitcount", "task_ntbl_bitcnt", "task_ntbl_bitcount",
              "task_BW_btbl_bitcount", "task_AR_btbl_bitcount", "task_bit_shifter">>
Counter(func) == Counters[func + 1]

Init == ChainInit /\ out = <<>>

Enter == /\ At("_entry_task")
         /\ TRANSITION_TO("task_init", NoOutput)
         /\ UNCHANGED out

TaskInit ==
    /\ At("task_init")
    /\ TRANSITION_TO("task_select_func",
           CHAN_OUT("func", 0, {CH("task_init", "task_select_func")})
           @@ CHAN_OUT("n", 0, {CH("task_init", Counter(f)) : f \in Funcs}))
    /\ UNCHANGED out

SelectFunc ==
    /\ At("task_select_func")
    /\ \E func \in CHAN_IN("func", <<SELF_CH("task_select_func"), CH("task_init", "task_select_func")>>) :
         LET t == Counter(func)
         IN  IF func \notin Funcs
             THEN TRANSITION_TO("task_end", NoOutput)
             ELSE TRANSITION_TO(t, CHAN_OUT("iter", 0, {CH("task_select_func", t)})
                                   @@ CHAN_OUT("seed", SEED, {CH("task_select_func", t)})
                                   @@ CHAN_OUT("func", func + 1, {SELF_CH("task_select_func")}))
    /\ UNCHANGED out

CountBits(f) ==
    LET t == Counter(f)
        chosen == <<CH("task_select_func", t), SELF_CH(t)>>
    IN  /\ At(t)
        /\ \E n \in CHAN_IN("n", <<CH("task_init", t), SELF_CH(t)>>),
              iter \in CHAN_IN("iter", chosen), seed \in CHAN_IN("seed", chosen) :
             TRANSITION_TO(IF iter + 1 < ITER THEN t ELSE "task_select_func",
                 CHAN_OUT("n", n + Count(f, seed), {CH(t, "task_end"), SELF_CH(t)})
                 @@ CHAN_OUT("iter", iter + 1, {SELF_CH(t)})
                 @@ CHAN_OUT("seed", seed + 13, {SELF_CH(t)}))
        /\ UNCHANGED out

TaskEnd ==
    /\ At("task_end")
    /\ \E n \in [Funcs -> UNION {CHAN_IN("n", <<CH(Counter(f), "task_end")>>) : f \in Funcs}] :
         /\ \A f \in Funcs : n[f] \in CHAN_IN("n", <<CH(Counter(f), "task_end")>>)
         /\ out' = n
    /\ TRANSITION_TO("exit", NoOutput)

Next == \/ Enter
        \/ TaskInit
        \/ SelectFunc
        \/ \E f \in Funcs : CountBits(f)
        \/ TaskEnd

Spec == Init /\ [][Next]_vars
-----------------------------------------------------------------------------
\* Where the globals of the Alpaca version are to be found: the last value
\* sent is the value of the variable.  Alpaca's task_select_func starts the
\* words over before it sees that no method is left, this one does not.
Global(field) == {x \in DOMAIN chan : x[2] = Field(field)}

mem ==
    LET n(f) == {x \in Global("n") : x[1] \in {CH("task_init", Counter(f)), SELF_CH(Counter(f))}}
        over == task \in {"task_end", "exit"}
    IN  [n |-> [f \in Funcs |-> Latest(n(f), 0)],
         func |-> Latest(Global("func"), 0),
         seed |-> IF over THEN SEED ELSE Latest(Global("seed"), 0),
         iter |-> IF over THEN 0 ELSE Latest(Global("iter"), 0)]

Alpaca == INSTANCE Bitcount

StartsAsAlpaca == Alpaca!Init
StepsAsAlpaca == [Alpaca!Next]_(Alpaca!vars)
=============================================================================
