---------------------------- MODULE ChainProgram ----------------------------
(***************************************************************************)
(* What an application written for Chain (the main_*_chain.c under         *)
(* src/src) is made of: tasks that take effect as a whole, fields of       *)
(* channels stamped with the logical time of the task that wrote them, and *)
(* syncs, which return the value written last.  ChainRuntime shows that    *)
(* the runtime makes tasks look like this; an application must see to it   *)
(* that what a task syncs with has been written by then.                   *)
(*                                                                         *)
(* A field is named by its channel and its name.  A self channel is like   *)
(* any other here: what is output to it is visible to every later          *)
(* execution of a task that syncs with it.  In the code it is visible from *)
(* the next prologue of the task that wrote it, which makes no difference  *)
(* because, in these applications, no other task syncs with it.            *)
(***************************************************************************)
EXTENDS Naturals, Sequences, TLC

VARIABLES
    task,   \* the task to run
    time,   \* its logical time
    chan    \* the fields written so far: their stamps and values

CH(src, dest) == <<src, dest>>
SELF_CH(t) == CH(t, t)
CALL_CH(callee) == <<"call", callee>>
RET_CH(callee) == <<"ret", callee>>
MC_CH(name, src) == <<"mc", src, name>>

\* A field by its name, and an element of an array field.
Field(f) == <<f>>
Elem(f, i) == <<f, i>>

\* The channels of a list whose field x has been written, in order.
Written(chs, x) == SelectSeq(chs, LAMBDA c : <<c, x>> \in DOMAIN chan)

\* chan_in(): the value of the field with the latest stamp, the first one of
\* equals.  When none has been written the code follows a NULL pointer; then
\* there is no value, and the task that asks for one cannot take place.
Sync(x, chs) ==
    LET w == Written(chs, x)
        stamp(i) == chan[<<w[i], x>>].time
        latest == CHOOSE i \in DOMAIN w :
                      \A j \in DOMAIN w : stamp(j) < stamp(i) \/ (stamp(j) = stamp(i) /\ i <= j)
    IN  IF w = <<>> THEN {} ELSE {chan[<<w[latest], x>>].value}

CHAN_IN(f, chs) == Sync(Field(f), chs)
CHAN_IN_ELEM(f, i, chs) == Sync(Elem(f, i), chs)

\* The elements I of an array field.
CHAN_IN_ARRAY(f, I, chs) ==
    LET v == [i \in I |-> CHAN_IN_ELEM(f, i, chs)]
    IN  IF \E i \in I : v[i] = {} THEN {} ELSE {[i \in I |-> CHOOSE x \in v[i] : TRUE]}

\* chan_out(): value v for a field of the channels chs.
CHAN_OUT(f, v, chs) == [x \in chs \X {Field(f)} |-> v]
CHAN_OUT_ELEM(f, i, v, chs) == [x \in chs \X {Elem(f, i)} |-> v]

\* The elements of function v for the array field f.
CHAN_OUT_ARRAY(f, v, chs) == [x \in chs \X {Elem(f, i) : i \in DOMAIN v} |-> v[x[2][2]]]

NoOutput == <<>>

At(t) == task = t

\* The task ends with the outputs outs and a transition to t.
TRANSITION_TO(t, outs) ==
    /\ chan' = [x \in DOMAIN outs |-> [time |-> time, value |-> outs[x]]] @@ chan
    /\ time' = time + 1
    /\ task' = t

\* ENTRY_TASK runs at time 0.
ChainInit == /\ task = "_entry_task"
             /\ time = 0
             /\ chan = <<>>

\* The value written last to any of a set of fields, or v before the first.
Latest(fields, v) ==
    LET w == fields \cap DOMAIN chan
        x == CHOOSE x \in w : \A y \in w : chan[y].time <= chan[x].time
    IN  IF w = {} THEN v ELSE chan[x].value
=============================================================================
