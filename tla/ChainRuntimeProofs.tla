------------------------- MODULE ChainRuntimeProofs -------------------------
(***************************************************************************)
(* Proofs about ChainRuntime, for all tasks, fields and channels: a task   *)
(* that syncs gets what the completed executions have output last.         *)
(***************************************************************************)
EXTENDS ChainRuntime, SequenceTheorems, WellFoundedInduction, TLAPS

\* The bounds are numbers.
LEMMA Bounds == /\ MaxDirty \in Nat \ {0} /\ MaxTime \in Nat \ {0} /\ MaxOuts \in Nat \ {0}
                /\ MaxTransitions \in Nat \ {0} /\ MaxAborts \in Nat \ {0}
BY BoundAssumption

\* What a plan is made of.
LEMMA PlanIs ==
    ASSUME NEW t, NEW p \in PlansOf(t)
    PROVE  /\ p.outs \in Seq(Output) /\ Len(p.outs) \in 0..MaxOuts /\ DOMAIN p.outs = 1..Len(p.outs)
           /\ p.next \in Task \ {InitTask}
           /\ \A i \in 1..Len(p.outs) : /\ p.outs[i].field \in Field /\ Writer[p.outs[i].field] = t
                                        /\ p.outs[i].value \in Value
<1>1. /\ p.next \in Task \ {InitTask}
      /\ p.outs \in UNION {[1..n -> Output] : n \in 0..MaxOuts}
      /\ \A i \in DOMAIN p.outs : Writer[p.outs[i].field] = t
  BY DEF PlansOf
<1>2. PICK n \in 0..MaxOuts : p.outs \in [1..n -> Output]
  BY <1>1
<1>3. n \in Nat /\ p.outs \in Seq(Output)
  BY <1>2, Bounds
<1>4. Len(p.outs) = n /\ DOMAIN p.outs = 1..n
  BY <1>2, <1>3
<1>5. \A i \in 1..n : p.outs[i] \in Output
  BY <1>2
<1> QED
  BY <1>1, <1>2, <1>3, <1>4, <1>5 DEF Output

\* The parts of the state that the proofs take apart.
LEMMA Parts ==
    ASSUME TypeOK
    PROVE  /\ task \in Task /\ time \in Nat /\ time \in 0..MaxTime
           /\ next_ctx \in {0, 1} /\ next_ctx # curctx
           /\ plan.outs \in Seq(Output) /\ Len(plan.outs) \in 0..MaxOuts
           /\ DOMAIN plan.outs = 1..Len(plan.outs)
           /\ plan.next \in Task
           /\ \A i \in 1..Len(plan.outs) : /\ plan.outs[i].field \in Field /\ Writer[plan.outs[i].field] = task
                                           /\ plan.outs[i].value \in Value
           /\ \A f \in Field : Writer[f] \in Task /\ Writer[f] # InitTask
<1>1. task \in Task /\ time \in Nat /\ time \in 0..MaxTime /\ plan \in PlansOf(task)
  BY Bounds DEF TypeOK, task, time, Context
<1>2. next_ctx \in {0, 1} /\ next_ctx # curctx
  BY DEF TypeOK, next_ctx
<1> QED
  BY <1>1, <1>2, PlanIs, FieldAssumption

\* The steps of an execution, and those of its attempts cut short.
Within == \/ TestRestart \/ PopDirty \/ Decrement \/ StampTask
          \/ ChanOut \/ ClearNextDirty \/ SetDirty \/ CountDirty \/ EnterDirty \/ StampVar \/ StoreValue
          \/ SetTask \/ SetTime \/ PowerFail \/ (\E v \in Value : TornValue(v)) \/ UNCHANGED vars

\* They leave the execution what it is.
LEMMA Same ==
    ASSUME TypeOK, Within
    PROVE  /\ task' = task /\ time' = time /\ UNCHANGED <<curctx, plan, now, committed>>
           /\ next_ctx' = next_ctx
           /\ ~StampTask => last_execute_time' = last_execute_time
<1> USE DEF nv, history
<1>1. UNCHANGED <<ctx, curctx>> => task' = task /\ time' = time /\ next_ctx' = next_ctx
  BY DEF task, time, next_ctx
<1>2. SetTask \/ SetTime => task' = task /\ time' = time /\ next_ctx' = next_ctx
  BY Parts DEF SetTask, SetTime, task, time, next_ctx, TypeOK, Context
<1> QED
  BY <1>1, <1>2 DEF Within, vars, TestRestart, PopDirty, Decrement, StampTask, ChanOut, ClearNextDirty, SetDirty,
     CountDirty, EnterDirty, StampVar, StoreValue, SetTask, SetTime, PowerFail, TornValue, Reboot

\* What chan_out() changes in the buffers of a field.
LEMMA VarChange ==
    ASSUME TypeOK, NEW f \in Field, NEW b \in {0, 1}, NEW n, NEW x,
           \/ n \in 0..MaxTime /\ var' = [var EXCEPT ![f][b].timestamp = n]
           \/ x \in Value /\ var' = [var EXCEPT ![f][b].value = x]
    PROVE  /\ var' \in [Field -> [{0, 1} -> Version]]
           /\ \A g \in Field, c \in {0, 1} : f # g \/ b # c => var'[g][c] = var[g][c]
<1>1. var \in [Field -> [{0, 1} -> Version]] /\ var[f][b] \in Version
  BY DEF TypeOK
<1>2. CASE n \in 0..MaxTime /\ var' = [var EXCEPT ![f][b].timestamp = n]
  <2>1. [var[f][b] EXCEPT !.timestamp = n] \in Version
    BY <1>1, <1>2 DEF Version
  <2>2. var' = [var EXCEPT ![f] = [var[f] EXCEPT ![b] = [var[f][b] EXCEPT !.timestamp = n]]]
    BY <1>1, <1>2
  <2> QED
    BY <1>1, <2>1, <2>2
<1>3. CASE x \in Value /\ var' = [var EXCEPT ![f][b].value = x]
  <2>1. [var[f][b] EXCEPT !.value = x] \in Version
    BY <1>1, <1>3 DEF Version
  <2>2. var' = [var EXCEPT ![f] = [var[f] EXCEPT ![b] = [var[f][b] EXCEPT !.value = x]]]
    BY <1>1, <1>3
  <2> QED
    BY <1>1, <2>1, <2>2
<1> QED
  BY <1>2, <1>3

\* The output underway, and the buffer it goes to.
LEMMA OutIs ==
    ASSUME TypeOK, PosInv, pc \in {"clearNext", "setDirty", "count", "entry", "stamp", "value"}
    PROVE  /\ out.field \in Field /\ Writer[out.field] = task /\ out.value \in Value
           /\ pos \in 1..Len(plan.outs) /\ out = plan.outs[pos]
           /\ OutBuffer(out.field) \in {0, 1}
           /\ pc \in {"clearNext", "setDirty", "count", "entry"} => out.field \in SelfField
<1>1. pos \in 1..Len(plan.outs) /\ out = plan.outs[pos]
  BY Parts, Bounds DEF TypeOK, PosInv, out
<1>2. out.field \in Field /\ Writer[out.field] = task /\ out.value \in Value
  BY <1>1, Parts
<1>3. OutBuffer(out.field) \in {0, 1}
  BY DEF TypeOK, IdxPair, OutBuffer
<1>4. pc \in {"clearNext", "setDirty", "count", "entry"} => out.field \in SelfField
  BY DEF PosInv
<1> QED
  BY <1>1, <1>2, <1>3, <1>4

\* The list has room for another field.
LEMMA Room ==
    ASSUME ListHolds, TypeOK, TimeInv, PosInv, CountInv, pc = "count"
    PROVE  /\ num_dirty_self_fields[task] + 1 <= aborts * MaxOuts + (pos - 1) + 1
           /\ num_dirty_self_fields[task] + 1 <= (MaxAborts + 1) * MaxOuts
           /\ num_dirty_self_fields[task] + 1 <= MaxDirty
<1>1. num_dirty_self_fields[task] \in Nat /\ aborts \in 0..MaxAborts /\ pos \in 1..MaxOuts
  BY OutIs, Parts, Bounds DEF TypeOK
<1>2. num_dirty_self_fields[task] <= aborts * MaxOuts + (pos - 1)
  BY <1>1, Bounds DEF CountInv, TimeInv, InBody
<1>3. aborts * MaxOuts <= MaxAborts * MaxOuts /\ aborts * MaxOuts \in Nat
  BY <1>1, Bounds
<1>4. (MaxAborts + 1) * MaxOuts = MaxAborts * MaxOuts + MaxOuts /\ MaxAborts * MaxOuts \in Nat
  BY Bounds
<1>5. num_dirty_self_fields[task] + 1 <= (MaxAborts + 1) * MaxOuts
  BY <1>1, <1>2, <1>3, <1>4, Bounds
<1> QED
  BY <1>1, <1>2, <1>3, <1>4, <1>5, Bounds DEF ListHolds

\* A set of numbers with a bound has a largest one.
LEMMA Largest ==
    ASSUME NEW n \in Nat, NEW S, S \subseteq 0..n, S # {}
    PROVE  \E j \in S : \A k \in S : k <= j
<1> DEFINE T == {n - k : k \in S}
<1>1. T \subseteq Nat /\ T # {}
  <2>1. \A k \in S : k \in 0..n /\ n - k \in Nat
    OBVIOUS
  <2> QED
    BY <2>1
<1>2. PICK m \in T : \A k \in T : ~(<<k, m>> \in OpToRel(<, Nat))
  BY <1>1, NatLessThanWellFounded, WFMin
<1>3. \A k \in T : ~(k < m)
  BY <1>1, <1>2 DEF OpToRel
<1>4. n - m \in S /\ \A k \in S : k <= n - m
  BY <1>1, <1>3
<1> QED
  BY <1>4

\* The last output of a plan to a field, if there is one.
LEMMA LastIs ==
    ASSUME TypeOK, NEW f \in Field,
           {j \in DOMAIN plan.outs : plan.outs[j].field = f} # {}
    PROVE  LET I == {j \in DOMAIN plan.outs : plan.outs[j].field = f}
           IN  \E j \in I : /\ \A k \in I : k <= j
                            /\ j = CHOOSE m \in I : \A k \in I : k <= m
<1> DEFINE I == {j \in DOMAIN plan.outs : plan.outs[j].field = f}
<1>1. I \subseteq 0..MaxOuts
  BY Parts, Bounds
<1>2. \E j \in I : \A k \in I : k <= j
  BY <1>1, Largest, Bounds
<1> HIDE DEF I
<1>3. \E j \in I : (\A k \in I : k <= j) /\ j = CHOOSE m \in I : \A k \in I : k <= m
  BY <1>2
<1> QED
  BY <1>3 DEF I

\* What a switch of the context commits to a field.
LEMMA LastOutIs ==
    ASSUME TypeOK, NEW f \in Field
    PROVE  \/ LastOut(f) = committed[f] /\ \A i \in DOMAIN plan.outs : plan.outs[i].field # f
           \/ /\ Writer[f] = task
              /\ \E i \in DOMAIN plan.outs : /\ plan.outs[i].field = f
                                             /\ \A j \in DOMAIN plan.outs : plan.outs[j].field = f => j <= i
                                             /\ LastOut(f) = [time |-> now, value |-> plan.outs[i].value]
<1> DEFINE I == {j \in DOMAIN plan.outs : plan.outs[j].field = f}
<1>1. CASE I = {}
  BY <1>1 DEF LastOut
<1>2. CASE I # {}
  <2>1. PICK j \in I : /\ \A k \in I : k <= j
                       /\ LastOut(f) = [time |-> now, value |-> plan.outs[j].value]
    BY <1>2, LastIs DEF LastOut
  <2>2. Writer[f] = task
    BY <2>1, Parts
  <2> QED
    BY <2>1, <2>2
<1> QED
  BY <1>1, <1>2

\* Every step leaves every variable in its range.
LEMMA TypeStep ==
    ASSUME NoWrap, ListHolds, IInv, [Next]_vars
    PROVE  TypeOK'
<1> USE DEF IInv, nv, history
<1>0. Within => task' = task
  BY Same
<1>1. CASE TestRestart
  BY <1>1, <1>0, Parts, Bounds DEF TestRestart, Within, TypeOK, PC
<1>2. CASE PopDirty
  <2>1. ASSUME NEW f \in SelfField PROVE Swapped(idx_pair[f]) \in IdxPair
    BY DEF TypeOK, IdxPair, Swapped
  <2>2. dirty_self_fields[task][num_dirty_self_fields[task] - 1] \in SelfField \cup {NoField}
    BY <1>2, Parts, Bounds DEF PopDirty, TypeOK
  <2>3. idx_pair' \in [SelfField -> IdxPair]
    BY <1>2, <2>1, <2>2 DEF PopDirty, TypeOK
  <2> QED
    BY <1>2, <1>0, <2>3 DEF Within, PopDirty, TypeOK, PC
<1>3. CASE Decrement
  <2>1. num_dirty_self_fields' \in [Task -> 0..MaxDirty]
    BY <1>3, Parts, Bounds DEF Decrement, CountInv, TypeOK
  <2> QED
    BY <1>3, <1>0, <2>1 DEF Within, Decrement, TypeOK, PC
<1>4. CASE StampTask
  <2>1. last_execute_time' \in [Task -> 0..MaxTime]
    BY <1>4, Parts DEF StampTask, TypeOK
  <2> QED
    BY <1>4, <1>0, <2>1 DEF Within, StampTask, TypeOK, PC
<1>5. CASE ChanOut
  BY <1>5, <1>0, Parts, Bounds DEF ChanOut, Within, TypeOK, PC
<1>6. CASE ClearNextDirty
  <2>1. idx_pair' \in [SelfField -> IdxPair]
    BY <1>6, OutIs DEF ClearNextDirty, TypeOK, IdxPair
  <2> QED
    BY <1>6, <1>0, <2>1 DEF Within, ClearNextDirty, TypeOK, PC
<1>7. CASE SetDirty
  <2>1. idx_pair' \in [SelfField -> IdxPair]
    BY <1>7, OutIs DEF SetDirty, TypeOK, IdxPair
  <2> QED
    BY <1>7, <1>0, <2>1 DEF Within, SetDirty, TypeOK, PC
<1>8. CASE CountDirty
  <2>1. num_dirty_self_fields' \in [Task -> 0..MaxDirty]
    BY <1>8, Room, Parts, Bounds DEF CountDirty, TypeOK
  <2> QED
    BY <1>8, <1>0, <2>1 DEF Within, CountDirty, TypeOK, PC
<1>9. CASE EnterDirty
  <2>1. dirty_self_fields' \in [Task -> [0..MaxDirty-1 -> SelfField \cup {NoField}]]
    BY <1>9, OutIs, Parts DEF EnterDirty, TypeOK
  <2> QED
    BY <1>9, <1>0, <2>1 DEF Within, EnterDirty, TypeOK, PC
<1>10. CASE StampVar
  <2>1. var' \in [Field -> [{0, 1} -> Version]]
    BY <1>10, OutIs, VarChange, Parts DEF StampVar
  <2> QED
    BY <1>10, <1>0, <2>1 DEF Within, StampVar, TypeOK, PC
<1>11. CASE StoreValue
  <2>1. var' \in [Field -> [{0, 1} -> Version]]
    BY <1>11, OutIs, VarChange DEF StoreValue
  <2>2. pos' \in 1..MaxOuts+1
    BY <1>11, OutIs, Parts, Bounds DEF StoreValue
  <2> QED
    BY <1>11, <1>0, <2>1, <2>2 DEF Within, StoreValue, TypeOK, PC
<1>12. CASE SetTask
  <2>1. ctx' \in [{0, 1} -> Context]
    BY <1>12, Parts DEF SetTask, TypeOK, Context
  <2> QED
    BY <1>12, <1>0, <2>1 DEF Within, SetTask, TypeOK, PC
<1>13. CASE SetTime
  <2>1. (time + 1) % (MaxTime + 1) \in 0..MaxTime
    BY Parts, Bounds
  <2>2. ctx' \in [{0, 1} -> Context]
    BY <1>13, <2>1, Parts DEF SetTime, TypeOK, Context
  <2> QED
    BY <1>13, <1>0, <2>2 DEF Within, SetTime, TypeOK, PC
<1>14. CASE SwitchContext
  <2>1. task' = plan.next
    BY <1>14 DEF SwitchContext, TimeInv, task
  <2>2. ASSUME NEW f \in Field PROVE LastOut(f) \in [time : 0..MaxTransitions, value : Value \cup {NoValue}]
    <3>1. committed[f] \in [time : 0..MaxTransitions, value : Value \cup {NoValue}] /\ now \in 0..MaxTransitions
      BY DEF TypeOK
    <3> QED
      BY <3>1, LastOutIs, Parts
  <2>3. committed' \in [Field -> [time : 0..MaxTransitions, value : Value \cup {NoValue}]]
    BY <1>14, <2>2 DEF SwitchContext
  <2>4. curctx' \in {0, 1} /\ now' \in 0..MaxTransitions /\ pos' \in 1..MaxOuts+1 /\ aborts' \in 0..MaxAborts
    BY <1>14, Parts, Bounds DEF SwitchContext, TimeInv, TypeOK
  <2>5. pc' \in PC /\ plan' \in PlansOf(task')
    BY <1>14, <2>1 DEF SwitchContext, PC
  <2> QED
    BY <1>14, <2>3, <2>4, <2>5 DEF SwitchContext, TypeOK
<1>15. CASE PowerFail
  <2>1. aborts' \in 0..MaxAborts /\ pos' \in 1..MaxOuts+1
    BY <1>15, Bounds DEF PowerFail, Reboot, TypeOK
  <2> QED
    BY <1>15, <1>0, <2>1 DEF Within, PowerFail, Reboot, TypeOK, PC
<1>16. ASSUME NEW v \in Value, TornValue(v) PROVE TypeOK'
  <2>1. aborts' \in 0..MaxAborts /\ pos' \in 1..MaxOuts+1
    BY <1>16, Bounds DEF TornValue, Reboot, TypeOK
  <2>2. var' \in [Field -> [{0, 1} -> Version]]
    BY <1>16, OutIs, VarChange DEF TornValue
  <2> QED
    BY <1>16, <1>0, <2>1, <2>2 DEF Within, TornValue, Reboot, TypeOK, PC
<1>17. CASE UNCHANGED vars
  BY <1>17, <1>0, Parts, Bounds DEF vars, Within, TypeOK, PC
<1> QED
  BY <1>1, <1>2, <1>3, <1>4, <1>5, <1>6, <1>7, <1>8, <1>9, <1>10, <1>11, <1>12, <1>13, <1>14, <1>15, <1>16, <1>17 DEF Next

\* The logical time.
LEMMA TimeStep ==
    ASSUME NoWrap, ListHolds, IInv, [Next]_vars
    PROVE  TimeInv'
<1> USE DEF IInv, nv, history
<1>1. CASE TestRestart
  BY <1>1, Same, Parts, Bounds DEF TestRestart, Within, TypeOK, TimeInv, InBody, Started
<1>2. CASE PopDirty
  BY <1>2, Same, Parts, Bounds DEF PopDirty, Within, TypeOK, TimeInv, InBody, Started
<1>3. CASE Decrement
  BY <1>3, Same, Parts, Bounds DEF Decrement, Within, TypeOK, TimeInv, InBody, Started
<1>4. CASE StampTask
  BY <1>4, Same, Parts, Bounds DEF StampTask, Within, TypeOK, TimeInv, InBody, Started
<1>5. CASE ChanOut
  BY <1>5, Same, Parts, Bounds DEF ChanOut, Within, TypeOK, TimeInv, InBody, Started
<1>6. CASE ClearNextDirty
  BY <1>6, Same, Parts, Bounds DEF ClearNextDirty, Within, TypeOK, TimeInv, InBody, Started
<1>7. CASE SetDirty
  BY <1>7, Same, Parts, Bounds DEF SetDirty, Within, TypeOK, TimeInv, InBody, Started
<1>8. CASE CountDirty
  BY <1>8, Same, Parts, Bounds DEF CountDirty, Within, TypeOK, TimeInv, InBody, Started
<1>9. CASE EnterDirty
  BY <1>9, Same, Parts, Bounds DEF EnterDirty, Within, TypeOK, TimeInv, InBody, Started
<1>10. CASE StampVar
  BY <1>10, Same, Parts, Bounds DEF StampVar, Within, TypeOK, TimeInv, InBody, Started
<1>11. CASE StoreValue
  BY <1>11, Same, Parts, Bounds DEF StoreValue, Within, TypeOK, TimeInv, InBody, Started
<1>12. CASE SetTask
  BY <1>12, Same, Parts, Bounds DEF SetTask, Within, TypeOK, TimeInv, InBody, Started
<1>13. CASE SetTime
  <2>1. now < MaxTransitions /\ now \in Nat /\ time = now /\ task' = task /\ time' = time /\ now' = now
    BY <1>13, Same, Bounds DEF SetTime, Within, TimeInv, TypeOK
  <2>2. (time + 1) % (MaxTime + 1) = now + 1
    BY <2>1, Bounds DEF NoWrap
  <2>3. ctx'[next_ctx].time = now + 1 /\ ctx'[next_ctx].task = ctx[next_ctx].task
    BY <1>13, <2>2, Parts DEF SetTime, TypeOK, Context
  <2>4. Started' = Started /\ UNCHANGED <<committed, plan, last_execute_time>> /\ next_ctx' = next_ctx
    BY <1>13, Same DEF SetTime, Within, Started
  <2> QED
    BY <1>13, <2>1, <2>3, <2>4 DEF SetTime, TimeInv, InBody
<1>14. CASE SwitchContext
  <2>1. /\ task' = plan.next /\ time' = now + 1 /\ now' = now + 1 /\ pc' = "prologue" /\ now \in Nat
        /\ last_execute_time' = last_execute_time
    BY <1>14, Bounds DEF SwitchContext, TimeInv, task, time, TypeOK
  <2>2. \A t \in Task : last_execute_time'[t] <= now'
    BY <2>1, Bounds DEF TimeInv, TypeOK
  <2>3. ASSUME NEW f \in Field
        PROVE  /\ committed'[f].time \in 0..now
               /\ committed'[f].time = now /\ now > 0 => Writer[f] = task
               /\ committed'[f].time # now => committed'[f] = committed[f]
    <3>1. committed'[f] = LastOut(f)
      BY <1>14 DEF SwitchContext
    <3>2. committed[f].time \in Nat /\ (committed[f].time > 0 => committed[f].time < now)
      BY Bounds DEF TimeInv, TypeOK
    <3>3. committed'[f] = committed[f] \/ (committed'[f].time = now /\ Writer[f] = task)
      BY <3>1, LastOutIs
    <3> QED
      BY <2>1, <3>2, <3>3
  <2>4. ASSUME NEW f \in Field, committed'[f].time > 0 PROVE committed'[f].time < now'
    BY <2>1, <2>3, <2>4
  <2>5. ASSUME NEW f \in Field, NEW g \in Field, committed'[f].time > 0, committed'[f].time = committed'[g].time
        PROVE  Writer[f] = Writer[g]
    <3>1. CASE committed'[f].time = now
      BY <2>1, <2>3, <2>5, <3>1
    <3>2. CASE committed'[f].time # now
      <4>1. committed'[f] = committed[f] /\ committed'[g] = committed[g]
        BY <2>3, <2>5, <3>2
      <4> QED
        BY <2>5, <4>1 DEF TimeInv
    <3> QED
      BY <3>1, <3>2
  <2> QED
    BY <2>1, <2>2, <2>4, <2>5 DEF TimeInv, InBody
<1>15. CASE PowerFail
  BY <1>15, Same, Parts, Bounds DEF PowerFail, Reboot, Within, TypeOK, TimeInv, InBody, Started
<1>16. ASSUME NEW v \in Value, TornValue(v) PROVE TimeInv'
  BY <1>16, Same, Parts, Bounds DEF TornValue, Reboot, Within, TypeOK, TimeInv, InBody, Started
<1>17. CASE UNCHANGED vars
  BY <1>17, Same, Parts, Bounds DEF vars, Within, TypeOK, TimeInv, InBody, Started
<1> QED
  BY <1>1, <1>2, <1>3, <1>4, <1>5, <1>6, <1>7, <1>8, <1>9, <1>10, <1>11, <1>12, <1>13, <1>14, <1>15, <1>16, <1>17 DEF Next

\* The plan.
LEMMA PosStep ==
    ASSUME NoWrap, ListHolds, IInv, [Next]_vars
    PROVE  PosInv'
<1> USE DEF IInv, nv, history
<1>0. Within => plan' = plan
  BY Same
<1>1. CASE TestRestart
  BY <1>1, <1>0, Parts, Bounds DEF TestRestart, Within, PosInv, TypeOK, InBody, out
<1>2. CASE PopDirty
  BY <1>2, <1>0, Parts, Bounds DEF PopDirty, Within, PosInv, TypeOK, InBody, out
<1>3. CASE Decrement
  BY <1>3, <1>0, Parts, Bounds DEF Decrement, Within, PosInv, TypeOK, InBody, out
<1>4. CASE StampTask
  BY <1>4, <1>0, Parts, Bounds DEF StampTask, Within, PosInv, TypeOK, InBody, out
<1>5. CASE ChanOut
  BY <1>5, <1>0, Parts, Bounds DEF ChanOut, Within, PosInv, TypeOK, InBody, out
<1>6. CASE ClearNextDirty
  BY <1>6, <1>0, Parts, Bounds DEF ClearNextDirty, Within, PosInv, TypeOK, InBody, out
<1>7. CASE SetDirty
  BY <1>7, <1>0, Parts, Bounds DEF SetDirty, Within, PosInv, TypeOK, InBody, out
<1>8. CASE CountDirty
  BY <1>8, <1>0, Parts, Bounds DEF CountDirty, Within, PosInv, TypeOK, InBody, out
<1>9. CASE EnterDirty
  BY <1>9, <1>0, Parts, Bounds DEF EnterDirty, Within, PosInv, TypeOK, InBody, out
<1>10. CASE StampVar
  BY <1>10, <1>0, Parts, Bounds DEF StampVar, Within, PosInv, TypeOK, InBody, out
<1>11. CASE StoreValue
  BY <1>11, <1>0, Parts, Bounds DEF StoreValue, Within, PosInv, TypeOK, InBody, out
<1>12. CASE SetTask
  BY <1>12, <1>0, Parts, Bounds DEF SetTask, Within, PosInv, TypeOK, InBody, out
<1>13. CASE SetTime
  BY <1>13, <1>0, Parts, Bounds DEF SetTime, Within, PosInv, TypeOK, InBody, out
<1>14. CASE SwitchContext
  BY <1>14, <1>0, Parts, Bounds DEF SwitchContext, Within, PosInv, TypeOK, InBody, out
<1>15. CASE PowerFail
  BY <1>15, <1>0, Parts, Bounds DEF PowerFail, Reboot, Within, PosInv, TypeOK, InBody, out
<1>16. ASSUME NEW v \in Value, TornValue(v) PROVE PosInv'
  BY <1>16, <1>0, Parts, Bounds DEF TornValue, Reboot, Within, PosInv, TypeOK, InBody, out
<1>17. CASE UNCHANGED vars
  BY <1>17, <1>0, Parts, Bounds DEF vars, Within, PosInv, TypeOK, InBody, out
<1> QED
  BY <1>1, <1>2, <1>3, <1>4, <1>5, <1>6, <1>7, <1>8, <1>9, <1>10, <1>11, <1>12, <1>13, <1>14, <1>15, <1>16, <1>17 DEF Next

\* The buffers of self fields.
LEMMA BufferStep ==
    ASSUME NoWrap, ListHolds, IInv, [Next]_vars
    PROVE  BufferInv'
<1> USE DEF IInv, nv, history
<1>1. CASE TestRestart
  BY <1>1 DEF TestRestart, BufferInv
<1>2. CASE PopDirty
  <2> SUFFICES ASSUME NEW f \in SelfField
               PROVE  /\ idx_pair'[f].cur # idx_pair'[f].next
                      /\ idx_pair'[f].dirtyCur => ~idx_pair'[f].dirtyNext
    BY DEF BufferInv
  <2>1. idx_pair'[f] = idx_pair[f] \/ (idx_pair'[f] = Swapped(idx_pair[f]) /\ idx_pair[f].dirtyCur)
    BY <1>2 DEF PopDirty, TypeOK
  <2> QED
    BY <2>1 DEF BufferInv, Swapped
<1>3. CASE Decrement
  BY <1>3 DEF Decrement, BufferInv
<1>4. CASE StampTask
  BY <1>4 DEF StampTask, BufferInv
<1>5. CASE ChanOut
  BY <1>5 DEF ChanOut, BufferInv
<1>6. CASE ClearNextDirty
  BY <1>6 DEF ClearNextDirty, BufferInv
<1>7. CASE SetDirty
  <2> SUFFICES ASSUME NEW f \in SelfField
               PROVE  /\ idx_pair'[f].cur # idx_pair'[f].next
                      /\ idx_pair'[f].dirtyCur => ~idx_pair'[f].dirtyNext
    BY DEF BufferInv
  <2>1. /\ idx_pair'[f].cur = idx_pair[f].cur /\ idx_pair'[f].next = idx_pair[f].next
        /\ idx_pair'[f].dirtyNext = idx_pair[f].dirtyNext
        /\ f # out.field => idx_pair'[f] = idx_pair[f]
    BY <1>7 DEF SetDirty, TypeOK, IdxPair
  <2> QED
    BY <1>7, <2>1 DEF BufferInv, OutputInv, SetDirty
<1>8. CASE CountDirty
  BY <1>8 DEF CountDirty, BufferInv
<1>9. CASE EnterDirty
  BY <1>9 DEF EnterDirty, BufferInv
<1>10. CASE StampVar
  BY <1>10 DEF StampVar, BufferInv
<1>11. CASE StoreValue
  BY <1>11 DEF StoreValue, BufferInv
<1>12. CASE SetTask
  BY <1>12 DEF SetTask, BufferInv
<1>13. CASE SetTime
  BY <1>13 DEF SetTime, BufferInv
<1>14. CASE SwitchContext
  BY <1>14 DEF SwitchContext, BufferInv
<1>15. CASE PowerFail
  BY <1>15 DEF PowerFail, Reboot, BufferInv
<1>16. ASSUME NEW v \in Value, TornValue(v) PROVE BufferInv'
  BY <1>16 DEF TornValue, Reboot, BufferInv
<1>17. CASE UNCHANGED vars
  BY <1>17 DEF vars, BufferInv
<1> QED
  BY <1>1, <1>2, <1>3, <1>4, <1>5, <1>6, <1>7, <1>8, <1>9, <1>10, <1>11, <1>12, <1>13, <1>14, <1>15, <1>16, <1>17 DEF Next


\* One attempt enters no more fields than its plan outputs.
LEMMA AttemptBound ==
    ASSUME TypeOK, TimeInv, PosInv, CountInv, InBody
    PROVE  num_dirty_self_fields[task] <= (aborts + 1) * MaxOuts
<1>1. num_dirty_self_fields[task] \in Nat /\ aborts \in Nat /\ pos \in 1..MaxOuts+1
  BY Parts, Bounds DEF TypeOK
<1>2. pc \in {"entry", "stamp", "value"} => pos - 1 + 1 <= MaxOuts
  BY <1>1, OutIs, Parts, Bounds
<1>3. num_dirty_self_fields[task] <= aborts * MaxOuts + MaxOuts
  <2>1. num_dirty_self_fields[task] <= aborts * MaxOuts + (pos - 1)
                                       + (IF pc \in {"entry", "stamp", "value"} THEN 1 ELSE 0)
    BY DEF TimeInv, CountInv
  <2>2. aborts * MaxOuts \in Nat
    BY <1>1, Bounds
  <2> QED
    BY <1>1, <1>2, <2>1, <2>2, Bounds
<1>4. (aborts + 1) * MaxOuts = aborts * MaxOuts + MaxOuts
  BY <1>1, Bounds
<1> QED
  BY <1>3, <1>4

\* The length of the dirty lists.
LEMMA CountStep ==
    ASSUME NoWrap, ListHolds, IInv, [Next]_vars
    PROVE  CountInv'
<1> USE DEF IInv, nv, history
<1>0. Within => task' = task /\ (~StampTask => Started' = Started)
  BY Same DEF Started
<1>1. CASE TestRestart
  BY <1>1, <1>0 DEF TestRestart, Within, CountInv, TimeInv, InBody, StampTask
<1>2. CASE PopDirty
  BY <1>2, <1>0 DEF PopDirty, Within, CountInv, TimeInv, InBody, StampTask
<1>3. CASE Decrement
  <2>1. task' = task /\ ~Started' /\ pc' = "pop"
    BY <1>3, <1>0 DEF Within, Decrement, StampTask, TimeInv
  <2>2. \A t \in Task : num_dirty_self_fields'[t] <= num_dirty_self_fields[t]
    BY <1>3, Parts, Bounds DEF Decrement, TypeOK
  <2>3. (MaxAborts + 1) * MaxOuts \in Nat
    BY Bounds
  <2>4. \A t \in Task : num_dirty_self_fields'[t] \in Int /\ num_dirty_self_fields[t] \in Nat
    BY <1>3, Parts, Bounds DEF Decrement, TypeOK
  <2> QED
    BY <2>1, <2>2, <2>3, <2>4 DEF CountInv
<1>4. CASE StampTask
  <2>1. task' = task /\ num_dirty_self_fields' = num_dirty_self_fields /\ num_dirty_self_fields[task] = 0
        /\ pc' = "run" /\ pos' = pos /\ aborts' = aborts
    BY <1>4, <1>0 DEF Within, StampTask
  <2>2. 0 <= aborts * MaxOuts + (pos - 1) + 0
    <3>1. aborts \in Nat /\ pos \in Nat /\ pos >= 1
      BY Bounds DEF TypeOK
    <3>2. aborts * MaxOuts \in Nat
      BY <3>1, Bounds
    <3> QED
      BY <3>1, <3>2
  <2> QED
    BY <2>1, <2>2 DEF CountInv
<1>5. CASE ChanOut
  <2>1. task' = task /\ Started' = Started /\ num_dirty_self_fields' = num_dirty_self_fields
        /\ pc = "run" /\ pc' \in {"clearNext", "stamp"} /\ pos' = pos /\ aborts' = aborts
    BY <1>5, <1>0 DEF Within, ChanOut, StampTask
  <2>2. num_dirty_self_fields[task] \in Nat /\ pos \in Nat /\ aborts * MaxOuts \in Nat
    <3>1. num_dirty_self_fields[task] \in Nat /\ pos \in Nat /\ aborts \in Nat
      BY Parts, Bounds DEF TypeOK
    <3> QED
      BY <3>1, Bounds
  <2> QED
    BY <2>1, <2>2 DEF CountInv
<1>6. CASE ClearNextDirty
  BY <1>6, <1>0 DEF ClearNextDirty, Within, CountInv, TimeInv, InBody, StampTask
<1>7. CASE SetDirty
  BY <1>7, <1>0 DEF SetDirty, Within, CountInv, TimeInv, InBody, StampTask
<1>8. CASE CountDirty
  <2>1. task' = task /\ pc = "count" /\ pc' = "entry" /\ pos' = pos /\ aborts' = aborts
        /\ num_dirty_self_fields' = [num_dirty_self_fields EXCEPT ![task] = num_dirty_self_fields[task] + 1]
    BY <1>8, <1>0 DEF Within, CountDirty
  <2>2. \A t \in Task : num_dirty_self_fields'[t] = IF t = task THEN num_dirty_self_fields[task] + 1
                                                    ELSE num_dirty_self_fields[t]
    BY <2>1, Parts DEF TypeOK
  <2>3. \A t \in Task : num_dirty_self_fields'[t] <= (MaxAborts + 1) * MaxOuts
    BY <2>1, <2>2, Room DEF CountInv
  <2>4. num_dirty_self_fields'[task] <= aborts * MaxOuts + (pos - 1) + 1 /\ num_dirty_self_fields'[task] > 0
    BY <2>1, <2>2, Room, Parts, Bounds DEF TypeOK
  <2> QED
    BY <2>1, <2>3, <2>4 DEF CountInv
<1>9. CASE EnterDirty
  BY <1>9, <1>0 DEF EnterDirty, Within, CountInv, TimeInv, InBody, StampTask
<1>10. CASE StampVar
  BY <1>10, <1>0 DEF StampVar, Within, CountInv, TimeInv, InBody, StampTask
<1>11. CASE StoreValue
  <2>1. task' = task /\ Started' = Started /\ Started /\ num_dirty_self_fields' = num_dirty_self_fields
        /\ pc = "value" /\ pc' = "run" /\ pos' = pos + 1 /\ aborts' = aborts
    BY <1>11, <1>0 DEF Within, StoreValue, StampTask, TimeInv, InBody
  <2>2. num_dirty_self_fields[task] <= aborts * MaxOuts + (pos - 1) + 1
    BY <2>1 DEF CountInv
  <2>3. num_dirty_self_fields[task] <= aborts * MaxOuts + (pos + 1 - 1) + 0
    <3>1. pos \in Nat /\ aborts \in Nat
      BY Bounds DEF TypeOK
    <3>2. aborts * MaxOuts \in Nat
      BY <3>1, Bounds
    <3> QED
      BY <2>2, <3>1, <3>2
  <2>4. \A t \in Task : num_dirty_self_fields'[t] <= (MaxAborts + 1) * MaxOuts
    BY <2>1 DEF CountInv
  <2>5. num_dirty_self_fields'[task'] <= aborts' * MaxOuts + (pos' - 1) + 0
    <3>1. aborts' * MaxOuts + (pos' - 1) + 0 = aborts * MaxOuts + (pos + 1 - 1) + 0
      <4>1. aborts' = aborts /\ pos' = pos + 1 /\ pos \in Nat /\ aborts \in Nat
        BY <2>1, Bounds DEF TypeOK
      <4>2. aborts' \in Nat /\ pos' \in Nat
        BY <4>1
      <4>3. aborts' * MaxOuts = aborts * MaxOuts /\ aborts * MaxOuts \in Nat
        BY <4>1, <4>2, Bounds
      <4> QED
        BY <4>1, <4>2, <4>3
    <3>2. num_dirty_self_fields'[task'] = num_dirty_self_fields[task]
      BY <2>1, Zenon
    <3> QED
      BY <2>3, <3>1, <3>2, Zenon
  <2>6. pc' \notin {"decrement", "entry", "stamp", "value"}
    BY <2>1
  <2> QED
    BY <2>4, <2>5, <2>6 DEF CountInv
<1>12. CASE SetTask
  BY <1>12, <1>0 DEF SetTask, Within, CountInv, TimeInv, InBody, StampTask
<1>13. CASE SetTime
  BY <1>13, <1>0 DEF SetTime, Within, CountInv, TimeInv, InBody, StampTask
<1>14. CASE SwitchContext
  <2>1. task' \in Task /\ ~Started' /\ num_dirty_self_fields' = num_dirty_self_fields /\ pc' = "prologue"
    <3>1. /\ task' = plan.next /\ now' = now + 1 /\ last_execute_time' = last_execute_time /\ now \in Nat
      BY <1>14, Bounds DEF SwitchContext, TimeInv, task, TypeOK
    <3>2. last_execute_time[plan.next] <= now /\ last_execute_time[plan.next] \in Nat
      BY Parts, Bounds DEF TimeInv, TypeOK
    <3> QED
      BY <1>14, <3>1, <3>2, Parts DEF SwitchContext, Started
  <2> QED
    BY <2>1 DEF CountInv
<1>15. CASE PowerFail
  <2>1. task' = task /\ Started' = Started /\ num_dirty_self_fields' = num_dirty_self_fields
        /\ pc' = "prologue" /\ pos' = 1
    BY <1>15, <1>0 DEF Within, PowerFail, Reboot, StampTask
  <2>2. ASSUME Started PROVE num_dirty_self_fields[task] <= aborts' * MaxOuts
    <3>1. aborts' = (IF InBody THEN aborts + 1 ELSE aborts)
      BY <1>15 DEF PowerFail, InBody
    <3>2. CASE InBody
      BY <3>1, <3>2, AttemptBound
    <3>3. CASE ~InBody
      BY <2>2, <3>1, <3>3, Parts, Bounds DEF CountInv, PosInv, TypeOK, InBody
    <3> QED
      BY <3>2, <3>3
  <2>3. num_dirty_self_fields[task] <= aborts' * MaxOuts => num_dirty_self_fields[task] <= aborts' * MaxOuts + (1 - 1) + 0
    <3>1. aborts' \in Nat /\ num_dirty_self_fields[task] \in Nat
      BY <1>15, Parts, Bounds DEF PowerFail, TypeOK
    <3>2. ASSUME NEW n \in Nat PROVE n * MaxOuts = n * MaxOuts + (1 - 1) + 0
      BY Bounds
    <3> QED
      BY <3>1, <3>2
  <2>4. \A t \in Task : num_dirty_self_fields'[t] <= (MaxAborts + 1) * MaxOuts
    BY <2>1 DEF CountInv
  <2>5. Started' => num_dirty_self_fields'[task'] <= aborts' * MaxOuts + (pos' - 1) + 0
    BY <2>1, <2>2, <2>3
  <2>6. pc' \notin {"decrement", "entry", "stamp", "value"}
    BY <2>1
  <2> QED
    BY <2>4, <2>5, <2>6 DEF CountInv
<1>16. ASSUME NEW v \in Value, TornValue(v) PROVE CountInv'
  <2>1. task' = task /\ Started' = Started /\ num_dirty_self_fields' = num_dirty_self_fields
        /\ pc' = "prologue" /\ pos' = 1
    BY <1>16, <1>0 DEF Within, TornValue, Reboot, StampTask
  <2>2. ASSUME Started PROVE num_dirty_self_fields[task] <= aborts' * MaxOuts
    <3>1. aborts' = (IF InBody THEN aborts + 1 ELSE aborts)
      BY <1>16 DEF TornValue, InBody
    <3>2. CASE InBody
      BY <3>1, <3>2, AttemptBound
    <3>3. CASE ~InBody
      BY <2>2, <3>1, <3>3, Parts, Bounds DEF CountInv, PosInv, TypeOK, InBody
    <3> QED
      BY <3>2, <3>3
  <2>3. num_dirty_self_fields[task] <= aborts' * MaxOuts => num_dirty_self_fields[task] <= aborts' * MaxOuts + (1 - 1) + 0
    <3>1. aborts' \in Nat /\ num_dirty_self_fields[task] \in Nat
      BY <1>16, Parts, Bounds DEF TornValue, TypeOK
    <3>2. ASSUME NEW n \in Nat PROVE n * MaxOuts = n * MaxOuts + (1 - 1) + 0
      BY Bounds
    <3> QED
      BY <3>1, <3>2
  <2>4. \A t \in Task : num_dirty_self_fields'[t] <= (MaxAborts + 1) * MaxOuts
    BY <2>1 DEF CountInv
  <2>5. Started' => num_dirty_self_fields'[task'] <= aborts' * MaxOuts + (pos' - 1) + 0
    BY <2>1, <2>2, <2>3
  <2>6. pc' \notin {"decrement", "entry", "stamp", "value"}
    BY <2>1
  <2> QED
    BY <2>4, <2>5, <2>6 DEF CountInv
<1>17. CASE UNCHANGED vars
  BY <1>17, <1>0 DEF vars, Within, CountInv, TimeInv, InBody, StampTask
<1> QED
  BY <1>1, <1>2, <1>3, <1>4, <1>5, <1>6, <1>7, <1>8, <1>9, <1>10, <1>11, <1>12, <1>13, <1>14, <1>15, <1>16, <1>17 DEF Next

\* A field that is in the list stays there, until the prologue swaps it.
LEMMA ListedStays ==
    ASSUME NoWrap, ListHolds, IInv, [Next]_vars, ~Decrement, NEW f \in Field, Listed(f)
    PROVE  Listed(f)'
<1> USE DEF IInv
<1> DEFINE t == Writer[f]
<1>1. t \in Task /\ num_dirty_self_fields[t] \in 0..MaxDirty /\ num_dirty_self_fields[task] \in 0..MaxDirty
      /\ dirty_self_fields[t] \in [0..MaxDirty-1 -> SelfField \cup {NoField}]
  BY Parts DEF TypeOK
<1>2. PICK i \in 0..ListEnd(t)-1 : dirty_self_fields[t][i] = f
  BY DEF Listed
<1>3. ListEnd(t) \in Int /\ ListEnd(t) <= num_dirty_self_fields[t]
  BY <1>1, Bounds DEF ListEnd
<1>4. SUFFICES ListEnd(t) <= ListEnd(t)' /\ ListEnd(t)' \in Int /\ dirty_self_fields'[t][i] = f
  <2>1. ListEnd(t) <= ListEnd(t)' /\ ListEnd(t)' \in Int => i \in 0..ListEnd(t)'-1
    BY <1>2, <1>3
  <2> QED
    BY <2>1 DEF Listed
<1>5. CASE CountDirty
  <2>1. task' = task /\ pc = "count" /\ pc' = "entry" /\ dirty_self_fields' = dirty_self_fields
    BY <1>5, Same DEF Within, CountDirty
  <2>2. num_dirty_self_fields'[t] = IF t = task THEN num_dirty_self_fields[t] + 1 ELSE num_dirty_self_fields[t]
    BY <1>1, <1>5, Parts DEF CountDirty, TypeOK
  <2> QED
    BY <1>1, <1>2, <1>3, <2>1, <2>2, Bounds DEF ListEnd
<1>6. CASE EnterDirty
  <2>1. task' = task /\ pc = "entry" /\ pc' = "stamp" /\ num_dirty_self_fields' = num_dirty_self_fields
    BY <1>6, Same DEF Within, EnterDirty
  <2>2. dirty_self_fields'[t][i] = dirty_self_fields[t][i]
    <3>1. t = task => i # num_dirty_self_fields[task] - 1
      BY <1>1, <1>2, <2>1, Bounds DEF ListEnd
    <3>2. i \in 0..MaxDirty-1
      BY <1>1, <1>2, <1>3, Bounds
    <3>3. dirty_self_fields' = [dirty_self_fields EXCEPT ![task] =
                                  [dirty_self_fields[task] EXCEPT ![num_dirty_self_fields[task] - 1] = out.field]]
      BY <1>6 DEF EnterDirty
    <3>4. DOMAIN dirty_self_fields = Task
      BY DEF TypeOK
    <3>5. CASE t = task
      BY <1>1, <3>1, <3>2, <3>3, <3>4, <3>5
    <3>6. CASE t # task
      BY <1>1, <3>3, <3>4, <3>6
    <3> QED
      BY <3>5, <3>6
  <2> QED
    BY <1>1, <1>2, <1>3, <2>1, <2>2, Bounds DEF ListEnd
<1>7. CASE ~CountDirty /\ ~EnterDirty
  <2>1. \/ UNCHANGED <<dirty_self_fields, num_dirty_self_fields>> /\ pc' # "entry"
        \/ UNCHANGED vars
    BY <1>7 DEF Next, nv, history, TestRestart, PopDirty, StampTask, ChanOut, ClearNextDirty, SetDirty,
       StampVar, StoreValue, SetTask, SetTime, SwitchContext, PowerFail, TornValue, Reboot
  <2>2. CASE UNCHANGED <<dirty_self_fields, num_dirty_self_fields>> /\ pc' # "entry"
    BY <1>1, <1>2, <1>3, <2>2, Bounds DEF ListEnd
  <2>3. CASE UNCHANGED vars
    BY <1>2, <1>3, <2>3, Same DEF Within, vars, nv, ListEnd
  <2> QED
    BY <2>1, <2>2, <2>3
<1> QED
  BY <1>5, <1>6, <1>7

\* What a step does to a field whose buffers it leaves alone: nothing.
LEMMA Frame ==
    ASSUME TypeOK, Within, NEW f \in Field, Listed(f) => Listed(f)', var'[f] = var[f],
           f \in SelfField => idx_pair'[f] = idx_pair[f]
    PROVE  /\ Settled(f) => Settled(f)'
           /\ UnderWay(f) /\ pos' \in {1, pos} => UnderWay(f)'
<1>1. UNCHANGED <<plan, now, committed>>
  BY Same
<1>2. Latest(f)' = Latest(f) /\ Committed(f)' = Committed(f) /\ OutBuffer(f)' = OutBuffer(f)
  BY <1>1 DEF Latest, Committed, OutBuffer
<1>3. Settled(f) => Settled(f)'
  BY <1>2 DEF Settled
<1>4. ASSUME UnderWay(f), pos' \in {1, pos} PROVE UnderWay(f)'
  <2>1. NotInPlan(f)' = NotInPlan(f)
    BY <1>1 DEF NotInPlan
  <2>2. pos \in Nat
    BY Bounds DEF TypeOK
  <2>3. ASSUME NEW i \in 1..pos'-1, IsLastOut(f, i)'
        PROVE  i \in 1..pos-1 /\ IsLastOut(f, i)
    <3>1. pos' # 1
      <4>1. CASE pos' = 1
        <5>1. i \in 1..1-1
          BY <2>3, <4>1
        <5> QED
          BY <5>1
      <4> QED
        BY <4>1
    <3>2. pos' = pos
      BY <1>4, <3>1
    <3> QED
      BY <1>1, <2>3, <3>2 DEF IsLastOut
  <2>4. (f \in SelfField => var'[f][idx_pair'[f].cur] = Committed(f)')
    BY <1>2, <1>4 DEF UnderWay
  <2>5. NotInPlan(f)' => IF f \in SelfField THEN ~idx_pair'[f].dirtyCur ELSE var'[f][0] = Committed(f)'
    BY <1>2, <1>4, <2>1 DEF UnderWay
  <2>6. ASSUME NEW i \in 1..pos'-1, IsLastOut(f, i)'
        PROVE  /\ var'[f][OutBuffer(f)'] = [timestamp |-> now', value |-> plan'.outs[i].value]
               /\ f \in SelfField => idx_pair'[f].dirtyCur /\ Listed(f)'
    BY <1>1, <1>2, <1>4, <2>3, <2>6 DEF UnderWay
  <2> QED
    BY <2>4, <2>5, <2>6 DEF UnderWay
<1> QED
  BY <1>3, <1>4


\* What the invariant says of a field,
FieldInv(f) == IF Running(f) THEN UnderWay(f) ELSE Settled(f)

\* and that it says it of each.
LEMMA FieldInvs == (\A f \in Field : FieldInv(f)) <=> /\ \A f \in Field : ~Running(f) => Settled(f)
                                                      /\ RunningInv
BY DEF FieldInv, RunningInv

\* A field whose buffers stay what they are, in a step that stays in its attempt
\* or ends it.
LEMMA OtherField ==
    ASSUME NoWrap, ListHolds, IInv, [Next]_vars, Within, ~Decrement, ~StampTask, pos' \in {1, pos},
           NEW f \in Field, var'[f] = var[f], f \in SelfField => idx_pair'[f] = idx_pair[f]
    PROVE  FieldInv(f)'
<1>1. FieldInv(f)
  BY FieldInvs DEF IInv, SettledInv
<1>2. Running(f)' = Running(f)
  BY Same DEF Running, Started, IInv
<1>3. Listed(f) => Listed(f)'
  BY ListedStays
<1>4. /\ Settled(f) => Settled(f)'
      /\ UnderWay(f) => UnderWay(f)'
  BY <1>3, Frame DEF IInv
<1> QED
  BY <1>1, <1>2, <1>4 DEF FieldInv

\* What the tasks have committed, and what the running one has output.
LEMMA FieldStep ==
    ASSUME NoWrap, ListHolds, IInv, [Next]_vars
    PROVE  \A f \in Field : FieldInv(f)'
<1> USE DEF IInv, nv, history
<1>1. CASE TestRestart
  <2>1. Within /\ UNCHANGED <<var, idx_pair>> /\ pos' \in {1, pos} /\ ~Decrement /\ ~StampTask
    BY <1>1 DEF Within, TestRestart, Decrement, StampTask
  <2> QED
    BY <2>1, OtherField
<1>2. CASE PopDirty
  <2> SUFFICES ASSUME NEW f \in Field PROVE FieldInv(f)'
    OBVIOUS
  <2>1. /\ Within /\ ~Decrement /\ ~StampTask /\ pos' = pos /\ var' = var /\ ~Started
        /\ f \in SelfField => \/ idx_pair'[f] = idx_pair[f]
                              \/ idx_pair'[f] = Swapped(idx_pair[f]) /\ idx_pair[f].dirtyCur
    BY <1>2 DEF Within, PopDirty, Decrement, StampTask, TimeInv, TypeOK
  <2>2. CASE f \in SelfField => idx_pair'[f] = idx_pair[f]
    BY <2>1, <2>2, OtherField
  <2>3. CASE f \in SelfField /\ idx_pair'[f] = Swapped(idx_pair[f]) /\ idx_pair[f].dirtyCur
    <3>1. ~Running(f) /\ ~Running(f)'
      BY <2>1, Same DEF Running, Started
    <3>2. Settled(f)
      BY <3>1 DEF SettledInv
    <3>3. ~idx_pair[f].dirtyNext
      BY <2>3 DEF BufferInv
    <3>4. Latest(f)' = Latest(f) /\ ~idx_pair'[f].dirtyCur
      BY <2>3, <3>3 DEF Latest, Swapped
    <3>5. Committed(f)' = Committed(f)
      BY <2>1, Same DEF Committed
    <3>6. Settled(f)'
      BY <2>1, <3>2, <3>4, <3>5 DEF Settled
    <3> QED
      BY <3>1, <3>6 DEF FieldInv
  <2> QED
    BY <2>1, <2>2, <2>3
<1>3. CASE Decrement
  <2> SUFFICES ASSUME NEW f \in Field PROVE FieldInv(f)'
    OBVIOUS
  <2>1. /\ Within /\ var' = var /\ idx_pair' = idx_pair /\ dirty_self_fields' = dirty_self_fields
        /\ pc = "decrement" /\ pc' = "pop" /\ ~Started
    BY <1>3 DEF Within, Decrement, TimeInv
  <2>2. ~Running(f) /\ ~Running(f)' /\ committed' = committed
    BY <1>3, <2>1, Same DEF Running, Started, Decrement, StampTask
  <2>3. Settled(f)
    BY <2>2 DEF SettledInv
  <2>4. ASSUME f \in SelfField, idx_pair[f].dirtyCur PROVE Listed(f)'
    <3>1. PICK i \in 0..ListEnd(Writer[f])-1 : dirty_self_fields[Writer[f]][i] = f
      BY <2>3, <2>4 DEF Settled, Listed
    <3>2. num_dirty_self_fields[task] \in 1..MaxDirty /\ Writer[f] \in Task /\ task' = task
          /\ num_dirty_self_fields[Writer[f]] \in 0..MaxDirty
      BY <2>1, Parts, Same, Bounds DEF TypeOK, CountInv
    <3>3. ListEnd(Writer[f]) = num_dirty_self_fields[Writer[f]]
          /\ ListEnd(Writer[f])' = num_dirty_self_fields'[Writer[f]]
      BY <2>1 DEF ListEnd
    <3>4. num_dirty_self_fields'[Writer[f]] = IF Writer[f] = task THEN num_dirty_self_fields[task] - 1
                                              ELSE num_dirty_self_fields[Writer[f]]
      BY <1>3, <3>2 DEF Decrement, TypeOK
    <3>5. Writer[f] = task => i # num_dirty_self_fields[task] - 1
      BY <2>1, <2>4, <3>1, FieldAssumption DEF SettledInv
    <3>6. i \in 0..ListEnd(Writer[f])'-1
      BY <3>1, <3>2, <3>3, <3>4, <3>5, Bounds
    <3> QED
      BY <2>1, <3>1, <3>6 DEF Listed
  <2>5. Settled(f)'
    BY <2>1, <2>2, <2>3, <2>4 DEF Settled, Latest, Committed
  <2> QED
    BY <2>2, <2>5 DEF FieldInv
<1>4. CASE StampTask
  <2> SUFFICES ASSUME NEW f \in Field PROVE FieldInv(f)'
    OBVIOUS
  <2>1. /\ Within /\ ~Decrement /\ UNCHANGED <<var, idx_pair, dirty_self_fields, num_dirty_self_fields, pos>>
        /\ num_dirty_self_fields[task] = 0 /\ pc = "pop" /\ pc' = "run" /\ ~Started /\ pos = 1
    BY <1>4 DEF Within, Decrement, StampTask, TimeInv, PosInv, InBody
  <2>2. task' = task /\ UNCHANGED <<now, plan, committed>> /\ ~Running(f)
    BY <2>1, Same DEF Running
  <2>3. Settled(f)
    BY <2>2 DEF SettledInv
  <2>4. CASE Writer[f] # task
    <3>1. ~Running(f)'
      BY <2>2, <2>4 DEF Running
    <3>2. Settled(f)'
      BY <2>1, <2>3, ListedStays, Frame
    <3> QED
      BY <3>1, <3>2 DEF FieldInv
  <2>5. CASE Writer[f] = task
    <3>1. Running(f)'
      BY <1>4, <2>2, <2>5, Parts DEF Running, Started, StampTask, TimeInv, TypeOK
    <3>2. ~Listed(f)
      BY <2>1, <2>5 DEF Listed, ListEnd
    <3>3. f \in SelfField => ~idx_pair[f].dirtyCur
      BY <2>3, <3>2 DEF Settled
    <3>4. /\ f \in SelfField => var[f][idx_pair[f].cur] = Committed(f)
          /\ f \notin SelfField => var[f][0] = Committed(f)
      BY <2>3, <3>3 DEF Settled, Latest
    <3>5. Committed(f)' = Committed(f)
      BY <2>2 DEF Committed
    <3>6. UnderWay(f)'
      BY <2>1, <3>3, <3>4, <3>5 DEF UnderWay
    <3> QED
      BY <3>1, <3>6 DEF FieldInv
  <2> QED
    BY <2>4, <2>5
<1>5. CASE ChanOut
  <2>1. Within /\ UNCHANGED <<var, idx_pair>> /\ pos' \in {1, pos} /\ ~Decrement /\ ~StampTask
    BY <1>5 DEF Within, ChanOut, Decrement, StampTask
  <2> QED
    BY <2>1, OtherField
<1>6. CASE ClearNextDirty
  <2> SUFFICES ASSUME NEW f \in Field PROVE FieldInv(f)'
    OBVIOUS
  <2>1. /\ Within /\ ~Decrement /\ ~StampTask /\ pos' = pos /\ var' = var /\ pc \in {"clearNext", "setDirty"}
        /\ InBody
    BY <1>6 DEF Within, ClearNextDirty, Decrement, StampTask, InBody
  <2>2. CASE f # out.field
    <3>1. f \in SelfField => idx_pair'[f] = idx_pair[f]
      BY <1>6, <2>2 DEF ClearNextDirty, TypeOK
    <3> QED
      BY <2>1, <3>1, OtherField
  <2>3. CASE f = out.field
    <3>1. f \in SelfField /\ Writer[f] = task /\ pos \in 1..Len(plan.outs) /\ plan.outs[pos].field = f
      BY <2>1, <2>3, OutIs
    <3>2. Running(f) /\ Running(f)'
      BY <2>1, <3>1, Same DEF Running, Started, TimeInv
    <3>3. UnderWay(f)
      BY <3>2 DEF RunningInv
    <3>4. /\ idx_pair'[f].cur = idx_pair[f].cur /\ idx_pair'[f].next = idx_pair[f].next
          /\ idx_pair[f].dirtyCur => idx_pair'[f].dirtyCur
      BY <1>6, <2>3, <3>1 DEF ClearNextDirty, TypeOK, IdxPair
    <3>5. plan' = plan /\ now' = now /\ Committed(f)' = Committed(f) /\ OutBuffer(f)' = OutBuffer(f)
      BY <2>1, <3>1, <3>4, Same DEF Committed, OutBuffer
    <3>6. ~NotInPlan(f)'
      BY <3>1, <3>5, Parts DEF NotInPlan
    <3>7. ASSUME NEW i \in 1..pos'-1, IsLastOut(f, i)'
          PROVE  /\ var'[f][OutBuffer(f)'] = [timestamp |-> now', value |-> plan'.outs[i].value]
                 /\ f \in SelfField => idx_pair'[f].dirtyCur /\ Listed(f)'
      <4>1. i \in 1..pos-1 /\ IsLastOut(f, i)
        BY <2>1, <3>5, <3>7 DEF IsLastOut
      <4>2. var[f][OutBuffer(f)] = [timestamp |-> now, value |-> plan.outs[i].value]
            /\ (f \in SelfField => idx_pair[f].dirtyCur /\ Listed(f))
        BY <3>3, <4>1 DEF UnderWay
      <4> QED
        BY <2>1, <3>1, <3>4, <3>5, <4>2, ListedStays
    <3>8. f \in SelfField => var'[f][idx_pair'[f].cur] = Committed(f)'
      BY <2>1, <3>3, <3>4, <3>5 DEF UnderWay
    <3>9. UnderWay(f)'
      BY <3>6, <3>7, <3>8 DEF UnderWay
    <3> QED
      BY <3>2, <3>9 DEF FieldInv
  <2> QED
    BY <2>2, <2>3
<1>7. CASE SetDirty
  <2> SUFFICES ASSUME NEW f \in Field PROVE FieldInv(f)'
    OBVIOUS
  <2>1. /\ Within /\ ~Decrement /\ ~StampTask /\ pos' = pos /\ var' = var /\ pc \in {"clearNext", "setDirty"}
        /\ InBody
    BY <1>7 DEF Within, SetDirty, Decrement, StampTask, InBody
  <2>2. CASE f # out.field
    <3>1. f \in SelfField => idx_pair'[f] = idx_pair[f]
      BY <1>7, <2>2 DEF SetDirty, TypeOK
    <3> QED
      BY <2>1, <3>1, OtherField
  <2>3. CASE f = out.field
    <3>1. f \in SelfField /\ Writer[f] = task /\ pos \in 1..Len(plan.outs) /\ plan.outs[pos].field = f
      BY <2>1, <2>3, OutIs
    <3>2. Running(f) /\ Running(f)'
      BY <2>1, <3>1, Same DEF Running, Started, TimeInv
    <3>3. UnderWay(f)
      BY <3>2 DEF RunningInv
    <3>4. /\ idx_pair'[f].cur = idx_pair[f].cur /\ idx_pair'[f].next = idx_pair[f].next
          /\ idx_pair[f].dirtyCur => idx_pair'[f].dirtyCur
      BY <1>7, <2>3, <3>1 DEF SetDirty, TypeOK, IdxPair
    <3>5. plan' = plan /\ now' = now /\ Committed(f)' = Committed(f) /\ OutBuffer(f)' = OutBuffer(f)
      BY <2>1, <3>1, <3>4, Same DEF Committed, OutBuffer
    <3>6. ~NotInPlan(f)'
      BY <3>1, <3>5, Parts DEF NotInPlan
    <3>7. ASSUME NEW i \in 1..pos'-1, IsLastOut(f, i)'
          PROVE  /\ var'[f][OutBuffer(f)'] = [timestamp |-> now', value |-> plan'.outs[i].value]
                 /\ f \in SelfField => idx_pair'[f].dirtyCur /\ Listed(f)'
      <4>1. i \in 1..pos-1 /\ IsLastOut(f, i)
        BY <2>1, <3>5, <3>7 DEF IsLastOut
      <4>2. var[f][OutBuffer(f)] = [timestamp |-> now, value |-> plan.outs[i].value]
            /\ (f \in SelfField => idx_pair[f].dirtyCur /\ Listed(f))
        BY <3>3, <4>1 DEF UnderWay
      <4> QED
        BY <2>1, <3>1, <3>4, <3>5, <4>2, ListedStays
    <3>8. f \in SelfField => var'[f][idx_pair'[f].cur] = Committed(f)'
      BY <2>1, <3>3, <3>4, <3>5 DEF UnderWay
    <3>9. UnderWay(f)'
      BY <3>6, <3>7, <3>8 DEF UnderWay
    <3> QED
      BY <3>2, <3>9 DEF FieldInv
  <2> QED
    BY <2>2, <2>3
<1>8. CASE CountDirty
  <2>1. Within /\ UNCHANGED <<var, idx_pair>> /\ pos' \in {1, pos} /\ ~Decrement /\ ~StampTask
    BY <1>8 DEF Within, CountDirty, Decrement, StampTask
  <2> QED
    BY <2>1, OtherField
<1>9. CASE EnterDirty
  <2>1. Within /\ UNCHANGED <<var, idx_pair>> /\ pos' \in {1, pos} /\ ~Decrement /\ ~StampTask
    BY <1>9 DEF Within, EnterDirty, Decrement, StampTask
  <2> QED
    BY <2>1, OtherField
<1>10. CASE StampVar
  <2> SUFFICES ASSUME NEW f \in Field PROVE FieldInv(f)'
    OBVIOUS
  <2>1. /\ Within /\ ~Decrement /\ ~StampTask /\ idx_pair' = idx_pair /\ pc \in {"stamp", "value"} /\ InBody
    BY <1>10 DEF Within, StampVar, Decrement, StampTask, InBody, Reboot
  <2>2. /\ out.field \in Field /\ Writer[out.field] = task /\ out.value \in Value
        /\ pos \in 1..Len(plan.outs) /\ out = plan.outs[pos] /\ OutBuffer(out.field) \in {0, 1}
    BY <2>1, OutIs
  <2>3. \A g \in Field, c \in {0, 1} : out.field # g \/ OutBuffer(out.field) # c => var'[g][c] = var[g][c]
    BY <1>10, <2>2, VarChange, Parts DEF StampVar
  <2>4. var'[f] = var[f] \/ f = out.field
    BY <1>10, <2>2 DEF StampVar, TypeOK
  <2>5. CASE f # out.field
    <3>1. pos' \in {1, pos}
      BY <1>10 DEF StampVar, Reboot
    <3> QED
      BY <2>1, <2>4, <2>5, <3>1, OtherField
  <2>6. CASE f = out.field
    <3>1. Running(f) /\ Running(f)' /\ plan' = plan /\ now' = now
      BY <2>1, <2>2, <2>6, Same DEF Running, Started, TimeInv
    <3>2. UnderWay(f)
      BY <3>1 DEF RunningInv
    <3>3. Committed(f)' = Committed(f) /\ OutBuffer(f)' = OutBuffer(f)
      BY <2>1, Same DEF Committed, OutBuffer
    <3>4. ~NotInPlan(f)'
      BY <2>2, <2>6, <3>1, Parts DEF NotInPlan
    <3>5. f \in SelfField => var'[f][idx_pair'[f].cur] = Committed(f)'
      <4>1. f \in SelfField => idx_pair[f].cur # OutBuffer(f) /\ idx_pair[f].cur \in {0, 1}
        BY DEF BufferInv, OutBuffer, TypeOK, IdxPair
      <4> QED
        BY <2>1, <2>3, <2>6, <3>2, <3>3, <4>1 DEF UnderWay
    <3>6. ASSUME NEW i \in 1..pos'-1, IsLastOut(f, i)'
          PROVE  /\ var'[f][OutBuffer(f)'] = [timestamp |-> now', value |-> plan'.outs[i].value]
                 /\ f \in SelfField => idx_pair'[f].dirtyCur /\ Listed(f)'
      <4>1. i \in 1..pos-1 /\ IsLastOut(f, i)
        BY <1>10, <3>1, <3>6 DEF IsLastOut, StampVar
      <4>2. var[f][OutBuffer(f)] = [timestamp |-> now, value |-> plan.outs[i].value]
            /\ (f \in SelfField => idx_pair[f].dirtyCur /\ Listed(f))
        BY <3>2, <4>1 DEF UnderWay
      <4>3. var[f] \in [{0, 1} -> Version] /\ var[f][OutBuffer(f)] \in Version
        BY <2>2, <2>6 DEF TypeOK
      <4>4. var'[f][OutBuffer(f)] = [var[f][OutBuffer(f)] EXCEPT !.timestamp = now]
        BY <1>10, <2>2, <2>6, <4>3 DEF StampVar, TypeOK, TimeInv
      <4>5. var'[f][OutBuffer(f)] = [timestamp |-> now, value |-> plan.outs[i].value]
        BY <4>2, <4>4
      <4> QED
        BY <2>1, <3>1, <3>3, <4>2, <4>5, ListedStays
    <3>7. UnderWay(f)'
      BY <3>4, <3>5, <3>6 DEF UnderWay
    <3> QED
      BY <3>1, <3>7 DEF FieldInv
  <2> QED
    BY <2>5, <2>6
<1>11. CASE StoreValue
  <2> SUFFICES ASSUME NEW f \in Field PROVE FieldInv(f)'
    OBVIOUS
  <2>1. /\ Within /\ ~Decrement /\ ~StampTask /\ idx_pair' = idx_pair /\ pc \in {"stamp", "value"} /\ InBody
    BY <1>11 DEF Within, StoreValue, Decrement, StampTask, InBody, Reboot
  <2>2. /\ out.field \in Field /\ Writer[out.field] = task /\ out.value \in Value
        /\ pos \in 1..Len(plan.outs) /\ out = plan.outs[pos] /\ OutBuffer(out.field) \in {0, 1}
    BY <2>1, OutIs
  <2>3. \A g \in Field, c \in {0, 1} : out.field # g \/ OutBuffer(out.field) # c => var'[g][c] = var[g][c]
    BY <1>11, <2>2, VarChange, Parts DEF StoreValue
  <2>4. var'[f] = var[f] \/ f = out.field
    BY <1>11, <2>2 DEF StoreValue, TypeOK
  <2>5. CASE f # out.field
    <3>1. /\ FieldInv(f) /\ Running(f)' = Running(f) /\ plan' = plan /\ now' = now
          /\ Committed(f)' = Committed(f) /\ OutBuffer(f)' = OutBuffer(f)
      BY <2>1, FieldInvs, Same DEF SettledInv, Running, Started, Committed, OutBuffer
    <3>2. CASE ~Running(f)
      <4>1. Settled(f)'
        BY <2>1, <2>4, <2>5, <3>1, <3>2, ListedStays, Frame DEF FieldInv
      <4> QED
        BY <3>1, <3>2, <4>1 DEF FieldInv
    <3>3. CASE Running(f)
      <4>1. UnderWay(f)
        BY <3>1, <3>3 DEF FieldInv
      <4>2. NotInPlan(f)' = NotInPlan(f)
        BY <3>1 DEF NotInPlan
      <4>3. /\ f \in SelfField => var'[f][idx_pair'[f].cur] = Committed(f)'
            /\ NotInPlan(f)' => IF f \in SelfField THEN ~idx_pair'[f].dirtyCur ELSE var'[f][0] = Committed(f)'
        BY <2>1, <2>4, <2>5, <3>1, <4>1, <4>2 DEF UnderWay
      <4>4. ASSUME NEW i \in 1..pos'-1, IsLastOut(f, i)'
            PROVE  /\ var'[f][OutBuffer(f)'] = [timestamp |-> now', value |-> plan'.outs[i].value]
                   /\ f \in SelfField => idx_pair'[f].dirtyCur /\ Listed(f)'
        <5>1. pos' = pos + 1 /\ pos \in Nat
          BY <1>11, Bounds DEF StoreValue, TypeOK
        <5>2. plan.outs[i].field = f /\ \A j \in i+1..pos : plan.outs[j].field # f
          BY <3>1, <4>4, <5>1 DEF IsLastOut
        <5>3. i \in 1..pos-1
          BY <2>2, <2>5, <4>4, <5>1, <5>2
        <5>4. IsLastOut(f, i)
          BY <5>1, <5>2, <5>3 DEF IsLastOut
        <5>5. /\ var[f][OutBuffer(f)] = [timestamp |-> now, value |-> plan.outs[i].value]
              /\ f \in SelfField => idx_pair[f].dirtyCur /\ Listed(f)
          BY <4>1, <5>3, <5>4 DEF UnderWay
        <5> QED
          BY <2>1, <2>4, <2>5, <3>1, <5>5, ListedStays
      <4>5. UnderWay(f)'
        BY <4>3, <4>4 DEF UnderWay
      <4> QED
        BY <3>1, <3>3, <4>5 DEF FieldInv
    <3> QED
      BY <3>2, <3>3
  <2>6. CASE f = out.field
    <3>1. Running(f) /\ Running(f)' /\ plan' = plan /\ now' = now
      BY <2>1, <2>2, <2>6, Same DEF Running, Started, TimeInv
    <3>2. UnderWay(f)
      BY <3>1 DEF RunningInv
    <3>3. Committed(f)' = Committed(f) /\ OutBuffer(f)' = OutBuffer(f)
      BY <2>1, Same DEF Committed, OutBuffer
    <3>4. ~NotInPlan(f)'
      BY <2>2, <2>6, <3>1, Parts DEF NotInPlan
    <3>5. f \in SelfField => var'[f][idx_pair'[f].cur] = Committed(f)'
      <4>1. f \in SelfField => idx_pair[f].cur # OutBuffer(f) /\ idx_pair[f].cur \in {0, 1}
        BY DEF BufferInv, OutBuffer, TypeOK, IdxPair
      <4> QED
        BY <2>1, <2>3, <2>6, <3>2, <3>3, <4>1 DEF UnderWay
    <3>6. ASSUME NEW i \in 1..pos'-1, IsLastOut(f, i)'
          PROVE  /\ var'[f][OutBuffer(f)'] = [timestamp |-> now', value |-> plan'.outs[i].value]
                 /\ f \in SelfField => idx_pair'[f].dirtyCur /\ Listed(f)'
      <4>1. pos' = pos + 1 /\ pos \in Nat /\ pc = "value"
        BY <1>11, Bounds DEF StoreValue, TypeOK
      <4>2. \A j \in i+1..pos : plan.outs[j].field # f
        BY <3>1, <3>6, <4>1 DEF IsLastOut
      <4>3. i = pos
        BY <2>2, <2>6, <3>6, <4>1, <4>2
      <4>4. var[f] \in [{0, 1} -> Version] /\ var[f][OutBuffer(f)] \in Version
        BY <2>2, <2>6 DEF TypeOK
      <4>5. var'[f][OutBuffer(f)] = [var[f][OutBuffer(f)] EXCEPT !.value = out.value]
        BY <1>11, <2>2, <2>6, <4>4 DEF StoreValue, TypeOK
      <4>6. var[f][OutBuffer(f)].timestamp = now
        BY <2>6, <4>1 DEF OutputInv
      <4>7. var'[f][OutBuffer(f)] = [timestamp |-> now, value |-> plan.outs[i].value]
        BY <2>2, <4>3, <4>4, <4>5, <4>6 DEF Version
      <4>8. f \in SelfField => idx_pair[f].dirtyCur /\ Listed(f)
        BY <2>6, <4>1 DEF OutputInv
      <4> QED
        BY <2>1, <3>1, <3>3, <4>7, <4>8, ListedStays
    <3>7. UnderWay(f)'
      BY <3>4, <3>5, <3>6 DEF UnderWay
    <3> QED
      BY <3>1, <3>7 DEF FieldInv
  <2> QED
    BY <2>5, <2>6
<1>12. CASE SetTask
  <2>1. Within /\ UNCHANGED <<var, idx_pair>> /\ pos' \in {1, pos} /\ ~Decrement /\ ~StampTask
    BY <1>12 DEF Within, SetTask, Decrement, StampTask
  <2> QED
    BY <2>1, OtherField
<1>13. CASE SetTime
  <2>1. Within /\ UNCHANGED <<var, idx_pair>> /\ pos' \in {1, pos} /\ ~Decrement /\ ~StampTask
    BY <1>13 DEF Within, SetTime, Decrement, StampTask
  <2> QED
    BY <2>1, OtherField
<1>14. CASE SwitchContext
  <2> SUFFICES ASSUME NEW f \in Field PROVE FieldInv(f)'
    OBVIOUS
  <2>1. /\ UNCHANGED <<var, idx_pair, last_execute_time>> /\ pc = "switch" /\ InBody
        /\ task' = plan.next /\ now' = now + 1 /\ committed'[f] = LastOut(f) /\ ~Decrement
    BY <1>14 DEF SwitchContext, InBody, Decrement, TimeInv, task
  <2>2. ~Running(f)'
    <3>1. now \in Nat /\ plan.next \in Task /\ last_execute_time[plan.next] \in Nat
          /\ last_execute_time[plan.next] <= now
      BY Parts, Bounds DEF TimeInv, TypeOK
    <3> QED
      BY <2>1, <3>1 DEF Running, Started
  <2>3. Latest(f)' = Latest(f)
    BY <2>1 DEF Latest
  <2>4. CASE ~Running(f)
    <3>1. Settled(f) /\ Writer[f] # task
      BY <2>1, <2>4 DEF SettledInv, Running, TimeInv
    <3>2. Committed(f)' = Committed(f)
      BY <2>1, <3>1, LastOutIs DEF Committed
    <3>3. Settled(f)'
      BY <2>1, <2>3, <3>1, <3>2, ListedStays DEF Settled
    <3> QED
      BY <2>2, <3>3 DEF FieldInv
  <2>5. CASE Running(f)
    <3>1. UnderWay(f)
      BY <2>5 DEF RunningInv
    <3>2. CASE NotInPlan(f)
      <4>1. LastOut(f) = committed[f]
        BY <3>2, LastOutIs DEF NotInPlan
      <4>2. Committed(f)' = Committed(f)
        BY <2>1, <4>1 DEF Committed
      <4>3. var[f][Latest(f)] = Committed(f) /\ ~(f \in SelfField /\ idx_pair[f].dirtyCur)
        BY <3>1, <3>2 DEF UnderWay, Latest
      <4>4. Settled(f)'
        BY <2>1, <2>3, <4>2, <4>3 DEF Settled
      <4> QED
        BY <2>2, <4>4 DEF FieldInv
    <3>3. CASE ~NotInPlan(f)
      <4>1. PICK i \in DOMAIN plan.outs : /\ plan.outs[i].field = f
                                          /\ \A j \in DOMAIN plan.outs : plan.outs[j].field = f => j <= i
                                          /\ LastOut(f) = [time |-> now, value |-> plan.outs[i].value]
        BY <3>3, LastOutIs DEF NotInPlan
      <4>2. i \in 1..pos-1 /\ IsLastOut(f, i)
        <5>1. pos = Len(plan.outs) + 1 /\ DOMAIN plan.outs = 1..Len(plan.outs) /\ Len(plan.outs) \in Nat
          <6>1. pos \in Nat /\ Len(plan.outs) \in Nat /\ DOMAIN plan.outs = 1..Len(plan.outs)
            BY Parts, Bounds DEF TypeOK
          <6>2. pos > Len(plan.outs) /\ pos <= Len(plan.outs) + 1
            BY <2>1 DEF PosInv
          <6> QED
            BY <6>1, <6>2
        <5> QED
          BY <4>1, <5>1 DEF IsLastOut
      <4>3. /\ var[f][OutBuffer(f)] = [timestamp |-> now, value |-> plan.outs[i].value]
            /\ f \in SelfField => idx_pair[f].dirtyCur /\ Listed(f)
        BY <3>1, <4>2 DEF UnderWay
      <4>4. Committed(f)' = [timestamp |-> now, value |-> plan.outs[i].value]
        BY <2>1, <4>1 DEF Committed
      <4>5. Latest(f) = OutBuffer(f)
        BY <4>3 DEF Latest, OutBuffer
      <4>6. Settled(f)'
        BY <2>1, <2>3, <4>3, <4>4, <4>5, ListedStays DEF Settled
      <4> QED
        BY <2>2, <4>6 DEF FieldInv
    <3> QED
      BY <3>2, <3>3
  <2> QED
    BY <2>4, <2>5
<1>15. CASE PowerFail
  <2>1. Within /\ UNCHANGED <<var, idx_pair>> /\ pos' \in {1, pos} /\ ~Decrement /\ ~StampTask
    BY <1>15 DEF Within, PowerFail, Reboot, Decrement, StampTask
  <2> QED
    BY <2>1, OtherField
<1>16. ASSUME NEW v \in Value, TornValue(v) PROVE \A f \in Field : FieldInv(f)'
  <2> SUFFICES ASSUME NEW f \in Field PROVE FieldInv(f)'
    OBVIOUS
  <2>1. /\ Within /\ ~Decrement /\ ~StampTask /\ idx_pair' = idx_pair /\ pc \in {"stamp", "value"} /\ InBody
    BY <1>16 DEF Within, TornValue, Decrement, StampTask, InBody, Reboot
  <2>2. /\ out.field \in Field /\ Writer[out.field] = task /\ out.value \in Value
        /\ pos \in 1..Len(plan.outs) /\ out = plan.outs[pos] /\ OutBuffer(out.field) \in {0, 1}
    BY <2>1, OutIs
  <2>3. \A g \in Field, c \in {0, 1} : out.field # g \/ OutBuffer(out.field) # c => var'[g][c] = var[g][c]
    BY <1>16, <2>2, VarChange, Parts DEF TornValue
  <2>4. var'[f] = var[f] \/ f = out.field
    BY <1>16, <2>2 DEF TornValue, TypeOK
  <2>5. CASE f # out.field
    <3>1. pos' \in {1, pos}
      BY <1>16 DEF TornValue, Reboot
    <3> QED
      BY <2>1, <2>4, <2>5, <3>1, OtherField
  <2>6. CASE f = out.field
    <3>1. Running(f) /\ Running(f)' /\ plan' = plan /\ now' = now
      BY <2>1, <2>2, <2>6, Same DEF Running, Started, TimeInv
    <3>2. UnderWay(f)
      BY <3>1 DEF RunningInv
    <3>3. Committed(f)' = Committed(f) /\ OutBuffer(f)' = OutBuffer(f)
      BY <2>1, Same DEF Committed, OutBuffer
    <3>4. ~NotInPlan(f)'
      BY <2>2, <2>6, <3>1, Parts DEF NotInPlan
    <3>5. f \in SelfField => var'[f][idx_pair'[f].cur] = Committed(f)'
      <4>1. f \in SelfField => idx_pair[f].cur # OutBuffer(f) /\ idx_pair[f].cur \in {0, 1}
        BY DEF BufferInv, OutBuffer, TypeOK, IdxPair
      <4> QED
        BY <2>1, <2>3, <2>6, <3>2, <3>3, <4>1 DEF UnderWay
    <3>6. ASSUME NEW i \in 1..pos'-1, IsLastOut(f, i)'
          PROVE  /\ var'[f][OutBuffer(f)'] = [timestamp |-> now', value |-> plan'.outs[i].value]
                 /\ f \in SelfField => idx_pair'[f].dirtyCur /\ Listed(f)'
      <4>1. pos' = 1
        BY <1>16 DEF TornValue, Reboot
      <4>2. i \in 1..1-1
        BY <3>6, <4>1
      <4> QED
        BY <4>2
    <3>7. UnderWay(f)'
      BY <3>4, <3>5, <3>6 DEF UnderWay
    <3> QED
      BY <3>1, <3>7 DEF FieldInv
  <2> QED
    BY <2>5, <2>6
<1>17. CASE UNCHANGED vars
  <2>1. Within /\ UNCHANGED <<var, idx_pair>> /\ pos' \in {1, pos} /\ ~Decrement /\ ~StampTask
    BY <1>17 DEF Within, vars, Decrement, StampTask
  <2> QED
    BY <2>1, OtherField
<1> QED
  BY <1>1, <1>2, <1>3, <1>4, <1>5, <1>6, <1>7, <1>8, <1>9, <1>10, <1>11, <1>12, <1>13, <1>14, <1>15, <1>16, <1>17 DEF Next

\* The field that leaves the list has been swapped.
LEMMA PoppedStep ==
    ASSUME IInv, [Next]_vars, pc' = "decrement"
    PROVE  LET f == dirty_self_fields'[task'][num_dirty_self_fields'[task'] - 1]
           IN  f = NoField \/ ~idx_pair'[f].dirtyCur
<1> USE DEF IInv, nv, history
<1>1. CASE PopDirty
  <2> DEFINE f == dirty_self_fields[task][num_dirty_self_fields[task] - 1]
  <2>1. UNCHANGED <<dirty_self_fields, num_dirty_self_fields>> /\ task' = task
    BY <1>1, Same DEF PopDirty, Within
  <2>2. f \in SelfField \cup {NoField}
    BY <1>1, Parts, Bounds DEF PopDirty, TypeOK
  <2>3. f = NoField \/ ~idx_pair'[f].dirtyCur
    <3>1. CASE f # NoField /\ idx_pair[f].dirtyCur
      <4>1. idx_pair'[f] = Swapped(idx_pair[f])
        BY <1>1, <2>2, <3>1 DEF PopDirty, TypeOK
      <4>2. ~idx_pair[f].dirtyNext
        BY <2>2, <3>1 DEF BufferInv
      <4> QED
        BY <4>1, <4>2 DEF Swapped
    <3>2. CASE ~(f # NoField /\ idx_pair[f].dirtyCur)
      <4>1. idx_pair' = idx_pair
        BY <1>1, <3>2 DEF PopDirty
      <4> QED
        BY <3>2, <4>1
    <3> QED
      BY <3>1, <3>2
  <2> QED
    BY <2>1, <2>3
<1>2. CASE UNCHANGED vars
  <2>1. UNCHANGED <<dirty_self_fields, num_dirty_self_fields, idx_pair, pc>> /\ task' = task
    BY <1>2, Same DEF vars, Within
  <2> QED
    BY <2>1 DEF SettledInv
<1>3. PopDirty \/ UNCHANGED vars
  BY DEF Next, TestRestart, PopDirty, Decrement, StampTask, ChanOut, ClearNextDirty, SetDirty, CountDirty,
     EnterDirty, StampVar, StoreValue, SetTask, SetTime, SwitchContext, PowerFail, TornValue, Reboot
<1> QED
  BY <1>1, <1>2, <1>3

\* The steps of chan_out().
LEMMA OutputStep ==
    ASSUME NoWrap, ListHolds, IInv, [Next]_vars
    PROVE  OutputInv'
<1> USE DEF IInv, nv, history
<1>1. CASE UNCHANGED vars
  <2>1. UNCHANGED <<pc, idx_pair, var, now>> /\ out' = out /\ (\A f : Listed(f)' = Listed(f))
    BY <1>1 DEF vars, out, Listed, ListEnd, task
  <2> QED
    BY <1>1, <2>1 DEF vars, OutputInv, OutBuffer
<1>2. CASE ClearNextDirty \/ SetDirty \/ CountDirty
  <2>1. /\ Within /\ plan' = plan /\ pos' = pos /\ out' = out
    BY <1>2, Same DEF Within, ClearNextDirty, SetDirty, CountDirty, out
  <2>2. out.field \in SelfField
    BY <1>2, OutIs DEF ClearNextDirty, SetDirty, CountDirty
  <2>3. pc' = "setDirty" => ~idx_pair'[out.field].dirtyNext
    BY <1>2, <2>2 DEF ClearNextDirty, SetDirty, CountDirty, TypeOK, IdxPair
  <2>4. pc' \in {"count", "entry"} => idx_pair'[out.field].dirtyCur
    BY <1>2, <2>2 DEF ClearNextDirty, SetDirty, CountDirty, TypeOK, IdxPair, OutputInv
  <2>5. pc' \notin {"stamp", "value"}
    BY <1>2 DEF ClearNextDirty, SetDirty, CountDirty
  <2> QED
    BY <2>1, <2>3, <2>4, <2>5 DEF OutputInv
<1>3. CASE EnterDirty
  <2>1. /\ Within /\ plan' = plan /\ pos' = pos /\ out' = out /\ task' = task /\ pc' = "stamp"
        /\ UNCHANGED <<num_dirty_self_fields, idx_pair>> /\ pc = "entry"
    BY <1>3, Same DEF Within, EnterDirty, out
  <2>2. out.field \in SelfField /\ Writer[out.field] = task
    BY <2>1, OutIs
  <2>3. num_dirty_self_fields[task] \in 1..MaxDirty
    BY <2>1, Parts, Bounds DEF CountInv, TypeOK
  <2>4. dirty_self_fields'[task][num_dirty_self_fields[task] - 1] = out.field
    BY <1>3, <2>3, Parts, Bounds DEF EnterDirty, TypeOK
  <2>5. ListEnd(task)' = num_dirty_self_fields[task]
    BY <2>1 DEF ListEnd
  <2>6. num_dirty_self_fields[task] - 1 \in 0..ListEnd(task)'-1
    BY <2>3, <2>5, Bounds
  <2>7. Listed(out.field)'
    BY <2>1, <2>2, <2>4, <2>6 DEF Listed
  <2>8. idx_pair'[out.field].dirtyCur
    BY <2>1 DEF OutputInv
  <2> QED
    BY <2>1, <2>7, <2>8 DEF OutputInv
<1>4. CASE StampVar
  <2>1. /\ Within /\ plan' = plan /\ pos' = pos /\ out' = out /\ pc = "stamp" /\ pc' = "value" /\ now' = now
        /\ idx_pair' = idx_pair /\ ~Decrement
    BY <1>4, Same DEF Within, StampVar, Decrement, out
  <2>2. out.field \in Field /\ OutBuffer(out.field) \in {0, 1}
    BY <2>1, OutIs
  <2>3. var[out.field] \in [{0, 1} -> Version] /\ var[out.field][OutBuffer(out.field)] \in Version
    BY <2>2 DEF TypeOK
  <2>4. var'[out.field][OutBuffer(out.field)].timestamp = now
    BY <1>4, <2>2, <2>3 DEF StampVar, TypeOK, TimeInv, Version
  <2>5. OutBuffer(out.field)' = OutBuffer(out.field)
    BY <2>1 DEF OutBuffer
  <2>6. out.field \in SelfField => idx_pair[out.field].dirtyCur /\ Listed(out.field)
    BY <2>1 DEF OutputInv
  <2>7. ASSUME NEW f \in Field, Listed(f) PROVE Listed(f)'
    BY <2>1, <2>7, ListedStays
  <2>8. out.field \in SelfField => idx_pair'[out.field].dirtyCur /\ Listed(out.field)'
    BY <2>1, <2>2, <2>6, <2>7 DEF Listed
  <2> QED
    BY <2>1, <2>4, <2>5, <2>8 DEF OutputInv
<1>5. CASE ChanOut
  <2>1. pc' = IF out.field \in SelfField THEN "clearNext" ELSE "stamp"
    BY <1>5 DEF ChanOut
  <2>2. out' = out
    BY <1>5 DEF ChanOut, out
  <2> QED
    BY <2>1, <2>2 DEF OutputInv
<1>6. CASE \/ TestRestart \/ PopDirty \/ Decrement \/ StampTask \/ StoreValue \/ SetTask \/ SetTime
           \/ SwitchContext \/ PowerFail \/ \E v \in Value : TornValue(v)
  <2>1. pc' \notin {"clearNext", "setDirty", "count", "entry", "stamp", "value"}
    BY <1>6 DEF TestRestart, PopDirty, Decrement, StampTask, StoreValue, SetTask, SetTime,
       SwitchContext, PowerFail, TornValue, Reboot
  <2> QED
    BY <2>1 DEF OutputInv
<1> QED
  BY <1>1, <1>2, <1>3, <1>4, <1>5, <1>6 DEF Next

\* The invariant holds at first: no field has been output.
LEMMA InitIInv == Init => IInv
<1> SUFFICES ASSUME Init PROVE IInv
  OBVIOUS
<1> USE DEF Init
<1>1. ctx[0] = [task |-> InitTask, time |-> 0] /\ ctx[1] = [task |-> InitTask, time |-> 0] /\ curctx = 0
  OBVIOUS
<1>2. task = InitTask /\ time = 0 /\ InitTask \in Task
  BY <1>1, TaskAssumption DEF task, time
<1>3. TypeOK
  <2>1. var \in [Field -> [{0, 1} -> Version]]
    BY Bounds DEF Version
  <2>2. idx_pair \in [SelfField -> IdxPair] /\ ctx \in [{0, 1} -> Context]
    BY <1>2, Bounds DEF IdxPair, Context
  <2>3. /\ dirty_self_fields \in [Task -> [0..MaxDirty-1 -> SelfField \cup {NoField}]]
        /\ num_dirty_self_fields \in [Task -> 0..MaxDirty]
        /\ last_execute_time \in [Task -> 0..MaxTime]
        /\ committed \in [Field -> [time : 0..MaxTransitions, value : Value \cup {NoValue}]]
        /\ pos \in 1..MaxOuts+1 /\ now \in 0..MaxTransitions /\ aborts \in 0..MaxAborts
    BY Bounds
  <2>4. pc \in PC /\ plan \in PlansOf(task) /\ curctx \in {0, 1}
    BY <1>2 DEF PC
  <2> QED
    BY <2>1, <2>2, <2>3, <2>4 DEF TypeOK
<1>4. TimeInv
  BY <1>1, <1>2, Bounds DEF TimeInv, Started, InBody
<1>5. PosInv
  BY <1>3, Parts, Bounds DEF PosInv, InBody
<1>6. CountInv
  <2>1. /\ MaxAborts + 1 \in Nat /\ MaxOuts \in Nat /\ aborts * MaxOuts = 0
        /\ \A t \in Task : num_dirty_self_fields[t] = 0
    BY Bounds
  <2>2. (MaxAborts + 1) * MaxOuts \in Nat
    BY <2>1
  <2>3. \A t \in Task : num_dirty_self_fields[t] <= (MaxAborts + 1) * MaxOuts
    BY <2>1, <2>2
  <2>4. num_dirty_self_fields[task] <= aborts * MaxOuts + (pos - 1) + 0
    BY <1>2, <2>1
  <2> QED
    BY <2>3, <2>4 DEF CountInv
<1>7. BufferInv
  BY DEF BufferInv
<1>8. \A f \in Field : ~Running(f) /\ Settled(f)
  BY <1>2, <1>3, Parts DEF Running, Settled, Latest, Committed
<1>9. SettledInv /\ RunningInv
  BY <1>8 DEF SettledInv, RunningInv
<1>10. OutputInv
  BY DEF OutputInv
<1> QED
  BY <1>3, <1>4, <1>5, <1>6, <1>7, <1>9, <1>10 DEF IInv

\* Every step keeps the invariant.
LEMMA StepIInv ==
    ASSUME NoWrap, ListHolds, IInv, [Next]_vars
    PROVE  IInv'
<1>1. SettledInv' /\ RunningInv'
  <2>1. \A f \in Field : FieldInv(f)'
    BY FieldStep
  <2> QED
    BY <2>1, PoppedStep DEF SettledInv, RunningInv, FieldInv
<1> QED
  BY <1>1, TypeStep, TimeStep, PosStep, CountStep, BufferStep, OutputStep DEF IInv

\* The invariant holds in every reachable state.
LEMMA Invariance == NoWrap /\ ListHolds => (Spec => []IInv)
<1> SUFFICES ASSUME NoWrap, ListHolds PROVE Spec => []IInv
  OBVIOUS
<1>1. IInv /\ [Next]_vars => IInv'
  BY StepIInv
<1> QED
  BY <1>1, InitIInv, PTL DEF Spec
-----------------------------------------------------------------------------
\* The variables stay in their ranges: no time stamp above MaxTime, no index
\* past the dirty list, no step of chan_out() without an output.
THEOREM TypeCorrect == NoWrap /\ ListHolds => (Spec => []TypeOK)
<1>1. IInv => TypeOK
  BY DEF IInv
<1> QED
  BY <1>1, Invariance, PTL

\* The dirty list does not outgrow its array when it holds MaxOuts fields of
\* each attempt; chain.c checks nothing.
THEOREM ListFits == NoWrap /\ ListHolds => (Spec => []DirtyListFits)
<1>1. IInv => DirtyListFits
  BY Bounds DEF IInv, TypeOK, DirtyListFits
<1> QED
  BY <1>1, Invariance, PTL

\* What chan_in() reads of a field is what was committed to it last.
LEMMA SyncReads ==
    ASSUME IInv, InBody, NEW f \in Field, Writer[f] = task <=> f \in SelfField
    PROVE  var[f][InBuffer(f)] = Committed(f)
<1>1. CASE f \in SelfField
  <2>1. Running(f)
    BY <1>1 DEF IInv, TimeInv, Running
  <2> QED
    BY <1>1, <2>1 DEF IInv, RunningInv, UnderWay, InBuffer
<1>2. CASE f \notin SelfField
  <2>1. ~Running(f)
    BY <1>2 DEF Running
  <2> QED
    BY <1>2, <2>1 DEF IInv, SettledInv, Settled, Latest, InBuffer
<1> QED
  BY <1>1, <1>2

\* The fields of a list have different times, but for those never output.
LEMMA Times ==
    ASSUME IInv, NEW c \in SyncLists[task], NEW i \in DOMAIN c, NEW j \in DOMAIN c,
           i # j, committed[c[i]].time > 0
    PROVE  committed[c[i]].time # committed[c[j]].time
<1>1. task \in Task
  BY Parts DEF IInv
<1>2. c[i] \in Field /\ c[j] \in Field /\ Writer[c[i]] # Writer[c[j]]
  BY <1>1, SyncAssumption
<1> QED
  BY <1>2 DEF IInv, TimeInv

\* No two time stamps chan_in() compares are equal.
THEOREM StampsDiffer == NoWrap /\ ListHolds => (Spec => []NoEqualStamps)
<1>1. ASSUME IInv PROVE NoEqualStamps
  <2> SUFFICES ASSUME InBody, NEW c \in SyncLists[task], NEW i \in DOMAIN c, NEW j \in DOMAIN c, i # j,
                      var[c[i]][InBuffer(c[i])].timestamp = var[c[j]][InBuffer(c[j])].timestamp
               PROVE  var[c[i]][InBuffer(c[i])].timestamp = 0
    BY DEF NoEqualStamps
  <2>1. \A k \in DOMAIN c : c[k] \in Field /\ (Writer[c[k]] = task <=> c[k] \in SelfField)
    BY <1>1, Parts, SyncAssumption DEF IInv
  <2>2. \A k \in DOMAIN c : var[c[k]][InBuffer(c[k])].timestamp = committed[c[k]].time
    <3>1. ASSUME NEW k \in DOMAIN c PROVE var[c[k]][InBuffer(c[k])] = Committed(c[k])
      BY <1>1, <2>1, SyncReads
    <3>2. ASSUME NEW k \in DOMAIN c PROVE var[c[k]][InBuffer(c[k])].timestamp = committed[c[k]].time
      <4>1. var[c[k]][InBuffer(c[k])] = Committed(c[k])
        BY <3>1
      <4> QED
        BY <4>1 DEF Committed
    <3> QED
      BY <3>2
  <2>3. committed[c[i]].time \in Nat
    BY <1>1, <2>1, Bounds DEF IInv, TypeOK
  <2> QED
    BY <1>1, <2>2, <2>3, Times
<1> QED
  BY <1>1, Invariance, PTL

\* A task syncs to the value that was output last by an execution that
\* completed, whatever the attempts cut short have written.
THEOREM SyncsAgree == NoWrap /\ ListHolds => (Spec => []SyncIsMostRecent)
<1>1. ASSUME IInv PROVE SyncIsMostRecent
  <2> SUFFICES ASSUME InBody, NEW c \in SyncLists[task] PROVE ChanIn(c) = MostRecent(c)
    BY DEF SyncIsMostRecent
  <2> DEFINE at(k) == committed[c[k]].time
             stamp(k) == var[c[k]][InBuffer(c[k])].timestamp
             latest == {i \in DOMAIN c : stamp(i) > 0 /\ \A j \in DOMAIN c : stamp(i) >= stamp(j)}
             written == {i \in DOMAIN c : at(i) > 0}
  <2>1. c \in Seq(Field) /\ \A k \in DOMAIN c : c[k] \in Field /\ (Writer[c[k]] = task <=> c[k] \in SelfField)
    BY <1>1, Parts, SyncAssumption DEF IInv
  <2>2. \A k \in DOMAIN c : var[c[k]][InBuffer(c[k])] = Committed(c[k])
    BY <1>1, <2>1, SyncReads
  <2>3. \A k \in DOMAIN c : stamp(k) = at(k) /\ at(k) \in 0..MaxTransitions /\ k \in Int
    <3>1. \A k \in DOMAIN c : k \in Int
      BY <2>1
    <3>2. ASSUME NEW k \in DOMAIN c PROVE stamp(k) = at(k)
      <4>1. var[c[k]][InBuffer(c[k])] = Committed(c[k])
        BY <2>2
      <4> QED
        BY <4>1 DEF Committed
    <3>3. ASSUME NEW k \in DOMAIN c PROVE at(k) \in 0..MaxTransitions
      BY <1>1, <2>1 DEF IInv, TypeOK
    <3> QED
      BY <3>1, <3>2, <3>3
  <2>4. CASE written = {}
    <3>1. latest = {}
      BY <2>3, <2>4
    <3> QED
      BY <2>4, <3>1 DEF ChanIn, MostRecent
  <2>5. CASE written # {}
    <3> DEFINE T == {at(k) : k \in written}
    <3>1. T \subseteq 0..MaxTransitions /\ T # {}
      BY <2>3, <2>5
    <3>2. PICK m \in T : \A n \in T : n <= m
      BY <3>1, Largest, Bounds
    <3>3. PICK i \in written : at(i) = m
      BY <3>2
    <3>4. \A j \in written : at(j) <= at(i)
      BY <3>2, <3>3
    <3>5. \A j \in DOMAIN c : j # i => at(j) < at(i)
      <4>1. ASSUME NEW j \in DOMAIN c, j # i PROVE at(j) # at(i)
        BY <1>1, <4>1, Times
      <4>2. ASSUME NEW j \in DOMAIN c PROVE at(j) <= at(i)
        BY <2>3, <3>4, Bounds
      <4> QED
        BY <2>3, <4>1, <4>2, Bounds
    <3>6. latest = {i}
      BY <2>3, <3>5, Bounds
    <3>7. (CHOOSE k \in written : \A j \in written : at(j) <= at(k)) = i
      <4>1. ASSUME NEW k \in written, \A j \in written : at(j) <= at(k) PROVE k = i
        BY <2>3, <3>5, <4>1, Bounds
      <4> HIDE DEF written, at
      <4> QED
        BY <3>4, <4>1
    <3>8. MostRecent(c) = committed[c[i]].value
      BY <2>5, <3>7 DEF MostRecent
    <3>9. (CHOOSE k \in latest : \A j \in latest : k <= j) = i
      <4>1. i \in Int
        BY <2>3
      <4> HIDE DEF latest
      <4> QED
        BY <3>6, <4>1
    <3>10. ChanIn(c) = var[c[i]][InBuffer(c[i])].value
      BY <3>6, <3>9 DEF ChanIn
    <3>11. var[c[i]][InBuffer(c[i])] = Committed(c[i])
      BY <2>2, <3>3
    <3>12. var[c[i]][InBuffer(c[i])].value = committed[c[i]].value
      BY <3>11 DEF Committed
    <3> QED
      BY <3>8, <3>10, <3>12
  <2> QED
    BY <2>4, <2>5
<1> QED
  BY <1>1, Invariance, PTL
=============================================================================
