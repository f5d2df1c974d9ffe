------------------------ MODULE AlpacaRuntimeProofs ------------------------
(***************************************************************************)
(* Proofs about AlpacaRuntime, for every value of its constants.  IInv is  *)
(* shown to be inductive one conjunct at a time; the safety properties     *)
(* follow from it, and it supplies what the refinement of AtomicTasks      *)
(* needs to know of the state a step starts in.                            *)
(***************************************************************************)
EXTENDS AlpacaRuntime, FiniteSetTheorems, TLAPS

\* The 16-bit boot counter wraps exactly at its largest value (the test and
\* the increment of task_prologue agree).
LEMMA BootMod ==
    ASSUME NEW n \in 0..MaxBoots
    PROVE  (n + 1) % (MaxBoots + 1) = IF n = MaxBoots THEN 0 ELSE n + 1
BY BootsAssumption, SMT

\* While write_to_gbuf() is being called there is a free slot: the list names
\* distinct variables the task may write, and the caller's is not among them.
LEMMA GbufRoom ==
    ASSUME IInv, pc \in {"entry", "count"}
    PROVE  num_dirty_gv < GbufSize
<1>1. Listed = Entered /\ Cardinality(Listed) = num_dirty_gv
  BY DEF IInv, ListInv, Running
<1>2. task \in Task /\ arg \in War[task] /\ arg \notin Entered
  BY DEF IInv, ControlInv, Entered, EnteredScal, WarArr
<1>3. Entered \subseteq War[task] \ {arg}
  BY <1>2 DEF Entered, EnteredScal, WarArr, WarScal
<1>4. IsFiniteSet(War[task]) /\ Cardinality(War[task]) <= GbufSize
  BY <1>2, GbufAssumption
<1>5. /\ IsFiniteSet(War[task] \ {arg})
      /\ Cardinality(War[task] \ {arg}) = Cardinality(War[task]) - 1
      /\ Cardinality(War[task]) \in Nat
  BY <1>2, <1>4, FS_RemoveElement, FS_CardinalityType
<1>6. Cardinality(Entered) <= Cardinality(War[task] \ {arg})
  BY <1>3, <1>5, FS_Subset
<1> QED
  BY <1>1, <1>4, <1>5, <1>6, GbufAssumption DEF IInv, TypeOK

\* Every step of the runtime and of a task keeps the types.
LEMMA TypeStep ==
    ASSUME IInv, [Next]_vars
    PROVE  TypeOK'
<1> USE DEF IInv
<1>1. CASE TestWrap
  BY <1>1 DEF TestWrap, nv, TypeOK, PC, Var
<1>2. ASSUME NEW v \in Arr, ClearIsDirty(v) PROVE  TypeOK'
  BY <1>2, BootsAssumption DEF ClearIsDirty, TypeOK, PC
<1>3. CASE WrapNumBoots
  BY <1>3, BootsAssumption DEF WrapNumBoots, TypeOK, PC
<1>4. CASE IncNumBoots
  BY <1>4, BootsAssumption DEF IncNumBoots, TypeOK, PC
<1>5. CASE TestCommit
  BY <1>5 DEF TestCommit, nv, TypeOK, PC
<1>6. CASE CopyEntry
  BY <1>6 DEF CopyEntry, TypeOK, PC
<1>7. CASE AdvanceIndex
  BY <1>7, GbufAssumption DEF ControlInv, AdvanceIndex, TypeOK, PC
<1>8. CASE ResetNum
  BY <1>8, GbufAssumption DEF ResetNum, TypeOK, PC
<1>9. CASE ResetIndex
  BY <1>9, GbufAssumption DEF ResetIndex, TypeOK, PC
<1>10. CASE ResetFlag
  BY <1>10 DEF ResetFlag, EnterTask, TypeOK, PC, Var, WarScal
<1>11. CASE DropList
  BY <1>11, GbufAssumption DEF DropList, EnterTask, TypeOK, PC, Var, WarScal
<1>12. CASE Privatize
  BY <1>12 DEF Privatize, TypeOK, PC
<1>13. ASSUME NEW v \in Var, Read(v) PROVE  TypeOK'
  BY <1>13 DEF Read, TypeOK
<1>14. ASSUME NEW v \in Var, NEW x \in Value, Write(v, x) PROVE  TypeOK'
  BY <1>14 DEF Write, TypeOK, PC
<1>15. CASE GbufEntry
  BY <1>15 DEF GbufEntry, TypeOK, PC
<1>16. CASE GbufCount
  BY <1>16, GbufAssumption, GbufRoom DEF GbufCount, TypeOK, PC
<1>17. CASE MarkDirty
  BY <1>17 DEF MarkDirty, TypeOK, PC
<1>18. ASSUME NEW t \in Task, Finish(t) PROVE  TypeOK'
  BY <1>18 DEF Finish, nv, TypeOK, PC, Var, WarScal
<1>19. CASE PreCommit
  BY <1>19 DEF PreCommit, nv, TypeOK, PC
<1>20. CASE SetTask
  BY <1>20 DEF SetTask, ControlInv, TypeOK, PC, next_ctx
<1>21. CASE SetFlag
  BY <1>21 DEF SetFlag, ControlInv, TypeOK, PC, next_ctx
<1>22. CASE SwitchContext
  BY <1>22 DEF SwitchContext, TypeOK, PC, next_ctx
<1>23. CASE PowerFail
  BY <1>23, ValueAssumption DEF PowerFail, Reboot, nv, TypeOK, PC
<1>24. ASSUME NEW x \in Value, TornCopy(x) PROVE  TypeOK'
  BY <1>24, ValueAssumption DEF TornCopy, Reboot, TypeOK, PC
<1>25. ASSUME NEW v \in Arr, NEW n \in 0..MaxBoots, TornClear(v, n) PROVE  TypeOK'
  BY <1>25, ValueAssumption DEF TornClear, Reboot, TypeOK, PC
<1>26. CASE UNCHANGED vars
  BY <1>26 DEF vars, nv, volatile, TypeOK
<1> QED
  BY <1>1, <1>2, <1>3, <1>4, <1>5, <1>6, <1>7, <1>8, <1>9, <1>10, <1>11, <1>12, <1>13,
     <1>14, <1>15, <1>16, <1>17, <1>18, <1>19, <1>20, <1>21, <1>22, <1>23, <1>24, <1>25,
     <1>26
  DEF Next, Prologue, Body, Transition, Failure

\* Every step keeps the boot stamps in order: no stamp is ahead of the boot
\* counter, and within a task only what it wrote bears the current one.
LEMMA StampStep ==
    ASSUME IInv, [Next]_vars
    PROVE  StampInv'
<1> USE DEF IInv
<1>1. CASE TestWrap
  BY <1>1, BootsAssumption DEF TestWrap, nv, TypeOK, StampInv, Running
<1>2. ASSUME NEW v \in Arr, ClearIsDirty(v) PROVE  StampInv'
  BY <1>2 DEF ClearIsDirty, TypeOK, StampInv, Running
<1>3. CASE WrapNumBoots
  BY <1>3, BootsAssumption DEF WrapNumBoots, StampInv, Running
<1>4. CASE IncNumBoots
  BY <1>4, TaskAssumption, BootMod DEF IncNumBoots, TypeOK, StampInv
<1>5. CASE TestCommit
  BY <1>5 DEF TestCommit, nv, TypeOK, StampInv
<1>6. CASE CopyEntry
  BY <1>6 DEF CopyEntry, TypeOK, StampInv
<1>7. CASE AdvanceIndex
  BY <1>7 DEF AdvanceIndex, TypeOK, StampInv
<1>8. CASE ResetNum
  BY <1>8 DEF ResetNum, TypeOK, StampInv
<1>9. CASE ResetIndex
  BY <1>9 DEF ResetIndex, TypeOK, StampInv
<1>10. CASE ResetFlag
  BY <1>10 DEF ResetFlag, EnterTask, TypeOK, StampInv
<1>11. CASE DropList
  BY <1>11 DEF DropList, EnterTask, TypeOK, StampInv
<1>12. CASE Privatize
  BY <1>12 DEF Privatize, TypeOK, StampInv
<1>13. ASSUME NEW v \in Var, Read(v) PROVE  StampInv'
  BY <1>13 DEF Read, StampInv, Running, task, WarArr
<1>14. ASSUME NEW v \in Var, NEW x \in Value, Write(v, x) PROVE  StampInv'
  BY <1>14 DEF Write, StampInv, Running, task, WarArr
<1>15. CASE GbufEntry
  BY <1>15 DEF GbufEntry, StampInv, Running, task, WarArr
<1>16. CASE GbufCount
  BY <1>16 DEF GbufCount, StampInv, Running, task, WarArr
<1>17. CASE MarkDirty
  BY <1>17 DEF ControlInv, MarkDirty, TypeOK, StampInv, Running, task, WarArr
<1>18. ASSUME NEW t \in Task, Finish(t) PROVE  StampInv'
  BY <1>18 DEF Finish, nv, StampInv, Running, task, WarArr
<1>19. CASE PreCommit
  BY <1>19 DEF PreCommit, nv, StampInv, Running, task, WarArr
<1>20. CASE SetTask
  BY <1>20 DEF next_ctx, SetTask, TypeOK, StampInv, Running, task, WarArr
<1>21. CASE SetFlag
  BY <1>21 DEF SetFlag, StampInv, Running, task, WarArr
<1>22. CASE SwitchContext
  BY <1>22 DEF SwitchContext, StampInv, Running
<1>23. CASE PowerFail
  BY <1>23 DEF PowerFail, Reboot, nv, StampInv, Running
<1>24. ASSUME NEW x \in Value, TornCopy(x) PROVE  StampInv'
  BY <1>24 DEF TornCopy, Reboot, TypeOK, StampInv
<1>25. ASSUME NEW v \in Arr, NEW n \in 0..MaxBoots, TornClear(v, n) PROVE  StampInv'
  BY <1>25 DEF TornClear, Reboot, StampInv, Running
<1>26. CASE UNCHANGED vars
  BY <1>26 DEF vars, nv, volatile, StampInv, Running, task, WarArr
<1> QED
  BY <1>1, <1>2, <1>3, <1>4, <1>5, <1>6, <1>7, <1>8, <1>9, <1>10, <1>11, <1>12, <1>13,
     <1>14, <1>15, <1>16, <1>17, <1>18, <1>19, <1>20, <1>21, <1>22, <1>23, <1>24, <1>25,
     <1>26
  DEF Next, Prologue, Body, Transition, Failure

\* Every step keeps the control state: the commit flag, the cursor, the list
\* and the two contexts agree with the point the runtime has reached.
LEMMA ControlStep ==
    ASSUME IInv, [Next]_vars
    PROVE  ControlInv'
<1> USE DEF IInv
<1>1. CASE TestWrap
  BY <1>1 DEF TestWrap, nv, ControlInv, Running, task, needCommit
<1>2. ASSUME NEW v \in Arr, ClearIsDirty(v) PROVE  ControlInv'
  BY <1>2 DEF ClearIsDirty, ControlInv, Running, task, needCommit
<1>3. CASE WrapNumBoots
  BY <1>3 DEF WrapNumBoots, ControlInv, Running, task, needCommit
<1>4. CASE IncNumBoots
  BY <1>4 DEF IncNumBoots, ControlInv, Running, task, needCommit
<1>5. CASE TestCommit
  BY <1>5 DEF TestCommit, nv, TypeOK, ControlInv, Running, task, needCommit
<1>6. CASE CopyEntry
  BY <1>6 DEF CopyEntry, TypeOK, ControlInv, Running, task, needCommit
<1>7. CASE AdvanceIndex
  BY <1>7 DEF AdvanceIndex, ControlInv, Running, task, needCommit
<1>8. CASE ResetNum
  BY <1>8 DEF ResetNum, ControlInv, Running, task, needCommit
<1>9. CASE ResetIndex
  BY <1>9 DEF ResetIndex, ControlInv, Running, task, needCommit
<1>10. CASE ResetFlag
  BY <1>10 DEF ResetFlag, EnterTask, TypeOK, ControlInv, task, WarScal, needCommit
<1>11. CASE DropList
  BY <1>11 DEF DropList, EnterTask, ControlInv, task, WarScal, needCommit
<1>12. CASE Privatize
  BY <1>12 DEF Privatize, ControlInv, Running, task, WarScal, needCommit
<1>13. ASSUME NEW v \in Var, Read(v) PROVE  ControlInv'
  BY <1>13 DEF Read, ControlInv, Running, task, WarScal, needCommit
<1>14. ASSUME NEW v \in Var, NEW x \in Value, Write(v, x) PROVE  ControlInv'
  BY <1>14, VarAssumption DEF Write, ControlInv, Running, task, WarScal, needCommit
<1>15. CASE GbufEntry
  <2>1. num_dirty_gv \in 0..GbufSize-1
    <3>1. num_dirty_gv < GbufSize
      BY <1>15, GbufRoom DEF GbufEntry
    <3> QED
      BY <3>1, GbufAssumption DEF TypeOK
  <2>2. data_dest' = [data_dest EXCEPT ![num_dirty_gv] = arg] /\ arg \in Var
    BY <1>15, TaskAssumption DEF GbufEntry, ControlInv
  <2>3. /\ data_dest'[num_dirty_gv] = arg
        /\ \A i \in 0..num_dirty_gv-1 : data_dest'[i] \in Var
    BY <2>1, <2>2 DEF TypeOK, ControlInv
  <2> QED
    BY <1>15, <2>3 DEF GbufEntry, ControlInv, Running, task, WarScal, needCommit
<1>16. CASE GbufCount
  BY <1>16, TaskAssumption
  DEF GbufCount, TypeOK, ControlInv, Running, task, WarScal, needCommit, Var
<1>17. CASE MarkDirty
  BY <1>17 DEF MarkDirty, ControlInv, Running, task, WarScal, needCommit
<1>18. ASSUME NEW t \in Task, Finish(t) PROVE  ControlInv'
  BY <1>18 DEF Finish, nv, ControlInv, Running, task, WarScal, needCommit
<1>19. CASE PreCommit
  BY <1>19, VarAssumption DEF PreCommit, nv, ControlInv, Running, task, WarScal, needCommit
<1>20. CASE SetTask
  BY <1>20 DEF SetTask, TypeOK, ControlInv, Running, task, WarScal, needCommit, next_ctx
<1>21. CASE SetFlag
  BY <1>21 DEF SetFlag, TypeOK, ControlInv, Running, task, WarScal, needCommit, next_ctx
<1>22. CASE SwitchContext
  BY <1>22 DEF SwitchContext, ControlInv, Running, task
<1>23. CASE PowerFail
  BY <1>23 DEF PowerFail, Reboot, nv, ControlInv, Running, task, needCommit
<1>24. ASSUME NEW x \in Value, TornCopy(x) PROVE  ControlInv'
  BY <1>24 DEF TornCopy, Reboot, ControlInv, Running, task, needCommit
<1>25. ASSUME NEW v \in Arr, NEW n \in 0..MaxBoots, TornClear(v, n) PROVE  ControlInv'
  BY <1>25 DEF TornClear, Reboot, ControlInv, Running, task, needCommit
<1>26. CASE UNCHANGED vars
  BY <1>26 DEF vars, nv, volatile, ControlInv, Running, task, WarScal, needCommit, next_ctx
<1> QED
  BY <1>1, <1>2, <1>3, <1>4, <1>5, <1>6, <1>7, <1>8, <1>9, <1>10, <1>11, <1>12, <1>13,
     <1>14, <1>15, <1>16, <1>17, <1>18, <1>19, <1>20, <1>21, <1>22, <1>23, <1>24, <1>25,
     <1>26
  DEF Next, Prologue, Body, Transition, Failure

\* Every step keeps the commit list exact: it names what the attempt has
\* entered so far, each variable once.
LEMMA ListStep ==
    ASSUME IInv, [Next]_vars
    PROVE  ListInv'
<1> USE DEF IInv
<1>1. CASE TestWrap
  BY <1>1 DEF TestWrap, ListInv, Running
<1>2. ASSUME NEW v \in Arr, ClearIsDirty(v) PROVE  ListInv'
  BY <1>2 DEF ClearIsDirty, ListInv, Running
<1>3. CASE WrapNumBoots
  BY <1>3 DEF WrapNumBoots, ListInv, Running
<1>4. CASE IncNumBoots
  BY <1>4 DEF IncNumBoots, ListInv, Running
<1>5. CASE TestCommit
  BY <1>5 DEF TestCommit, ListInv, Running
<1>6. CASE CopyEntry
  BY <1>6 DEF CopyEntry, ListInv, Running
<1>7. CASE AdvanceIndex
  BY <1>7 DEF AdvanceIndex, ListInv, Running
<1>8. CASE ResetNum
  BY <1>8 DEF ResetNum, ListInv, Running
<1>9. CASE ResetIndex
  BY <1>9 DEF ResetIndex, ListInv, Running
<1>10. CASE ResetFlag
  <2>1. num_dirty_gv' = 0 /\ Listed' = {}
    BY <1>10 DEF ResetFlag, ControlInv, Listed
  <2>2. Entered' = {}
    BY <1>10 DEF ResetFlag, EnterTask, TypeOK, StampInv, Entered, EnteredScal, WarArr
  <2> QED
    BY <2>1, <2>2, FS_EmptySet DEF ListInv
<1>11. CASE DropList
  <2>1. num_dirty_gv' = 0 /\ Listed' = {}
    BY <1>11 DEF DropList, Listed
  <2>2. Entered' = {}
    BY <1>11 DEF DropList, EnterTask, TypeOK, StampInv, Entered, EnteredScal, WarArr
  <2> QED
    BY <2>1, <2>2, FS_EmptySet DEF ListInv
<1>12. CASE Privatize
  BY <1>12, TaskAssumption, BootsAssumption, VarAssumption
  DEF Privatize, TypeOK, StampInv, ListInv, Running, WarArr, Listed, Entered, EnteredScal
<1>13. ASSUME NEW v \in Var, Read(v) PROVE  ListInv'
  BY <1>13 DEF Read, ListInv, Running, task, WarArr, Listed, Entered, EnteredScal
<1>14. ASSUME NEW v \in Var, NEW x \in Value, Write(v, x) PROVE  ListInv'
  BY <1>14, VarAssumption
  DEF Write, ListInv, Running, task, WarArr, Listed, Entered, EnteredScal
<1>15. CASE GbufEntry
  <2>1. num_dirty_gv \in 0..GbufSize-1
    <3>1. num_dirty_gv < GbufSize
      BY <1>15, GbufRoom DEF GbufEntry
    <3> QED
      BY <3>1, GbufAssumption DEF TypeOK
  <2>2. \A i \in 0..num_dirty_gv-1 : data_dest'[i] = data_dest[i]
    BY <1>15, <2>1 DEF GbufEntry
  <2>3. Listed' = Listed
    BY <1>15, <2>2 DEF GbufEntry, Listed
  <2>4. Entered' = Entered
    BY <1>15 DEF GbufEntry, Entered, EnteredScal, WarArr, WarScal, task
  <2> QED
    BY <1>15, <2>3, <2>4 DEF GbufEntry, ListInv, Running
<1>16. CASE GbufCount
  <2>1. Listed = Entered /\ Cardinality(Listed) = num_dirty_gv
    BY <1>16 DEF GbufCount, ListInv, Running
  <2>2. data_dest[num_dirty_gv] = arg /\ num_dirty_gv \in Nat
    BY <1>16 DEF GbufCount, ControlInv, TypeOK
  <2>3. Listed' = Listed \cup {arg}
    BY <1>16, <2>2 DEF GbufCount, Listed
  <2>4. arg \in War[task] /\ arg \notin Entered
    BY <1>16 DEF GbufCount, ControlInv, Entered, EnteredScal, WarArr
  <2>5. Entered' = Entered \cup {arg}
    BY <1>16, <2>4, VarAssumption, TaskAssumption
    DEF GbufCount, ControlInv, Entered, EnteredScal, WarArr, WarScal, Var, task
  <2>6. IsFiniteSet(Entered)
    <3>1. task \in Task /\ Entered \subseteq War[task]
      BY DEF ControlInv, Entered, EnteredScal, WarArr, WarScal
    <3> QED
      BY <3>1, GbufAssumption, FS_Subset
  <2>7. Cardinality(Listed') = num_dirty_gv + 1
    BY <2>1, <2>3, <2>4, <2>6, FS_AddElement
  <2> QED
    BY <1>16, <2>1, <2>3, <2>5, <2>7 DEF GbufCount, ListInv
<1>17. CASE MarkDirty
  BY <1>17
  DEF MarkDirty, TypeOK, ListInv, Running, task, WarArr, Listed, Entered, EnteredScal
<1>18. ASSUME NEW t \in Task, Finish(t) PROVE  ListInv'
  BY <1>18
  DEF Finish, nv, ListInv, Running, task, WarArr, WarScal, Listed, Entered, EnteredScal
<1>19. CASE PreCommit
  BY <1>19
  DEF PreCommit, nv, ControlInv, ListInv, Running, task, WarArr, WarScal, Listed,
      Entered, EnteredScal
<1>20. CASE SetTask
  BY <1>20
  DEF SetTask, TypeOK, ListInv, Running, task, WarArr, WarScal, next_ctx, Listed,
      Entered, EnteredScal
<1>21. CASE SetFlag
  BY <1>21
  DEF SetFlag, StampInv, ListInv, Running, task, WarArr, WarScal, Listed, Entered,
      EnteredScal
<1>22. CASE SwitchContext
  BY <1>22 DEF SwitchContext, ListInv, Running
<1>23. CASE PowerFail
  BY <1>23 DEF PowerFail, Reboot, ListInv, Running
<1>24. ASSUME NEW x \in Value, TornCopy(x) PROVE  ListInv'
  BY <1>24 DEF TornCopy, Reboot, ListInv, Running
<1>25. ASSUME NEW v \in Arr, NEW n \in 0..MaxBoots, TornClear(v, n) PROVE  ListInv'
  BY <1>25 DEF TornClear, Reboot, ListInv, Running
<1>26. CASE UNCHANGED vars
  BY <1>26
  DEF vars, nv, volatile, ListInv, Running, task, WarArr, WarScal, Listed, Entered,
      EnteredScal
<1> QED
  BY <1>1, <1>2, <1>3, <1>4, <1>5, <1>6, <1>7, <1>8, <1>9, <1>10, <1>11, <1>12, <1>13,
     <1>14, <1>15, <1>16, <1>17, <1>18, <1>19, <1>20, <1>21, <1>22, <1>23, <1>24, <1>25,
     <1>26
  DEF Next, Prologue, Body, Transition, Failure

\* The steps that change neither the committed store nor what the task sees.
Internal ==
    \/ TestWrap \/ (\E v \in Arr : ClearIsDirty(v)) \/ WrapNumBoots \/ IncNumBoots
    \/ TestCommit \/ CopyEntry \/ AdvanceIndex \/ ResetNum \/ ResetIndex \/ ResetFlag
    \/ DropList \/ Privatize \/ GbufEntry \/ GbufCount \/ MarkDirty
    \/ (\E t \in Task : Finish(t)) \/ PreCommit \/ SetTask \/ SetFlag

\* The steps of the runtime inside a task or a commit change nothing the
\* program can see.
LEMMA InternalStep ==
    ASSUME IInv,
           Internal
    PROVE  UNCHANGED <<CommittedStore, task, AttemptView, reg>>
<1> USE DEF IInv
<1>1. CASE TestWrap
  BY <1>1 DEF TestWrap, nv, Running, task, needCommit, CommittedStore, AttemptView, Pending
<1>2. ASSUME NEW v \in Arr, ClearIsDirty(v) PROVE  UNCHANGED <<CommittedStore, task, AttemptView, reg>>
  BY <1>2 DEF ClearIsDirty, Running, task, needCommit, CommittedStore, AttemptView, Pending
<1>3. CASE WrapNumBoots
  BY <1>3 DEF WrapNumBoots, Running, task, needCommit, CommittedStore, AttemptView, Pending
<1>4. CASE IncNumBoots
  BY <1>4 DEF IncNumBoots, Running, task, needCommit, CommittedStore, AttemptView, Pending
<1>5. CASE TestCommit
  BY <1>5
  DEF TestCommit, nv, Running, task, needCommit, CommittedStore, AttemptView, Pending
<1>6. CASE CopyEntry
  BY <1>6
  DEF CopyEntry, TypeOK, ControlInv, Running, task, needCommit, CommittedStore,
      AttemptView, Pending
<1>7. CASE AdvanceIndex
  BY <1>7
  DEF AdvanceIndex, TypeOK, ControlInv, Running, task, needCommit, CommittedStore,
      AttemptView, Pending
<1>8. CASE ResetNum
  BY <1>8
  DEF ResetNum, TypeOK, ControlInv, Running, task, CommittedStore, AttemptView, Pending
<1>9. CASE ResetIndex
  BY <1>9
  DEF ResetIndex, TypeOK, ControlInv, Running, task, CommittedStore, AttemptView, Pending
<1>10. CASE ResetFlag
  BY <1>10
  DEF ResetFlag, EnterTask, TypeOK, StampInv, ControlInv, task, WarArr, WarScal,
      CommittedStore, AttemptView, Pending, InCopy
<1>11. CASE DropList
  BY <1>11
  DEF DropList, EnterTask, TypeOK, StampInv, ControlInv, Running, task, WarArr, WarScal,
      needCommit, CommittedStore, AttemptView, InCopy
<1>12. CASE Privatize
  BY <1>12, VarAssumption
  DEF Privatize, TypeOK, ControlInv, Running, task, WarArr, WarScal, needCommit,
      CommittedStore, AttemptView, InCopy
<1>13. CASE GbufEntry
  BY <1>13
  DEF GbufEntry, ControlInv, Running, task, WarArr, WarScal, needCommit, CommittedStore,
      AttemptView, InCopy
<1>14. CASE GbufCount
  BY <1>14
  DEF GbufCount, ControlInv, Running, task, WarArr, WarScal, needCommit, CommittedStore,
      AttemptView, InCopy
<1>15. CASE MarkDirty
  BY <1>15
  DEF MarkDirty, TypeOK, ControlInv, Running, task, WarArr, WarScal, needCommit,
      CommittedStore, AttemptView, InCopy
<1>16. ASSUME NEW t \in Task, Finish(t) PROVE  UNCHANGED <<CommittedStore, task, AttemptView, reg>>
  BY <1>16
  DEF Finish, nv, ControlInv, Running, task, WarArr, WarScal, needCommit, CommittedStore,
      AttemptView, InCopy
<1>17. CASE PreCommit
  BY <1>17
  DEF PreCommit, nv, ControlInv, Running, task, WarArr, WarScal, needCommit,
      CommittedStore, AttemptView, InCopy
<1>18. CASE SetTask
  BY <1>18
  DEF SetTask, TypeOK, ControlInv, Running, task, WarArr, WarScal, needCommit, next_ctx,
      CommittedStore, AttemptView, InCopy
<1>19. CASE SetFlag
  BY <1>19
  DEF SetFlag, TypeOK, ControlInv, Running, task, WarArr, WarScal, needCommit, next_ctx,
      CommittedStore, AttemptView, InCopy
<1> QED
  BY <1>1, <1>2, <1>3, <1>4, <1>5, <1>6, <1>7, <1>8, <1>9, <1>10, <1>11, <1>12, <1>13,
     <1>14, <1>15, <1>16, <1>17, <1>18, <1>19
  DEF Internal

\* A read through the emitted code returns the attempt's view of a variable.
LEMMA ReadStep ==
    ASSUME IInv, NEW v \in Var, Read(v)
    PROVE  Atomic!Read(v)
<1>1. CommittedStore' = CommittedStore /\ task' = task
  BY DEF IInv, Read, ControlInv, Running, task, needCommit, CommittedStore
<1>2. \A w \in Var : InCopy(w)' = InCopy(w)
  BY DEF Read, InCopy, WarArr, WarScal, task
<1>3. \A w \in Var : bak'[w] # bak[w] => ~InCopy(w)
  BY VarAssumption DEF Read, InCopy, WarArr, WarScal
<1>4. AttemptView' = AttemptView
  BY <1>1, <1>2, <1>3 DEF Read, Running, AttemptView
<1>5. reg' = AttemptView[v]
  BY VarAssumption
  DEF IInv, Read, TypeOK, ControlInv, Running, AttemptView, CommittedStore, InCopy,
      WarArr, WarScal, Var
<1> QED
  BY <1>1, <1>4, <1>5 DEF Atomic!Read

\* A write through the emitted code changes the attempt's view, and only that.
LEMMA WriteStep ==
    ASSUME IInv, NEW v \in Var, NEW x \in Value, Write(v, x)
    PROVE  Atomic!Write(v, x)
<1>1. CommittedStore' = CommittedStore /\ task' = task /\ reg' = reg
  BY DEF IInv, Write, ControlInv, Running, task, needCommit, CommittedStore
<1>2. \A w \in Var : InCopy(w)' = (InCopy(w) \/ w = v)
  BY DEF Write, InCopy, WarArr, WarScal, task, Var
<1>3. AttemptView' = [AttemptView EXCEPT ![v] = x]
  BY <1>1, <1>2 DEF IInv, TypeOK, Write, Running, AttemptView
<1> QED
  BY <1>1, <1>3 DEF Write, Atomic!Write

\* Switching the context is the point where an attempt takes effect.
LEMMA CompleteStep ==
    ASSUME IInv, SwitchContext
    PROVE  \E t \in Task : Atomic!Complete(t)
<1>1. task' = nextTask /\ nextTask \in Task /\ needCommit' /\ ~needCommit /\ gv_index = 0
  BY DEF IInv, ControlInv, SwitchContext, Running, task, needCommit
<1>2. Pending' = Entered
  BY <1>1 DEF IInv, ListInv, SwitchContext, Running, Listed, Pending
<1>3. \A v \in Var : v \in Entered <=> InCopy(v)
  BY DEF SwitchContext, Entered, EnteredScal, InCopy
<1>4. CommittedStore' = AttemptView /\ AttemptView' = AttemptView
  BY <1>1, <1>2, <1>3 DEF SwitchContext, CommittedStore, AttemptView, Running
<1> QED
  BY <1>1, <1>4 DEF SwitchContext, Atomic!Complete

\* A power failure, also one that tears the word being written, takes the
\* program back to the start of the task.
LEMMA FailureStep ==
    ASSUME IInv, Failure
    PROVE  Atomic!PowerFail
<1>1. Reboot /\ CommittedStore' = CommittedStore /\ task' = task
  <2>1. CASE PowerFail
    BY <2>1 DEF PowerFail, nv, CommittedStore, Pending, needCommit, task
  <2>2. ASSUME NEW x \in Value, TornCopy(x)
        PROVE  Reboot /\ CommittedStore' = CommittedStore /\ task' = task
    BY <2>2
    DEF IInv, TypeOK, ControlInv, TornCopy, CommittedStore, Pending, needCommit, task
  <2>3. ASSUME NEW v \in Arr, NEW n \in 0..MaxBoots, TornClear(v, n)
        PROVE  Reboot /\ CommittedStore' = CommittedStore /\ task' = task
    BY <2>3 DEF TornClear, CommittedStore, Pending, needCommit, task
  <2> QED
    BY <2>1, <2>2, <2>3 DEF Failure
<1>2. AttemptView' = CommittedStore
  BY <1>1 DEF Reboot, Running, AttemptView, CommittedStore
<1> QED
  BY <1>1, <1>2 DEF Reboot, Atomic!PowerFail

-----------------------------------------------------------------------------

\* The device as it is programmed satisfies the invariant.
LEMMA InitIInv == Init => IInv
<1> SUFFICES ASSUME Init PROVE IInv
  OBVIOUS
<1>1. TypeOK
  BY ValueAssumption, TaskAssumption, BootsAssumption, GbufAssumption DEF Init, TypeOK, PC
<1>2. StampInv /\ ControlInv /\ ListInv
  BY <1>1, TaskAssumption DEF Init, StampInv, ControlInv, ListInv, Running, task
<1> QED
  BY <1>1, <1>2 DEF IInv

\* The invariant behind all that follows holds throughout: types, boot stamps,
\* control state and commit list of libalpaca.
THEOREM Invariance == Spec => []IInv
<1>1. IInv /\ [Next]_vars => IInv'
  BY TypeStep, StampStep, ControlStep, ListStep DEF IInv
<1> QED
  BY InitIInv, <1>1, PTL DEF Spec

\* Every variable of the runtime stays within its range, the boot counter, the
\* cursor and the count of the commit list included.
THEOREM TypeCorrect == Spec => []TypeOK
<1>1. IInv => TypeOK
  BY DEF IInv
<1> QED
  BY Invariance, <1>1, PTL

\* When a task starts, no array element carries the stamp of this boot, for
\* any number of boots between two wraps: clear_isDirty() comes in time.
THEOREM StampsAreFresh == Spec => []NoStaleStamp
<1>1. IInv => NoStaleStamp
  BY DEF IInv, TypeOK, StampInv, NoStaleStamp
<1> QED
  BY Invariance, <1>1, PTL

\* Outside a commit gv_index is zero, so that no later commit skips entries.
THEOREM CursorRestarts == Spec => []CursorAtStart
<1>1. IInv => CursorAtStart
  BY DEF IInv, ControlInv, CursorAtStart
<1> QED
  BY Invariance, <1>1, PTL

\* write_to_gbuf(), which does not check, never runs past the arrays it
\* appends to, provided they have a slot for each variable a task may write.
THEOREM GbufNeverOverflows == Spec => []GbufFits
<1>1. IInv => GbufFits
  BY GbufRoom DEF GbufFits
<1> QED
  BY Invariance, <1>1, PTL

\* At the switch the commit list names each scalar privatized and each element
\* written exactly once.
THEOREM CommitListIsExact == Spec => []CommitListExact
<1>1. IInv => CommitListExact
  BY DEF IInv, ListInv, Running, Entered, EnteredScal, CommitListExact
<1> QED
  BY Invariance, <1>1, PTL

\* Tasks take effect as a whole or not at all: the runtime implements
\* AtomicTasks under any power failures, for any program, variables and sizes.
THEOREM Atomicity == Spec => TasksAreAtomic
<1>1. Init => Atomic!Init
  BY DEF Init, Atomic!Init, CommittedStore, AttemptView, task
<1>2. IInv /\ [Next]_vars => [Atomic!Next]_(Atomic!vars)
  <2> SUFFICES ASSUME IInv, [Next]_vars
               PROVE  [Atomic!Next]_(Atomic!vars)
    OBVIOUS
  <2>1. CASE Internal
    BY <2>1, InternalStep DEF Atomic!vars
  <2>2. ASSUME NEW v \in Var, Read(v) PROVE Atomic!Next
    BY <2>2, ReadStep DEF Atomic!Next
  <2>3. ASSUME NEW v \in Var, NEW x \in Value, Write(v, x) PROVE Atomic!Next
    BY <2>3, WriteStep DEF Atomic!Next
  <2>4. CASE SwitchContext
    BY <2>4, CompleteStep DEF Atomic!Next
  <2>5. CASE Failure
    BY <2>5, FailureStep DEF Atomic!Next
  <2>6. CASE UNCHANGED vars
    BY <2>6
    DEF vars, nv, volatile, Atomic!vars, CommittedStore, AttemptView, InCopy, Running,
        Pending, needCommit, task, WarArr, WarScal
  <2> QED
    BY <2>1, <2>2, <2>3, <2>4, <2>5, <2>6 DEF Next, Prologue, Body, Transition, Internal
<1> QED
  BY <1>1, <1>2, Invariance, PTL DEF Spec, TasksAreAtomic, Atomic!Spec
=============================================================================
