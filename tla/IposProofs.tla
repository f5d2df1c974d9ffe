----------------------------- MODULE IposProofs -----------------------------
(***************************************************************************)
(* Proofs about Ipos, for every number and size of pages, of tasks and of  *)
(* initial tasks.                                                          *)
(***************************************************************************)
EXTENDS Ipos, TLAPS

\* The parameters are numbers.
LEMMA Numbers == /\ NUM_PAG \in Nat \ {0} /\ PAG_SIZE \in Nat \ {0} /\ BIGEN_ROM \in Nat \ {0}
                 /\ NumTasks \in Nat \ {0} /\ NumInitTasks \in Nat \ {0}
BY PageAssumption

\* Pages follow each other.
LEMMA HeaderOrder ==
    ASSUME NEW p \in Nat, NEW q \in Nat
    PROVE  /\ Header(p) \in Nat \ {0}
           /\ Header(p + 1) = Header(p) + PAG_SIZE
           /\ p < q => Header(p) + PAG_SIZE <= Header(q)
BY Numbers DEF Header

\* The index the code computes from the header of a page is that of the page.
LEMMA HeaderIndex ==
    ASSUME NEW p \in Pages
    PROVE  (Header(p) - BIGEN_ROM) \div PAG_SIZE = p
BY Numbers DEF Header, Pages

\* A variable is in the page that PageOf() says, and in no other.
LEMMA VarPage ==
    ASSUME NEW v \in Var
    PROVE  /\ v \in Nat
           /\ PageOf(v) \in Pages
           /\ \A p \in Pages : InPage(v, Header(p)) <=> p = PageOf(v)
<1>1. /\ v \in Nat /\ v >= BIGEN_ROM /\ v < BIGEN_ROM + NUM_PAG * PAG_SIZE
  BY PageAssumption, Numbers
<1> DEFINE x == v - BIGEN_ROM
<1>2. x \in Nat /\ x < NUM_PAG * PAG_SIZE
  BY <1>1, Numbers
<1>3. x \div PAG_SIZE \in Nat /\ x \div PAG_SIZE < NUM_PAG
  BY <1>2, Numbers
<1>4. ASSUME NEW p \in Nat PROVE (p * PAG_SIZE <= x /\ x < p * PAG_SIZE + PAG_SIZE) <=> p = x \div PAG_SIZE
  BY <1>2, <1>4, Numbers
<1>5. ASSUME NEW p \in Nat PROVE InPage(v, Header(p)) <=> (p * PAG_SIZE <= x /\ x < p * PAG_SIZE + PAG_SIZE)
  BY <1>1, <1>5, Numbers DEF InPage, Header
<1> QED
  BY <1>1, <1>3, <1>4, <1>5, Numbers DEF PageOf, Pages

\* The offset of a variable in its page.
LEMMA VarOffset ==
    ASSUME NEW v \in Var, NEW p \in Pages
    PROVE  /\ InPage(v, Header(p)) <=> v - Header(p) \in Offsets
           /\ Header(p) + (v - Header(p)) = v
BY VarPage, HeaderOrder, Numbers DEF InPage, Offsets, Pages

\* The search for the page of a variable finds the right one, or the one before
\* when the variable starts a later page.
LEMMA Search ==
    ASSUME NEW v \in Var
    PROVE  /\ RequestedPage(v) \in Pages
           /\ ~StartsLaterPage(v) => RequestedPage(v) = PageOf(v)
           /\ StartsLaterPage(v) => v = Header(RequestedPage(v)) + PAG_SIZE
<1> DEFINE Found(p) == v <= Header(p + 1) /\ \A q \in 0..p-1 : v > Header(q + 1)
           o == PageOf(v)
<1>1. /\ v \in Nat /\ o \in Pages /\ o \in Nat /\ Header(o) <= v /\ v < Header(o + 1)
  BY VarPage, HeaderOrder, Numbers DEF InPage, Pages
<1>2. \A q \in Nat : Header(q) \in Nat /\ (q + 1 < o => v > Header(q + 1))
  BY <1>1, HeaderOrder, Numbers
<1>3. ASSUME NEW p \in Pages, NEW q \in Pages, Found(p), Found(q), p < q PROVE FALSE
  <2>1. p \in Nat /\ p \in 0..q-1
    BY <1>3 DEF Pages
  <2>2. v <= Header(p + 1) /\ v > Header(p + 1) /\ Header(p + 1) \in Nat
    BY <1>2, <1>3, <2>1
  <2> QED
    BY <1>1, <2>2
<1>4. ASSUME NEW p \in Pages, Found(p) PROVE RequestedPage(v) = p
  <2>1. RequestedPage(v) \in Pages /\ Found(RequestedPage(v))
    BY <1>4 DEF RequestedPage
  <2> QED
    BY <1>3, <1>4, <2>1 DEF Pages
<1>5. CASE ~StartsLaterPage(v)
  <2>1. v # Header(o) \/ o = 0
    BY <1>1, <1>5 DEF StartsLaterPage
  <2>2. ASSUME NEW q \in 0..o-1 PROVE v > Header(q + 1)
    <3>1. q \in Nat /\ o # 0 /\ (q + 1 < o \/ q + 1 = o)
      <4>1. o \in Nat /\ q \in 0..o-1
        BY <1>1
      <4> QED
        BY <4>1
    <3>2. Header(o) \in Nat /\ v # Header(o) /\ Header(o) <= v /\ v \in Nat
      BY <1>1, <1>2, <2>1, <3>1
    <3>3. Header(o) \in Nat /\ v > Header(o)
      BY <3>2
    <3> QED
      BY <1>2, <3>1, <3>3
  <2>3. v <= Header(o + 1)
    BY <1>1, <1>2
  <2> QED
    BY <1>1, <1>4, <1>5, <2>2, <2>3
<1>6. CASE StartsLaterPage(v)
  <2>1. PICK p \in Pages \ {0} : v = Header(p)
    BY <1>6 DEF StartsLaterPage
  <2>2. p = o
    BY <2>1, VarPage, HeaderOrder, Numbers DEF InPage, Pages
  <2>3. o - 1 \in Pages /\ o - 1 \in Nat /\ (o - 1) + 1 = o /\ v = Header(o)
    BY <1>1, <2>1, <2>2, Numbers DEF Pages
  <2>4. Found(o - 1)
    BY <1>1, <1>2, <2>3
  <2>5. Header(o) = Header(o - 1) + PAG_SIZE
    BY <2>3, HeaderOrder
  <2> QED
    BY <1>4, <1>6, <2>3, <2>4, <2>5
<1> QED
  BY <1>5, <1>6

\* What a boot starts with is of its type.
LEMMA Types ==
    /\ NoPages \in PageLists
    /\ [o \in Offsets |-> InitValue] \in [Offsets -> Value]
    /\ AnyVar \in Var /\ InitValue \in Value
    /\ BIGEN_ROM \in Headers
<1>1. NoPages \in PageLists
  BY DEF NoPages, PageLists
<1>2. AnyVar \in Var
  BY PageAssumption DEF AnyVar
<1>3. BIGEN_ROM \in Headers
  BY Numbers DEF Headers, Header, Pages
<1> QED
  BY <1>1, <1>2, <1>3, PageAssumption

\* Transfers keep the pages within their types.
LEMMA RamOfType ==
    ASSUME NEW store \in [Var -> Value], NEW header
    PROVE  RamOf(store, header) \in [Offsets -> Value]
BY PageAssumption DEF RamOf

\* The page in RAM, written over its place in the buffer.
LEMMA PageFromType ==
    ASSUME TypeOK
    PROVE  PageFrom(temp, CrntPagHeader) \in [Var -> Value]
<1>1. ASSUME NEW v \in Var, InPage(v, CrntPagHeader) PROVE ram[v - CrntPagHeader] \in Value
  BY <1>1, VarOffset DEF TypeOK, Headers
<1> QED
  BY <1>1 DEF TypeOK, PageFrom

\* What __sendPagTemp() writes.
LEMMA SendType ==
    ASSUME TypeOK, SendPagTemp
    PROVE  temp' \in [Var -> Value] /\ pagsInTemp' \in PageLists
<1>1. PICK p \in Pages : CrntPagHeader = Header(p)
  BY DEF TypeOK, Headers
<1>2. pagsInTemp' = [pagsInTemp EXCEPT ![p] = Header(p)]
  BY <1>1, HeaderIndex DEF SendPagTemp
<1> QED
  BY <1>1, <1>2, PageFromType DEF SendPagTemp, TypeOK, PageLists

\* A transfer that was cut short.
LEMMA TornType ==
    ASSUME NEW m \in [Var -> Value], NEW full \in [Var -> Value], NEW header, NEW n
    PROVE  Torn(m, full, header, n) \in [Var -> Value]
BY DEF Torn

\* A boot finds the non-volatile variables as they were.
LEMMA RebootType ==
    ASSUME TypeOK, Reboot, rom' \in [Var -> Value], temp' \in [Var -> Value]
    PROVE  TypeOK'
<1>1. /\ pagsInTemp' \in PageLists /\ ram' \in [Offsets -> Value] /\ CrntPagHeader' \in Headers
      /\ req' \in Var /\ reg' \in Value
  BY Types DEF Reboot, NoPages
<1>2. i' = 0 /\ cnt' = 0 /\ v_task_index' = 0 /\ goToCommit' = FALSE
  BY DEF Reboot
<1>3. i' \in 0..NumInitTasks-1 /\ cnt' \in Pages /\ v_task_index' \in Tasks
  BY <1>2, Numbers DEF Pages, Tasks
<1> QED
  BY <1>1, <1>2, <1>3 DEF TypeOK, Reboot, flags, indexes, jumps


\* Every step leaves every variable in its range.
LEMMA TypeStep ==
    ASSUME IInv, [Next]_vars
    PROVE  TypeOK'
<1> USE DEF IInv, memory, flags, indexes, jumps, pages, counters, scheduler, access, requests, history
<1>1. CASE AddTasks
  BY <1>1, Types, Numbers DEF AddTasks, TypeOK, Tasks, Pages
<1>2. CASE Block
  BY <1>2, Types, Numbers DEF Block, Goto, TypeOK, Tasks, Pages
<1>3. CASE InitTasks
  BY <1>3, Types, Numbers DEF InitTasks, TypeOK, Tasks, Pages
<1>4. CASE RunInitTask
  BY <1>4, Types, Numbers DEF RunInitTask, TypeOK, Tasks, Pages
<1>5. CASE SetInitFlag
  BY <1>5, Types, Numbers DEF SetInitFlag, Goto, TypeOK, Tasks, Pages
<1>6. CASE InitCommit
  BY <1>6, Types, Numbers DEF InitCommit, PagsCommit, TypeOK, Tasks, Pages
<1>7. CASE ResetInitFlag
  <2>1. i' \in 0..NumInitTasks-1
    <3>1. i \in 0..NumInitTasks-1 /\ (i' = 0 \/ (i + 1 # NumInitTasks /\ i' = i + 1))
      BY <1>7 DEF ResetInitFlag, LastInitTask, TypeOK
    <3> QED
      BY <3>1, Numbers
  <2> QED
    BY <1>7, <2>1 DEF ResetInitFlag, TypeOK
<1>8. CASE Lock
  BY <1>8, Types, Numbers DEF Lock, Goto, TypeOK, Tasks, Pages
<1>9. CASE Schedule
  BY <1>9, Types, Numbers DEF Schedule, TypeOK, Tasks, Pages
<1>10. CASE BringCrntPagROM
  <2>1. ram' \in [Offsets -> Value]
    BY <1>10, RamOfType DEF BringCrntPagROM, TypeOK
  <2> QED
    BY <1>10, <2>1 DEF BringCrntPagROM, Goto, TypeOK
<1>11. ASSUME NEW v \in Var, Read(v) PROVE TypeOK'
  <2>1. v - CrntPagHeader \in Offsets
    BY <1>11, VarOffset DEF Read, Reach, TypeOK, Headers
  <2> QED
    BY <1>11, <2>1 DEF Read, TypeOK
<1>12. ASSUME NEW v \in Var, NEW x \in Value, Write(v, x) PROVE TypeOK'
  BY <1>12, Types, Numbers DEF Write, Reach, TypeOK, Tasks, Pages
<1>13. ASSUME NEW v \in Var, SwapOut(v) PROVE TypeOK'
  BY <1>13, SendType DEF SwapOut, Goto, TypeOK
<1>14. CASE SwapIn
  <2> DEFINE p == RequestedPage(req)
  <2>1. p \in Pages
    BY Search DEF TypeOK
  <2>2. RamOf(Source(p), Header(p)) \in [Offsets -> Value]
    BY RamOfType DEF TypeOK, Source
  <2> HIDE DEF p
  <2>3. Header(p) \in Headers
    BY <2>1 DEF Headers
  <2> QED
    BY <1>14, <2>2, <2>3 DEF SwapIn, Goto, TypeOK, p
<1>15. CASE AccessBeyond
  BY <1>15, Types, Numbers DEF AccessBeyond, Goto, TypeOK, Tasks, Pages
<1>16. ASSUME NEW j \in Jumps, SetJump(j) PROVE TypeOK'
  BY <1>16, Types, Numbers DEF SetJump, Goto, TypeOK, Tasks, Pages
<1>17. CASE SetJumpTo
  BY <1>17, Types, Numbers DEF SetJumpTo, Goto, TypeOK, IndexInv, Tasks, Pages
<1>18. CASE Return
  BY <1>18, Types, Numbers DEF Return, Goto, TypeOK, Tasks, Pages
<1>19. CASE JUMP
  <2> DEFINE d == IF jump = 1 THEN jump_to ELSE 1
  <2>1. d \in Nat
    BY PageAssumption DEF TypeOK
  <2>2. (v_task_index + d) % NumTasks \in Tasks
    BY <2>1, Numbers DEF TypeOK, Tasks
  <2> QED
    BY <1>19, <2>2 DEF JUMP, Goto, TypeOK
<1>20. CASE SetTempIndex
  BY <1>20, Types, Numbers DEF SetTempIndex, Goto, TypeOK, Tasks, Pages
<1>21. CASE SendLastPage
  BY <1>21, SendType DEF SendLastPage, Goto, TypeOK
<1>22. CASE Persist
  <2>1. persis_pagsInTemp' \in PageLists
    BY <1>22 DEF Persist, TypeOK, PageLists
  <2> QED
    BY <1>22, <2>1, Numbers DEF Persist, TypeOK, Pages
<1>23. CASE PersistHeader
  BY <1>23, Types, Numbers DEF PersistHeader, Goto, TypeOK, Tasks, Pages
<1>24. CASE SetFlag
  BY <1>24, Types, Numbers DEF SetFlag, Goto, TypeOK, Tasks, Pages
<1>25. CASE SetIndex
  BY <1>25, Types, Numbers DEF SetIndex, Goto, TypeOK, Tasks, Pages
<1>26. CASE Commit
  BY <1>26, Types, Numbers DEF Commit, PagsCommit, TypeOK, Tasks, Pages
<1>27. CASE ResetFlag
  BY <1>27, Types, Numbers DEF ResetFlag, TypeOK, Tasks, Pages
<1>28. CASE PowerFail
  BY <1>28, RebootType DEF PowerFail, TypeOK
<1>29. CASE TornSend
  BY <1>29, RebootType, TornType, PageFromType DEF TornSend, TypeOK
<1>30. CASE TornCommit
  BY <1>30, RebootType, TornType DEF TornCommit, TypeOK
<1>31. CASE UNCHANGED vars
  BY <1>31 DEF vars, TypeOK, Tasks, Pages
<1> QED
  BY <1>1, <1>2, <1>3, <1>4, <1>5, <1>6, <1>7, <1>8, <1>9, <1>10, <1>11, <1>12, <1>13, <1>14, <1>15, <1>16, <1>17, <1>18, <1>19, <1>20, <1>21, <1>22, <1>23, <1>24, <1>25, <1>26, <1>27, <1>28, <1>29, <1>30, <1>31 DEF Next

\* The scheduler: which parts run when, what they have done, and the flags that
\* tell them after a power failure.
LEMMA ControlStep ==
    ASSUME IInv, [Next]_vars
    PROVE  BootInv' /\ RanInv' /\ FlagInv'
<1> USE DEF IInv, memory, flags, indexes, jumps, pages, counters, scheduler, access, requests, history
<1>1. CASE AddTasks
  BY <1>1, Numbers DEF AddTasks, TypeOK, BootInv, RanInv, FlagInv, Booting, Initialising, Committing, InTask, NoPages
<1>2. CASE Block
  BY <1>2, Numbers DEF Block, Goto, TypeOK, BootInv, RanInv, FlagInv, Booting, Initialising, Committing, InTask, NoPages
<1>3. CASE InitTasks
  BY <1>3, Numbers DEF InitTasks, TypeOK, BootInv, RanInv, FlagInv, Booting, Initialising, Committing, InTask, NoPages
<1>4. CASE RunInitTask
  BY <1>4, Numbers DEF RunInitTask, TypeOK, BootInv, RanInv, FlagInv, Booting, Initialising, Committing, InTask, NoPages
<1>5. CASE SetInitFlag
  BY <1>5, Numbers DEF SetInitFlag, Goto, TypeOK, BootInv, RanInv, FlagInv, Booting, Initialising, Committing, InTask, NoPages
<1>6. CASE InitCommit
  BY <1>6, Numbers DEF InitCommit, PagsCommit, TypeOK, BootInv, RanInv, FlagInv, Booting, Initialising, Committing, InTask, NoPages
<1>7. CASE ResetInitFlag
  <2>1. i \in Nat /\ NumInitTasks \in Nat /\ ~locker /\ 0..i \subseteq ran /\ ran \subseteq 0..NumInitTasks-1
    BY <1>7, Numbers DEF ResetInitFlag, TypeOK, BootInv, RanInv, Initialising
  <2>2. BootInv' /\ FlagInv'
    BY <1>7, <2>1 DEF ResetInitFlag, BootInv, FlagInv, Booting, Initialising, Committing, InTask, NoPages
  <2>3. CASE LastInitTask
    <3>1. 0..i = 0..NumInitTasks-1
      BY <2>1, <2>3 DEF LastInitTask
    <3>2. ran = 0..NumInitTasks-1 /\ pc' = "lock" /\ ~commit_flag' /\ ran' = ran /\ i' = 0
      BY <1>7, <2>1, <2>3, <3>1 DEF ResetInitFlag
    <3> QED
      BY <1>7, <2>1, <2>2, <3>2 DEF ResetInitFlag, RanInv, Booting, Initialising
  <2>4. CASE ~LastInitTask
    <3>1. /\ pc' = "init" /\ ~commit_flag' /\ ran' = ran /\ i' = i + 1
          /\ 0..i'-1 \subseteq ran
      BY <1>7, <2>1, <2>4 DEF ResetInitFlag
    <3> QED
      BY <1>7, <2>1, <2>2, <3>1 DEF ResetInitFlag, RanInv, Booting, Initialising
  <2> QED
    BY <2>3, <2>4
<1>8. CASE Lock
  BY <1>8, Numbers DEF Lock, Goto, TypeOK, BootInv, RanInv, FlagInv, Booting, Initialising, Committing, InTask, NoPages
<1>9. CASE Schedule
  BY <1>9, Numbers DEF Schedule, TypeOK, BootInv, RanInv, FlagInv, Booting, Initialising, Committing, InTask, NoPages
<1>10. CASE BringCrntPagROM
  BY <1>10, Numbers DEF BringCrntPagROM, Goto, TypeOK, BootInv, RanInv, FlagInv, Booting, Initialising, Committing, InTask, NoPages
<1>11. ASSUME NEW v \in Var, Read(v) PROVE BootInv' /\ RanInv' /\ FlagInv'
  BY <1>11, Numbers DEF Read, Reach, TypeOK, BootInv, RanInv, FlagInv, Booting, Initialising, Committing, InTask, NoPages
<1>12. ASSUME NEW v \in Var, NEW x \in Value, Write(v, x) PROVE BootInv' /\ RanInv' /\ FlagInv'
  BY <1>12, Numbers DEF Write, Reach, TypeOK, BootInv, RanInv, FlagInv, Booting, Initialising, Committing, InTask, NoPages
<1>13. ASSUME NEW v \in Var, SwapOut(v) PROVE BootInv' /\ RanInv' /\ FlagInv'
  BY <1>13, Numbers DEF SwapOut, Goto, TypeOK, BootInv, RanInv, FlagInv, Booting, Initialising, Committing, InTask, NoPages
<1>14. CASE SwapIn
  BY <1>14, Numbers DEF SwapIn, Goto, TypeOK, BootInv, RanInv, FlagInv, Booting, Initialising, Committing, InTask, NoPages
<1>15. CASE AccessBeyond
  BY <1>15, Numbers DEF AccessBeyond, Goto, TypeOK, BootInv, RanInv, FlagInv, Booting, Initialising, Committing, InTask, NoPages
<1>16. ASSUME NEW j \in Jumps, SetJump(j) PROVE BootInv' /\ RanInv' /\ FlagInv'
  BY <1>16, Numbers DEF SetJump, Goto, TypeOK, BootInv, RanInv, FlagInv, Booting, Initialising, Committing, InTask, NoPages
<1>17. CASE SetJumpTo
  BY <1>17, Numbers DEF SetJumpTo, Goto, TypeOK, BootInv, RanInv, FlagInv, Booting, Initialising, Committing, InTask, NoPages
<1>18. CASE Return
  BY <1>18, Numbers DEF Return, Goto, TypeOK, BootInv, RanInv, FlagInv, Booting, Initialising, Committing, InTask, NoPages
<1>19. CASE JUMP
  BY <1>19, Numbers DEF JUMP, Goto, TypeOK, BootInv, RanInv, FlagInv, Booting, Initialising, Committing, InTask, NoPages
<1>20. CASE SetTempIndex
  BY <1>20, Numbers DEF SetTempIndex, Goto, TypeOK, BootInv, RanInv, FlagInv, Booting, Initialising, Committing, InTask, NoPages
<1>21. CASE SendLastPage
  BY <1>21, Numbers DEF SendLastPage, Goto, TypeOK, BootInv, RanInv, FlagInv, Booting, Initialising, Committing, InTask, NoPages
<1>22. CASE Persist
  BY <1>22, Numbers DEF Persist, TypeOK, BootInv, RanInv, FlagInv, Booting, Initialising, Committing, InTask, NoPages
<1>23. CASE PersistHeader
  BY <1>23, Numbers DEF PersistHeader, Goto, TypeOK, BootInv, RanInv, FlagInv, Booting, Initialising, Committing, InTask, NoPages
<1>24. CASE SetFlag
  BY <1>24, Numbers DEF SetFlag, Goto, TypeOK, BootInv, RanInv, FlagInv, Booting, Initialising, Committing, InTask, NoPages
<1>25. CASE SetIndex
  BY <1>25, Numbers DEF SetIndex, Goto, TypeOK, BootInv, RanInv, FlagInv, Booting, Initialising, Committing, InTask, NoPages
<1>26. CASE Commit
  BY <1>26, Numbers DEF Commit, PagsCommit, TypeOK, BootInv, RanInv, FlagInv, Booting, Initialising, Committing, InTask, NoPages
<1>27. CASE ResetFlag
  BY <1>27, Numbers DEF ResetFlag, TypeOK, BootInv, RanInv, FlagInv, Booting, Initialising, Committing, InTask, NoPages
<1>28. CASE PowerFail
  BY <1>28, Numbers DEF PowerFail, Reboot, TypeOK, BootInv, RanInv, FlagInv, Booting, Initialising, Committing, InTask, NoPages
<1>29. CASE TornSend
  BY <1>29, Numbers DEF TornSend, Reboot, TypeOK, BootInv, RanInv, FlagInv, Booting, Initialising, Committing, InTask, NoPages
<1>30. CASE TornCommit
  BY <1>30, Numbers DEF TornCommit, Reboot, TypeOK, BootInv, RanInv, FlagInv, Booting, Initialising, Committing, InTask, NoPages
<1>31. CASE UNCHANGED vars
  BY <1>31 DEF vars, TypeOK, BootInv, RanInv, FlagInv, Booting, Initialising, Committing, InTask, NoPages
<1> QED
  BY <1>1, <1>2, <1>3, <1>4, <1>5, <1>6, <1>7, <1>8, <1>9, <1>10, <1>11, <1>12, <1>13, <1>14, <1>15, <1>16, <1>17, <1>18, <1>19, <1>20, <1>21, <1>22, <1>23, <1>24, <1>25, <1>26, <1>27, <1>28, <1>29, <1>30, <1>31 DEF Next

\* The indexes of the scheduler.
LEMMA IndexStep ==
    ASSUME IInv, [Next]_vars
    PROVE  IndexInv'
<1> USE DEF IInv, memory, flags, indexes, jumps, pages, counters, scheduler, access, requests, history
<1>1. CASE AddTasks
  BY <1>1, Numbers DEF AddTasks, TypeOK, IndexInv, NextIndexes, TaskAfter, FlagInv, Committing, InTask
<1>2. CASE Block
  BY <1>2, Numbers DEF Block, Goto, TypeOK, IndexInv, NextIndexes, TaskAfter, FlagInv, Committing, InTask
<1>3. CASE InitTasks
  BY <1>3, Numbers DEF InitTasks, TypeOK, IndexInv, NextIndexes, TaskAfter, FlagInv, Committing, InTask
<1>4. CASE RunInitTask
  BY <1>4, Numbers DEF RunInitTask, TypeOK, IndexInv, NextIndexes, TaskAfter, FlagInv, Committing, InTask
<1>5. CASE SetInitFlag
  BY <1>5, Numbers DEF SetInitFlag, Goto, TypeOK, IndexInv, NextIndexes, TaskAfter, FlagInv, Committing, InTask
<1>6. CASE InitCommit
  BY <1>6, Numbers DEF InitCommit, PagsCommit, TypeOK, IndexInv, NextIndexes, TaskAfter, FlagInv, Committing, InTask
<1>7. CASE ResetInitFlag
  BY <1>7, Numbers DEF ResetInitFlag, TypeOK, IndexInv, NextIndexes, TaskAfter, FlagInv, Committing, InTask
<1>8. CASE Lock
  BY <1>8, Numbers DEF Lock, Goto, TypeOK, IndexInv, NextIndexes, TaskAfter, FlagInv, Committing, InTask
<1>9. CASE Schedule
  BY <1>9, Numbers DEF Schedule, TypeOK, IndexInv, NextIndexes, TaskAfter, FlagInv, Committing, InTask
<1>10. CASE BringCrntPagROM
  BY <1>10, Numbers DEF BringCrntPagROM, Goto, TypeOK, IndexInv, NextIndexes, TaskAfter, FlagInv, Committing, InTask
<1>11. ASSUME NEW v \in Var, Read(v) PROVE IndexInv'
  BY <1>11, Numbers DEF Read, Reach, TypeOK, IndexInv, NextIndexes, TaskAfter, FlagInv, Committing, InTask
<1>12. ASSUME NEW v \in Var, NEW x \in Value, Write(v, x) PROVE IndexInv'
  BY <1>12, Numbers DEF Write, Reach, TypeOK, IndexInv, NextIndexes, TaskAfter, FlagInv, Committing, InTask
<1>13. ASSUME NEW v \in Var, SwapOut(v) PROVE IndexInv'
  BY <1>13, Numbers DEF SwapOut, Goto, TypeOK, IndexInv, NextIndexes, TaskAfter, FlagInv, Committing, InTask
<1>14. CASE SwapIn
  BY <1>14, Numbers DEF SwapIn, Goto, TypeOK, IndexInv, NextIndexes, TaskAfter, FlagInv, Committing, InTask
<1>15. CASE AccessBeyond
  BY <1>15, Numbers DEF AccessBeyond, Goto, TypeOK, IndexInv, NextIndexes, TaskAfter, FlagInv, Committing, InTask
<1>16. ASSUME NEW j \in Jumps, SetJump(j) PROVE IndexInv'
  <2>1. j # NotAsked
    BY PageAssumption DEF NotAsked
  <2> QED
    BY <1>16, <2>1 DEF SetJump, Goto, IndexInv, InTask
<1>17. CASE SetJumpTo
  BY <1>17, Numbers DEF SetJumpTo, Goto, TypeOK, IndexInv, NextIndexes, TaskAfter, FlagInv, Committing, InTask
<1>18. CASE Return
  BY <1>18, Numbers DEF Return, Goto, TypeOK, IndexInv, NextIndexes, TaskAfter, FlagInv, Committing, InTask
<1>19. CASE JUMP
  BY <1>19, Numbers DEF JUMP, Goto, TypeOK, IndexInv, NextIndexes, TaskAfter, FlagInv, Committing, InTask
<1>20. CASE SetTempIndex
  BY <1>20, Numbers DEF SetTempIndex, Goto, TypeOK, IndexInv, NextIndexes, TaskAfter, FlagInv, Committing, InTask
<1>21. CASE SendLastPage
  BY <1>21, Numbers DEF SendLastPage, Goto, TypeOK, IndexInv, NextIndexes, TaskAfter, FlagInv, Committing, InTask
<1>22. CASE Persist
  BY <1>22, Numbers DEF Persist, TypeOK, IndexInv, NextIndexes, TaskAfter, FlagInv, Committing, InTask
<1>23. CASE PersistHeader
  BY <1>23, Numbers DEF PersistHeader, Goto, TypeOK, IndexInv, NextIndexes, TaskAfter, FlagInv, Committing, InTask
<1>24. CASE SetFlag
  BY <1>24, Numbers DEF SetFlag, Goto, TypeOK, IndexInv, NextIndexes, TaskAfter, FlagInv, Committing, InTask
<1>25. CASE SetIndex
  BY <1>25, Numbers DEF SetIndex, Goto, TypeOK, IndexInv, NextIndexes, TaskAfter, FlagInv, Committing, InTask
<1>26. CASE Commit
  BY <1>26, Numbers DEF Commit, PagsCommit, TypeOK, IndexInv, NextIndexes, TaskAfter, FlagInv, Committing, InTask
<1>27. CASE ResetFlag
  BY <1>27, Numbers DEF ResetFlag, TypeOK, IndexInv, NextIndexes, TaskAfter, FlagInv, Committing, InTask
<1>28. CASE PowerFail
  BY <1>28, Numbers DEF PowerFail, Reboot, TypeOK, IndexInv, NextIndexes, TaskAfter, FlagInv, Committing, InTask
<1>29. CASE TornSend
  BY <1>29, Numbers DEF TornSend, Reboot, TypeOK, IndexInv, NextIndexes, TaskAfter, FlagInv, Committing, InTask
<1>30. CASE TornCommit
  BY <1>30, Numbers DEF TornCommit, Reboot, TypeOK, IndexInv, NextIndexes, TaskAfter, FlagInv, Committing, InTask
<1>31. CASE UNCHANGED vars
  BY <1>31 DEF vars, TypeOK, IndexInv, NextIndexes, TaskAfter, FlagInv, Committing, InTask
<1> QED
  BY <1>1, <1>2, <1>3, <1>4, <1>5, <1>6, <1>7, <1>8, <1>9, <1>10, <1>11, <1>12, <1>13, <1>14, <1>15, <1>16, <1>17, <1>18, <1>19, <1>20, <1>21, <1>22, <1>23, <1>24, <1>25, <1>26, <1>27, <1>28, <1>29, <1>30, <1>31 DEF Next
-----------------------------------------------------------------------------
\* A transfer to the buffer leaves the page in both places, and the other
\* pages as they are.
LEMMA Sending ==
    ASSUME TypeOK, SendPagTemp
    PROVE  /\ pagsInTemp'[(CrntPagHeader - BIGEN_ROM) \div PAG_SIZE] = CrntPagHeader
           /\ \A v \in Var : InPage(v, CrntPagHeader) =>
                 /\ temp'[v] = ram[v - CrntPagHeader]
                 /\ pagsInTemp'[PageOf(v)] = Header(PageOf(v))
           /\ \A v \in Var : ~InPage(v, CrntPagHeader) =>
                 temp'[v] = temp[v] /\ pagsInTemp'[PageOf(v)] = pagsInTemp[PageOf(v)]
<1>1. PICK p \in Pages : CrntPagHeader = Header(p)
  BY DEF TypeOK, Headers
<1>2. (CrntPagHeader - BIGEN_ROM) \div PAG_SIZE = p
  BY <1>1, HeaderIndex
<1>3. pagsInTemp' = [pagsInTemp EXCEPT ![p] = CrntPagHeader] /\ pagsInTemp \in [Pages -> Headers \cup {0}]
  BY <1>2 DEF SendPagTemp, TypeOK, PageLists
<1>4. \A v \in Var : PageOf(v) \in Pages /\ (InPage(v, CrntPagHeader) <=> p = PageOf(v))
  BY <1>1, VarPage
<1>5. \A v \in Var : temp'[v] = IF InPage(v, CrntPagHeader) THEN ram[v - CrntPagHeader] ELSE temp[v]
  BY DEF SendPagTemp, PageFrom
<1> QED
  BY <1>1, <1>2, <1>3, <1>4, <1>5

\* The buffer and its lists.
LEMMA PagesStep ==
    ASSUME IInv, [Next]_vars
    PROVE  PagesInv'
<1> USE DEF IInv, memory, flags, indexes, jumps, pages, counters, scheduler, access, requests, history
<1>1. CASE AddTasks
  BY <1>1, Numbers DEF AddTasks, TypeOK, PagesInv, BootInv, FlagInv, Booting, Initialising, Committing, InTask, Sent, InPage
<1>2. CASE Block
  BY <1>2, Numbers DEF Block, Goto, TypeOK, PagesInv, BootInv, FlagInv, Booting, Initialising, Committing, InTask, Sent, InPage
<1>3. CASE InitTasks
  BY <1>3, Numbers DEF InitTasks, TypeOK, PagesInv, BootInv, FlagInv, Booting, Initialising, Committing, InTask, Sent, InPage
<1>4. CASE RunInitTask
  BY <1>4, Numbers DEF RunInitTask, TypeOK, PagesInv, BootInv, FlagInv, Booting, Initialising, Committing, InTask, Sent, InPage
<1>5. CASE SetInitFlag
  BY <1>5, Numbers DEF SetInitFlag, Goto, TypeOK, PagesInv, BootInv, FlagInv, Booting, Initialising, Committing, InTask, Sent, InPage
<1>6. CASE InitCommit
  BY <1>6, Numbers DEF InitCommit, PagsCommit, TypeOK, PagesInv, BootInv, FlagInv, Booting, Initialising, Committing, InTask, Sent, InPage
<1>7. CASE ResetInitFlag
  <2>1. pc' \in {"lock", "init"}
    BY <1>7 DEF ResetInitFlag
  <2> QED
    BY <1>7, <2>1 DEF ResetInitFlag, PagesInv, InTask, Committing
<1>8. CASE Lock
  BY <1>8, Numbers DEF Lock, Goto, TypeOK, PagesInv, BootInv, FlagInv, Booting, Initialising, Committing, InTask, Sent, InPage
<1>9. CASE Schedule
  BY <1>9, Numbers DEF Schedule, TypeOK, PagesInv, BootInv, FlagInv, Booting, Initialising, Committing, InTask, Sent, InPage
<1>10. CASE BringCrntPagROM
  BY <1>10, Numbers DEF BringCrntPagROM, Goto, TypeOK, PagesInv, BootInv, FlagInv, Booting, Initialising, Committing, InTask, Sent, InPage
<1>11. ASSUME NEW v \in Var, Read(v) PROVE PagesInv'
  BY <1>11, Numbers DEF Read, Reach, TypeOK, PagesInv, BootInv, FlagInv, Booting, Initialising, Committing, InTask, Sent, InPage
<1>12. ASSUME NEW v \in Var, NEW x \in Value, Write(v, x) PROVE PagesInv'
  BY <1>12, Numbers DEF Write, Reach, TypeOK, PagesInv, BootInv, FlagInv, Booting, Initialising, Committing, InTask, Sent, InPage
<1>13. ASSUME NEW v \in Var, SwapOut(v) PROVE PagesInv'
  <2>1. Sent'
    BY <1>13, Sending DEF SwapOut, Sent, InPage
  <2> QED
    BY <1>13, <2>1 DEF SwapOut, Goto, PagesInv, Committing, InTask
<1>14. CASE SwapIn
  BY <1>14, Numbers DEF SwapIn, Goto, TypeOK, PagesInv, BootInv, FlagInv, Booting, Initialising, Committing, InTask, Sent, InPage
<1>15. CASE AccessBeyond
  BY <1>15, Numbers DEF AccessBeyond, Goto, TypeOK, PagesInv, BootInv, FlagInv, Booting, Initialising, Committing, InTask, Sent, InPage
<1>16. ASSUME NEW j \in Jumps, SetJump(j) PROVE PagesInv'
  BY <1>16, Numbers DEF SetJump, Goto, TypeOK, PagesInv, BootInv, FlagInv, Booting, Initialising, Committing, InTask, Sent, InPage
<1>17. CASE SetJumpTo
  BY <1>17, Numbers DEF SetJumpTo, Goto, TypeOK, PagesInv, BootInv, FlagInv, Booting, Initialising, Committing, InTask, Sent, InPage
<1>18. CASE Return
  BY <1>18, Numbers DEF Return, Goto, TypeOK, PagesInv, BootInv, FlagInv, Booting, Initialising, Committing, InTask, Sent, InPage
<1>19. CASE JUMP
  BY <1>19, Numbers DEF JUMP, Goto, TypeOK, PagesInv, BootInv, FlagInv, Booting, Initialising, Committing, InTask, Sent, InPage
<1>20. CASE SetTempIndex
  BY <1>20, Numbers DEF SetTempIndex, Goto, TypeOK, PagesInv, BootInv, FlagInv, Booting, Initialising, Committing, InTask, Sent, InPage
<1>21. CASE SendLastPage
  <2>1. Sent'
    BY <1>21, Sending DEF SendLastPage, Sent, InPage
  <2> QED
    BY <1>21, <2>1 DEF SendLastPage, Goto, PagesInv, Committing, InTask
<1>22. CASE Persist
  <2>1. Sent'
    BY <1>22 DEF Persist, PagesInv, Sent, InPage
  <2>2. /\ cnt \in Nat /\ cnt < NUM_PAG /\ NUM_PAG \in Nat
        /\ persis_pagsInTemp \in [Pages -> Headers \cup {0}] /\ pagsInTemp \in [Pages -> Headers \cup {0}]
    BY Numbers DEF TypeOK, Pages, PageLists
  <2>3. \A p \in 0..cnt : persis_pagsInTemp'[p] = pagsInTemp[p]
    BY <1>22, <2>2 DEF Persist, PagesInv, Pages
  <2>4. CASE cnt + 1 < NUM_PAG
    BY <1>22, <2>1, <2>2, <2>3, <2>4 DEF Persist, PagesInv, Committing, InTask
  <2>5. CASE ~(cnt + 1 < NUM_PAG)
    <3>1. 0..cnt = Pages /\ persis_pagsInTemp' \in [Pages -> Headers \cup {0}]
      BY <1>22, <2>2, <2>5 DEF Persist, Pages
    <3>2. persis_pagsInTemp' = pagsInTemp
      BY <2>2, <2>3, <3>1
    <3> QED
      BY <1>22, <2>1, <2>5, <3>2 DEF Persist, PagesInv, Committing, InTask
  <2> QED
    BY <2>4, <2>5
<1>23. CASE PersistHeader
  BY <1>23, Numbers DEF PersistHeader, Goto, TypeOK, PagesInv, BootInv, FlagInv, Booting, Initialising, Committing, InTask, Sent, InPage
<1>24. CASE SetFlag
  BY <1>24, Numbers DEF SetFlag, Goto, TypeOK, PagesInv, BootInv, FlagInv, Booting, Initialising, Committing, InTask, Sent, InPage
<1>25. CASE SetIndex
  BY <1>25, Numbers DEF SetIndex, Goto, TypeOK, PagesInv, BootInv, FlagInv, Booting, Initialising, Committing, InTask, Sent, InPage
<1>26. CASE Commit
  BY <1>26, Numbers DEF Commit, PagsCommit, TypeOK, PagesInv, BootInv, FlagInv, Booting, Initialising, Committing, InTask, Sent, InPage
<1>27. CASE ResetFlag
  BY <1>27, Numbers DEF ResetFlag, TypeOK, PagesInv, BootInv, FlagInv, Booting, Initialising, Committing, InTask, Sent, InPage
<1>28. CASE PowerFail
  BY <1>28 DEF PowerFail, Reboot, PagesInv, NoPages, InTask, Committing
<1>29. CASE TornSend
  BY <1>29 DEF TornSend, Reboot, PagesInv, NoPages, InTask, Committing
<1>30. CASE TornCommit
  BY <1>30 DEF TornCommit, Reboot, PagesInv, NoPages, InTask, Committing
<1>31. CASE UNCHANGED vars
  BY <1>31 DEF vars, TypeOK, PagesInv, BootInv, FlagInv, Booting, Initialising, Committing, InTask, Sent, InPage
<1> QED
  BY <1>1, <1>2, <1>3, <1>4, <1>5, <1>6, <1>7, <1>8, <1>9, <1>10, <1>11, <1>12, <1>13, <1>14, <1>15, <1>16, <1>17, <1>18, <1>19, <1>20, <1>21, <1>22, <1>23, <1>24, <1>25, <1>26, <1>27, <1>28, <1>29, <1>30, <1>31 DEF Next

\* The pages a commit has copied.
LEMMA CopiedStep ==
    ASSUME IInv, [Next]_vars
    PROVE  CopiedInv'
<1> USE DEF IInv, memory, flags, indexes, jumps, pages, counters, scheduler, access, requests, history
<1>1. CASE AddTasks
  BY <1>1 DEF AddTasks, TypeOK, CopiedInv, PageOf
<1>2. CASE Block
  BY <1>2 DEF Block, Goto, TypeOK, CopiedInv, PageOf
<1>3. CASE InitTasks
  BY <1>3 DEF InitTasks, TypeOK, CopiedInv, PageOf
<1>4. CASE RunInitTask
  BY <1>4 DEF RunInitTask, TypeOK, CopiedInv, PageOf
<1>5. CASE SetInitFlag
  BY <1>5 DEF SetInitFlag, Goto, TypeOK, CopiedInv, PageOf
<1>6. CASE InitCommit
  BY <1>6 DEF InitCommit, PagsCommit, TypeOK, CopiedInv, PageOf
<1>7. CASE ResetInitFlag
  BY <1>7 DEF ResetInitFlag, TypeOK, CopiedInv, PageOf
<1>8. CASE Lock
  BY <1>8 DEF Lock, Goto, TypeOK, CopiedInv, PageOf
<1>9. CASE Schedule
  BY <1>9 DEF Schedule, TypeOK, CopiedInv, PageOf
<1>10. CASE BringCrntPagROM
  BY <1>10 DEF BringCrntPagROM, Goto, TypeOK, CopiedInv, PageOf
<1>11. ASSUME NEW v \in Var, Read(v) PROVE CopiedInv'
  BY <1>11 DEF Read, Reach, TypeOK, CopiedInv, PageOf
<1>12. ASSUME NEW v \in Var, NEW x \in Value, Write(v, x) PROVE CopiedInv'
  BY <1>12 DEF Write, Reach, TypeOK, CopiedInv, PageOf
<1>13. ASSUME NEW v \in Var, SwapOut(v) PROVE CopiedInv'
  BY <1>13 DEF SwapOut, Goto, TypeOK, CopiedInv, PageOf
<1>14. CASE SwapIn
  BY <1>14 DEF SwapIn, Goto, TypeOK, CopiedInv, PageOf
<1>15. CASE AccessBeyond
  BY <1>15 DEF AccessBeyond, Goto, TypeOK, CopiedInv, PageOf
<1>16. ASSUME NEW j \in Jumps, SetJump(j) PROVE CopiedInv'
  BY <1>16 DEF SetJump, Goto, TypeOK, CopiedInv, PageOf
<1>17. CASE SetJumpTo
  BY <1>17 DEF SetJumpTo, Goto, TypeOK, CopiedInv, PageOf
<1>18. CASE Return
  BY <1>18 DEF Return, Goto, TypeOK, CopiedInv, PageOf
<1>19. CASE JUMP
  BY <1>19 DEF JUMP, Goto, TypeOK, CopiedInv, PageOf
<1>20. CASE SetTempIndex
  BY <1>20 DEF SetTempIndex, Goto, TypeOK, CopiedInv, PageOf
<1>21. CASE SendLastPage
  BY <1>21 DEF SendLastPage, Goto, TypeOK, CopiedInv, PageOf
<1>22. CASE Persist
  BY <1>22 DEF Persist, TypeOK, CopiedInv, PageOf
<1>23. CASE PersistHeader
  BY <1>23 DEF PersistHeader, Goto, TypeOK, CopiedInv, PageOf
<1>24. CASE SetFlag
  BY <1>24 DEF SetFlag, Goto, TypeOK, CopiedInv, PageOf
<1>25. CASE SetIndex
  <2>1. \A v \in Var : ~(PageOf(v) < 0)
    BY VarPage DEF Pages
  <2> QED
    BY <1>25, <2>1 DEF SetIndex, Goto, CopiedInv, PagesInv, PageOf
<1>26. CASE Commit
  <2>1. /\ cnt \in Pages /\ cnt \in Nat /\ NUM_PAG \in Nat /\ pc = "pages"
        /\ persis_pagsInTemp' = persis_pagsInTemp /\ temp' = temp
    BY <1>26, Numbers DEF Commit, PagsCommit, TypeOK, Pages
  <2>2. \A v \in Var : /\ PageOf(v) \in Nat /\ PageOf(v) < NUM_PAG /\ PageOf(v) \in Pages
                        /\ InPage(v, Header(cnt)) <=> PageOf(v) = cnt
    BY <2>1, VarPage DEF Pages
  <2>3. persis_pagsInTemp[cnt] \in {0, Header(cnt)}
    BY <2>1 DEF TypeOK, PageLists
  <2>4. /\ persis_pagsInTemp[cnt] = 0 => rom' = rom
        /\ persis_pagsInTemp[cnt] # 0 => \A v \in Var : rom'[v] = IF InPage(v, Header(cnt)) THEN temp[v] ELSE rom[v]
    BY <1>26, <2>3 DEF Commit, PagsCommit
  <2>5. \A v \in Var : PageOf(v) <= cnt /\ persis_pagsInTemp[PageOf(v)] # 0 => rom'[v] = temp[v]
    <3> SUFFICES ASSUME NEW v \in Var, PageOf(v) <= cnt, persis_pagsInTemp[PageOf(v)] # 0
                 PROVE  rom'[v] = temp[v]
      OBVIOUS
    <3>1. CASE PageOf(v) = cnt
      BY <2>2, <2>4, <3>1
    <3>2. CASE PageOf(v) < cnt
      <4>1. rom[v] = temp[v]
        BY <2>1, <3>2 DEF CopiedInv
      <4> QED
        BY <2>2, <2>4, <4>1
    <3>3. PageOf(v) \in Nat /\ cnt \in Nat
      BY <2>1, VarPage DEF Pages
    <3>4. PageOf(v) = cnt \/ PageOf(v) < cnt
      BY <3>3
    <3> QED
      BY <3>1, <3>2, <3>4
  <2>6. \/ pc' = "pages" /\ cnt' = cnt + 1
        \/ pc' = "finish" /\ cnt + 1 >= NUM_PAG
    BY <1>26, <2>1 DEF Commit, PagsCommit
  <2>7. ASSUME NEW v \in Var, pc' = "finish" \/ (pc' = "pages" /\ PageOf(v) < cnt')
        PROVE  PageOf(v) <= cnt
    <3>1. /\ PageOf(v) \in Nat /\ PageOf(v) < NUM_PAG /\ cnt \in Nat /\ NUM_PAG \in Nat
          /\ (PageOf(v) < cnt' /\ cnt' = cnt + 1) \/ cnt + 1 >= NUM_PAG
      BY <2>1, <2>6, <2>7, VarPage DEF Pages
    <3> QED
      BY <3>1
  <2> QED
    BY <2>1, <2>5, <2>7 DEF CopiedInv, PageOf
<1>27. CASE ResetFlag
  BY <1>27 DEF ResetFlag, TypeOK, CopiedInv, PageOf
<1>28. CASE PowerFail
  BY <1>28 DEF PowerFail, Reboot, CopiedInv
<1>29. CASE TornSend
  BY <1>29 DEF TornSend, Reboot, CopiedInv
<1>30. CASE TornCommit
  BY <1>30 DEF TornCommit, Reboot, CopiedInv
<1>31. CASE UNCHANGED vars
  BY <1>31 DEF vars, TypeOK, CopiedInv, PageOf
<1> QED
  BY <1>1, <1>2, <1>3, <1>4, <1>5, <1>6, <1>7, <1>8, <1>9, <1>10, <1>11, <1>12, <1>13, <1>14, <1>15, <1>16, <1>17, <1>18, <1>19, <1>20, <1>21, <1>22, <1>23, <1>24, <1>25, <1>26, <1>27, <1>28, <1>29, <1>30, <1>31 DEF Next

\* The invariant holds when the device is first powered, ...
LEMMA InitIInv == Init => IInv
<1> SUFFICES ASSUME Init PROVE IInv
  OBVIOUS
<1>1. TypeOK
  <2>1. /\ persis_pagsInTemp \in PageLists /\ pagsInTemp \in PageLists /\ ram \in [Offsets -> Value]
        /\ req \in Var /\ reg \in Value /\ CrntPagHeader \in Headers /\ persis_CrntPagHeader \in Headers
    BY Types DEF Init, NoPages
  <2>2. rom \in [Var -> Value] /\ temp \in [Var -> Value]
    BY Types DEF Init
  <2>3. 0 \in Tasks /\ 0 \in Pages /\ 0 \in 0..NumInitTasks-1
    BY Numbers DEF Tasks, Pages
  <2> QED
    BY <2>1, <2>2, <2>3 DEF Init, TypeOK
<1>2. BootInv /\ RanInv /\ FlagInv /\ IndexInv /\ PagesInv /\ CopiedInv
  BY DEF Init, BootInv, RanInv, FlagInv, IndexInv, PagesInv, CopiedInv, Booting, Initialising, Committing, InTask, NoPages
<1> QED
  BY <1>1, <1>2 DEF IInv

\* ... every step keeps it, ...
LEMMA StepIInv == IInv /\ [Next]_vars => IInv'
BY TypeStep, ControlStep, IndexStep, PagesStep, CopiedStep DEF IInv

\* ... so that it holds throughout.
LEMMA Invariance == Spec => []IInv
BY InitIInv, StepIInv, PTL DEF Spec

\* Every variable stays within its range, wherever the power fails.
THEOREM TypeCorrect == Spec => []TypeOK
<1>1. IInv => TypeOK
  BY DEF IInv
<1> QED
  BY <1>1, Invariance, PTL

\* Every initial task has been executed when they are locked, wherever the
\* power failed before.
THEOREM InitialTasks == Spec => []InitTasksHaveRun
<1>1. IInv => InitTasksHaveRun
  BY DEF IInv, RanInv, InitTasksHaveRun
<1> QED
  BY <1>1, Invariance, PTL

\* The task about to be committed as next is the one os_jump() asks for in this
\* attempt; without a call it is the successor, unless an attempt of the same
\* task that was cut short has called os_jump(): then it may be the one that
\* jump_to holds, in that attempt's request or in an older one.  A task that
\* never calls os_jump() does not jump, whatever those before it asked for.
THEOREM NextTask == Spec => []NextTaskAsAsked
<1>1. IInv => NextTaskAsAsked
  BY DEF IInv, IndexInv, NextIndexes, NextTaskAsAsked
<1> QED
  BY <1>1, Invariance, PTL

\* A page swap brings the page of the variable it is for, whatever the layout of
\* the variables, except for one that starts a later page: for that it brings
\* the page before, and the access goes to the word behind the page in RAM.
THEOREM SwapsMissPageStarts == Spec => []SwapMissesPageStarts
<1>1. ASSUME IInv, pc = "access"
      PROVE  IF StartsLaterPage(req) THEN req = CrntPagHeader + PAG_SIZE ELSE InPage(req, CrntPagHeader)
  <2>1. req \in Var /\ CrntPagHeader = Header(RequestedPage(req))
    BY <1>1 DEF IInv, TypeOK, PagesInv
  <2>2. CASE StartsLaterPage(req)
    BY <2>1, <2>2, Search
  <2>3. CASE ~StartsLaterPage(req)
    <3>1. RequestedPage(req) \in Pages /\ RequestedPage(req) = PageOf(req)
      BY <2>1, <2>3, Search
    <3> QED
      BY <2>1, <2>3, <3>1, VarPage
  <2> QED
    BY <2>2, <2>3
<1>2. IInv => SwapMissesPageStarts
  BY <1>1 DEF SwapMissesPageStarts
<1> QED
  BY <1>2, Invariance, PTL
-----------------------------------------------------------------------------
(* Tasks are atomic.                                                       *)

\* While the flag is down, the store is what is in the pages' final places.
LEMMA StoreIsRom ==
    ASSUME TypeOK, ~commit_flag
    PROVE  CommittedStore = rom
<1>1. CommittedStore = [v \in Var |-> rom[v]]
  BY DEF CommittedStore
<1> QED
  BY <1>1 DEF TypeOK

\* The store changes only with the flag, or in a page the flag does not guard.
LEMMA SameStore ==
    ASSUME UNCHANGED <<commit_flag, persis_pagsInTemp>>,
           \A v \in Var : IF commit_flag /\ persis_pagsInTemp[PageOf(v)] # 0
                          THEN temp'[v] = temp[v] ELSE rom'[v] = rom[v]
    PROVE  CommittedStore' = CommittedStore
BY DEF CommittedStore, PageOf

\* Outside tasks there is nothing else to see.
LEMMA OutsideTasks ==
    ASSUME ~InTask, ~InTask', CommittedStore' = CommittedStore
    PROVE  TaskView' = TaskView
BY DEF TaskView

\* A task does not see the scheduler at work.
LEMMA InsideTask ==
    ASSUME TypeOK, InTask, InTask', ~commit_flag, ~commit_flag',
           UNCHANGED <<rom, temp, ram, pagsInTemp, CrntPagHeader>>
    PROVE  TaskView' = TaskView /\ CommittedStore' = CommittedStore
<1>1. CommittedStore' = CommittedStore
  BY DEF CommittedStore
<1> QED
  BY <1>1 DEF TaskView, Source, InPage, PageOf

\* A task sees the same before and after a page goes to the buffer.
LEMMA SendKeepsView ==
    ASSUME IInv, InTask, InTask', SendPagTemp,
           UNCHANGED <<rom, ram, CrntPagHeader, commit_flag, persis_pagsInTemp>>
    PROVE  TaskView' = TaskView /\ CommittedStore' = CommittedStore
<1>1. CommittedStore' = CommittedStore
  BY SameStore DEF IInv, FlagInv
<1>2. ASSUME NEW v \in Var, ~InPage(v, CrntPagHeader) PROVE Source(PageOf(v))'[v] = Source(PageOf(v))[v]
  BY <1>2, Sending DEF Source, IInv, PageOf, Header
<1>3. ASSUME NEW v \in Var PROVE TaskView'[v] = TaskView[v]
  BY <1>2, <1>3 DEF TaskView, InPage, PageOf
<1>4. TaskView' = [v \in Var |-> TaskView'[v]] /\ TaskView = [v \in Var |-> TaskView[v]]
  BY DEF TaskView
<1> QED
  BY <1>1, <1>3, <1>4

\* ... and when the page of another variable takes its place.
LEMMA SwapKeepsView ==
    ASSUME IInv, SwapIn
    PROVE  TaskView' = TaskView
<1> DEFINE p == RequestedPage(req)
<1>1. p \in Pages
  BY Search DEF IInv, TypeOK
<1> HIDE DEF p
<1>2. /\ InTask /\ InTask' /\ pc = "swap"
      /\ ram' = RamOf(Source(p), Header(p)) /\ CrntPagHeader' = Header(p)
      /\ UNCHANGED <<rom, temp, pagsInTemp>>
  BY DEF SwapIn, Goto, InTask, memory, p
<1>3. ASSUME NEW v \in Var PROVE TaskView[v] = Source(PageOf(v))[v]
  <2>1. CASE InPage(v, CrntPagHeader)
    <3>1. PICK q \in Pages : CrntPagHeader = Header(q)
      BY DEF IInv, TypeOK, Headers
    <3>2. q = PageOf(v) /\ (CrntPagHeader - BIGEN_ROM) \div PAG_SIZE = q
      BY <2>1, <3>1, VarPage, HeaderIndex
    <3>3. pagsInTemp[q] = Header(q) /\ temp[v] = ram[v - CrntPagHeader]
      BY <1>2, <2>1, <3>1, <3>2 DEF IInv, PagesInv, Sent
    <3> QED
      BY <1>2, <2>1, <3>2, <3>3 DEF TaskView, Source
  <2>2. CASE ~InPage(v, CrntPagHeader)
    BY <1>2, <2>2 DEF TaskView
  <2> QED
    BY <2>1, <2>2
<1>4. ASSUME NEW v \in Var PROVE TaskView'[v] = Source(PageOf(v))[v]
  <2>1. TaskView'[v] = IF InPage(v, Header(p)) THEN ram'[v - Header(p)] ELSE Source(PageOf(v))[v]
    BY <1>2 DEF TaskView, InPage, PageOf, Source, Header
  <2>2. ASSUME InPage(v, Header(p)) PROVE ram'[v - Header(p)] = Source(PageOf(v))[v]
    <3>1. v - Header(p) \in Offsets /\ Header(p) + (v - Header(p)) = v /\ p = PageOf(v)
      BY <1>1, <2>2, VarOffset, VarPage
    <3> QED
      BY <1>2, <3>1 DEF RamOf
  <2> QED
    BY <2>1, <2>2
<1>5. TaskView' = [v \in Var |-> TaskView'[v]] /\ TaskView = [v \in Var |-> TaskView[v]]
  BY <1>2 DEF TaskView
<1> QED
  BY <1>3, <1>4, <1>5

\* The page a task starts with is what is in its final place, and the others
\* are not in the buffer.
LEMMA BringShowsStore ==
    ASSUME IInv, BringCrntPagROM
    PROVE  TaskView' = TaskView /\ CommittedStore' = CommittedStore
<1>1. PICK p \in Pages : persis_CrntPagHeader = Header(p)
  BY DEF IInv, TypeOK, Headers
<1>2. /\ ~InTask /\ InTask' /\ ~commit_flag /\ ~commit_flag' /\ rom' = rom /\ temp' = temp
      /\ pagsInTemp' = NoPages /\ CrntPagHeader' = Header(p) /\ ram' = RamOf(rom, Header(p))
  BY <1>1 DEF BringCrntPagROM, Goto, InTask, memory, flags, IInv, FlagInv, PagesInv, Committing
<1>3. CommittedStore = rom /\ CommittedStore' = rom
  <2>1. CommittedStore = rom
    BY <1>2, StoreIsRom DEF IInv
  <2>2. CommittedStore' = CommittedStore
    BY <1>2 DEF CommittedStore
  <2> QED
    BY <2>1, <2>2
<1>4. ASSUME NEW v \in Var PROVE TaskView'[v] = rom[v]
  <2>1. PageOf(v) \in Pages /\ Header(PageOf(v)) # 0
    BY VarPage, HeaderOrder DEF Pages
  <2>2. TaskView'[v] = IF InPage(v, Header(p)) THEN ram'[v - Header(p)] ELSE rom[v]
    BY <1>2, <2>1 DEF TaskView, InPage, PageOf, Source, Header, NoPages
  <2>3. ASSUME InPage(v, Header(p)) PROVE ram'[v - Header(p)] = rom[v]
    <3>1. v - Header(p) \in Offsets /\ Header(p) + (v - Header(p)) = v
      BY <2>3, VarOffset
    <3> QED
      BY <1>2, <3>1 DEF RamOf
  <2> QED
    BY <2>2, <2>3
<1>5. TaskView' = [v \in Var |-> TaskView'[v]] /\ rom = [v \in Var |-> rom[v]]
  BY <1>2 DEF TaskView, IInv, TypeOK
<1>6. TaskView = rom
  BY <1>2, <1>3 DEF TaskView
<1> QED
  BY <1>3, <1>4, <1>5, <1>6

\* When the flag goes up, the store becomes what the task saw.
LEMMA FlagCompletes ==
    ASSUME IInv, SetFlag
    PROVE  CommittedStore' = TaskView /\ TaskView' = TaskView
<1>1. /\ pc = "flag" /\ InTask /\ ~InTask' /\ commit_flag' = TRUE
      /\ UNCHANGED <<rom, temp, persis_pagsInTemp>>
      /\ persis_pagsInTemp = pagsInTemp /\ Sent
  BY DEF SetFlag, Goto, InTask, memory, IInv, PagesInv
<1>2. PICK q \in Pages : CrntPagHeader = Header(q)
  BY DEF IInv, TypeOK, Headers
<1>3. (CrntPagHeader - BIGEN_ROM) \div PAG_SIZE = q /\ Header(q) # 0
  BY <1>2, HeaderIndex, HeaderOrder DEF Pages
<1>4. ASSUME NEW v \in Var PROVE CommittedStore'[v] = TaskView[v]
  <2>1. PageOf(v) \in Pages /\ Header(PageOf(v)) # 0 /\ (InPage(v, CrntPagHeader) <=> PageOf(v) = q)
    BY <1>2, VarPage, HeaderOrder DEF Pages
  <2>2. CommittedStore'[v] = IF pagsInTemp[PageOf(v)] # 0 THEN temp[v] ELSE rom[v]
    BY <1>1 DEF CommittedStore, PageOf
  <2>3. pagsInTemp[PageOf(v)] \in {0, Header(PageOf(v))}
    BY <2>1 DEF IInv, TypeOK, PageLists
  <2>4. TaskView[v] = IF InPage(v, CrntPagHeader) THEN ram[v - CrntPagHeader] ELSE Source(PageOf(v))[v]
    BY <1>1 DEF TaskView
  <2>5. CASE InPage(v, CrntPagHeader)
    <3>1. pagsInTemp[PageOf(v)] # 0 /\ temp[v] = ram[v - CrntPagHeader]
      BY <1>1, <1>2, <1>3, <2>1, <2>5 DEF Sent
    <3> QED
      BY <2>2, <2>4, <2>5, <3>1
  <2>6. CASE ~InPage(v, CrntPagHeader)
    BY <2>1, <2>2, <2>3, <2>4, <2>6 DEF Source
  <2> QED
    BY <2>5, <2>6
<1>5. CommittedStore' = [v \in Var |-> CommittedStore'[v]] /\ TaskView = [v \in Var |-> TaskView[v]]
  BY <1>1 DEF TaskView, CommittedStore
<1>6. TaskView' = CommittedStore'
  BY <1>1 DEF TaskView
<1> QED
  BY <1>4, <1>5, <1>6

\* When the flag goes down, everything the buffer guarded has been copied, and
\* the page in RAM is the one the next task goes on with.
LEMMA FlagDown ==
    ASSUME IInv, ResetFlag
    PROVE  TaskView' = TaskView /\ CommittedStore' = CommittedStore
<1>1. /\ pc = "finish" /\ ~InTask /\ commit_flag /\ commit_flag' = FALSE
      /\ UNCHANGED <<rom, temp, persis_pagsInTemp, ram, pagsInTemp, CrntPagHeader>>
      /\ InTask' <=> ~goToCommit
  BY DEF ResetFlag, Goto, InTask, memory, pages, IInv, FlagInv, Committing, TypeOK
<1>2. \A v \in Var : persis_pagsInTemp[PageOf(v)] # 0 => rom[v] = temp[v]
  BY <1>1 DEF IInv, CopiedInv
<1>3. CommittedStore = [v \in Var |-> rom[v]] /\ CommittedStore' = [v \in Var |-> rom[v]]
  BY <1>1, <1>2 DEF CommittedStore
<1>4. CASE goToCommit
  BY <1>1, <1>3, <1>4, OutsideTasks
<1>5. CASE ~goToCommit
  <2>1. pagsInTemp = persis_pagsInTemp /\ Sent
    BY <1>1, <1>5 DEF IInv, PagesInv, Committing
  <2>2. PICK q \in Pages : CrntPagHeader = Header(q)
    BY DEF IInv, TypeOK, Headers
  <2>3. (CrntPagHeader - BIGEN_ROM) \div PAG_SIZE = q /\ Header(q) # 0
    BY <2>2, HeaderIndex, HeaderOrder DEF Pages
  <2>4. ASSUME NEW v \in Var PROVE TaskView'[v] = rom[v]
    <3>1. PageOf(v) \in Pages /\ Header(PageOf(v)) # 0 /\ (InPage(v, CrntPagHeader) <=> PageOf(v) = q)
      BY <2>2, VarPage, HeaderOrder DEF Pages
    <3>2. TaskView'[v] = IF InPage(v, CrntPagHeader) THEN ram[v - CrntPagHeader] ELSE Source(PageOf(v))[v]
      BY <1>1, <1>5 DEF TaskView, InPage, PageOf, Source
    <3>3. CASE InPage(v, CrntPagHeader)
      <4>1. persis_pagsInTemp[PageOf(v)] # 0 /\ temp[v] = ram[v - CrntPagHeader]
        BY <2>1, <2>2, <2>3, <3>1, <3>3 DEF Sent
      <4> QED
        BY <1>2, <3>2, <3>3, <4>1
    <3>4. CASE ~InPage(v, CrntPagHeader)
      BY <1>2, <2>1, <3>1, <3>2, <3>4 DEF Source
    <3> QED
      BY <3>3, <3>4
  <2>5. TaskView' = [v \in Var |-> TaskView'[v]] /\ TaskView = CommittedStore
    BY <1>1, <1>5 DEF TaskView
  <2> QED
    BY <1>3, <2>4, <2>5
<1> QED
  BY <1>4, <1>5

\* A turn of a commit, even one cut short, copies what counts already.
LEMMA CopyKeepsStore ==
    ASSUME IInv, commit_flag, UNCHANGED <<commit_flag, persis_pagsInTemp, temp>>,
           NEW header, header # 0 => header = Header(cnt),
           header = persis_pagsInTemp[cnt],
           \A v \in Var : rom'[v] = rom[v] \/ (header # 0 /\ InPage(v, header) /\ rom'[v] = temp[v])
    PROVE  CommittedStore' = CommittedStore
<1>1. ASSUME NEW v \in Var, persis_pagsInTemp[PageOf(v)] = 0 PROVE rom'[v] = rom[v]
  <2>1. ASSUME header # 0, InPage(v, header) PROVE FALSE
    <3>1. PageOf(v) = cnt
      BY <2>1, VarPage DEF IInv, TypeOK
    <3> QED
      BY <1>1, <2>1, <3>1
  <2> QED
    BY <2>1
<1> QED
  BY <1>1, SameStore

\* Power fails: the attempt is forgotten.
LEMMA RebootForgets ==
    ASSUME TypeOK, Reboot, CommittedStore' = CommittedStore
    PROVE  Atomic!PowerFail
<1>1. ~InTask'
  BY DEF Reboot, InTask
<1>2. reg' = InitValue /\ CurrentTask' = CurrentTask
  BY DEF Reboot, CurrentTask, flags, indexes
<1> QED
  BY <1>1, <1>2 DEF Atomic!PowerFail, TaskView

\* Every step of IPOS is a step of AtomicTasks or none.
LEMMA AtomicStep ==
    ASSUME IInv, IInv', [Next]_vars
    PROVE  [Atomic!Next]_<<CommittedStore, CurrentTask, TaskView, reg>>
<1> DEFINE Stutter == UNCHANGED <<CommittedStore, CurrentTask, TaskView, reg>>
<1> SUFFICES Atomic!Next \/ Stutter
  OBVIOUS
<1> USE DEF Goto, memory, flags, indexes, jumps, counters, pages, scheduler, access, requests, history
<1>a. TypeOK /\ BootInv /\ FlagInv /\ IndexInv /\ PagesInv
  BY DEF IInv
<1>b. ASSUME ~InTask, ~InTask', UNCHANGED <<rom, temp, persis_pagsInTemp, commit_flag, reg>>,
             CurrentTask' = CurrentTask
      PROVE  Stutter
  BY <1>b, OutsideTasks, SameStore
<1>c. ASSUME InTask, InTask', UNCHANGED <<rom, temp, ram, pagsInTemp, CrntPagHeader, flags, nv_task_index, reg>>
      PROVE  Stutter
  <2>1. CurrentTask' = CurrentTask
    BY <1>a, <1>c DEF CurrentTask, FlagInv
  <2> QED
    BY <1>a, <1>c, <2>1, InsideTask DEF FlagInv
<1>d. InTask => ~commit_flag
  BY <1>a DEF FlagInv
<1>e. ASSUME NEW v \in Var, InTask
      PROVE  /\ TaskView[v] = IF InPage(v, CrntPagHeader) THEN ram[v - CrntPagHeader] ELSE Source(PageOf(v))[v]
             /\ InPage(v, CrntPagHeader) <=> v - CrntPagHeader \in Offsets
  BY <1>a, <1>e, VarOffset DEF TaskView, TypeOK, Headers
<1>1. CASE AddTasks
  BY <1>1, <1>a, <1>b DEF AddTasks, CurrentTask, InTask
<1>2. CASE Block
  BY <1>2, <1>a, <1>b DEF Block, CurrentTask, InTask, BootInv
<1>3. CASE InitTasks
  BY <1>3, <1>b DEF InitTasks, CurrentTask, InTask
<1>4. CASE RunInitTask
  BY <1>4, <1>b DEF RunInitTask, CurrentTask, InTask
<1>5. CASE SetInitFlag \/ ResetInitFlag
  <2>1. ~InTask /\ ~InTask' /\ ~locker /\ UNCHANGED <<rom, temp, persis_pagsInTemp, reg>>
    BY <1>5, <1>a DEF SetInitFlag, ResetInitFlag, InTask, BootInv, Initialising
  <2>2. CurrentTask' = CurrentTask
    BY <1>5, <1>a, <2>1 DEF SetInitFlag, ResetInitFlag, CurrentTask, BootInv
  <2>3. \A v \in Var : persis_pagsInTemp[PageOf(v)] = 0
    BY <1>a, <2>1, VarPage DEF BootInv, NoPages
  <2>4. CommittedStore' = CommittedStore
    BY <2>1, <2>3 DEF CommittedStore, PageOf
  <2> QED
    BY <2>1, <2>2, <2>4, OutsideTasks
<1>6. CASE InitCommit \/ Commit
  <2>1. /\ ~InTask /\ ~InTask' /\ commit_flag
        /\ UNCHANGED <<temp, persis_pagsInTemp, flags, indexes, reg>>
    BY <1>6, <1>a DEF InitCommit, Commit, PagsCommit, InTask, FlagInv, Committing
  <2>2. CurrentTask' = CurrentTask
    BY <2>1 DEF CurrentTask
  <2>3. persis_pagsInTemp[cnt] \in {0, Header(cnt)}
    BY <1>a DEF TypeOK, PageLists
  <2>4. \A v \in Var : \/ rom'[v] = rom[v]
                       \/ /\ persis_pagsInTemp[cnt] # 0 /\ InPage(v, persis_pagsInTemp[cnt])
                          /\ rom'[v] = temp[v]
    BY <1>6 DEF InitCommit, Commit, PagsCommit
  <2>5. CommittedStore' = CommittedStore
    BY <2>1, <2>3, <2>4, CopyKeepsStore
  <2> QED
    BY <2>1, <2>2, <2>5, OutsideTasks
<1>7. CASE Lock
  BY <1>7, <1>b DEF Lock, CurrentTask, InTask
<1>8. CASE Schedule
  BY <1>8, <1>b DEF Schedule, CurrentTask, InTask
<1>9. CASE BringCrntPagROM
  BY <1>9, BringShowsStore DEF BringCrntPagROM, CurrentTask
<1>10. ASSUME NEW v \in Var, Read(v) PROVE Atomic!Next
  <2>1. InTask /\ InTask' /\ InPage(v, CrntPagHeader)
    BY <1>10, <1>e DEF Read, Reach, InTask
  <2>2. reg' = TaskView[v]
    BY <1>10, <1>e, <2>1 DEF Read
  <2>3. TaskView' = TaskView /\ CommittedStore' = CommittedStore
    BY <1>10, <1>a, <1>d, <2>1, InsideTask DEF Read
  <2>4. CurrentTask' = CurrentTask
    BY <1>10 DEF Read, CurrentTask
  <2> QED
    BY <2>2, <2>3, <2>4 DEF Atomic!Next, Atomic!Read
<1>11. ASSUME NEW v \in Var, NEW x \in Value, Write(v, x) PROVE Atomic!Next
  <2>1. InTask /\ InTask' /\ InPage(v, CrntPagHeader) /\ v - CrntPagHeader \in Offsets
    BY <1>11, <1>e DEF Write, Reach, InTask
  <2>2. ram' = [ram EXCEPT ![v - CrntPagHeader] = x] /\ UNCHANGED <<rom, temp, pagsInTemp, CrntPagHeader, commit_flag>>
    BY <1>11 DEF Write
  <2>3. CommittedStore' = CommittedStore
    BY <1>11 DEF Write, CommittedStore, PageOf
  <2>4. ASSUME NEW w \in Var PROVE TaskView'[w] = IF w = v THEN x ELSE TaskView[w]
    <3>1. TaskView'[w] = IF InPage(w, CrntPagHeader) THEN ram'[w - CrntPagHeader] ELSE Source(PageOf(w))[w]
      BY <2>1, <2>2 DEF TaskView, InPage, PageOf, Source
    <3>2. CASE w = v
      BY <1>a, <2>1, <2>2, <3>1, <3>2 DEF TypeOK
    <3>3. CASE w # v
      <4>1. v \in Nat /\ w \in Nat /\ CrntPagHeader \in Nat
        BY <1>a, VarPage, HeaderOrder DEF TypeOK, Headers, Pages
      <4>2. w - CrntPagHeader # v - CrntPagHeader
        BY <3>3, <4>1
      <4>3. InPage(w, CrntPagHeader) => ram'[w - CrntPagHeader] = ram[w - CrntPagHeader]
        BY <1>a, <1>e, <2>1, <2>2, <4>2 DEF TypeOK
      <4> QED
        BY <1>e, <2>1, <3>1, <3>3, <4>3
    <3> QED
      BY <3>2, <3>3
  <2>5. TaskView' = [TaskView EXCEPT ![v] = x]
    <3>1. TaskView' = [w \in Var |-> TaskView'[w]] /\ TaskView = [w \in Var |-> TaskView[w]]
      BY <2>1 DEF TaskView
    <3> QED
      BY <2>4, <3>1
  <2>6. CurrentTask' = CurrentTask /\ CurrentTask \in Tasks /\ reg' = reg
    BY <1>11, <1>a, Numbers DEF Write, CurrentTask, TypeOK, Tasks
  <2> QED
    BY <2>3, <2>5, <2>6 DEF Atomic!Next, Atomic!Write
<1>12. ASSUME NEW v \in Var, SwapOut(v) PROVE Stutter
  BY <1>12, SendKeepsView DEF SwapOut, CurrentTask, InTask
<1>13. CASE SwapIn
  <2>1. CommittedStore' = CommittedStore /\ CurrentTask' = CurrentTask /\ reg' = reg
    BY <1>13 DEF SwapIn, CommittedStore, CurrentTask, PageOf
  <2> QED
    BY <1>13, <2>1, SwapKeepsView
<1>14. CASE AccessBeyond \/ (\E j \in Jumps : SetJump(j)) \/ SetJumpTo \/ Return
  BY <1>14, <1>c DEF AccessBeyond, SetJump, SetJumpTo, Return, InTask
<1>15. CASE JUMP
  BY <1>15, <1>c DEF JUMP, InTask
<1>16. CASE SetTempIndex
  BY <1>16, <1>c DEF SetTempIndex, InTask
<1>17. CASE SendLastPage
  BY <1>17, SendKeepsView DEF SendLastPage, CurrentTask, InTask
<1>18. CASE Persist \/ PersistHeader
  BY <1>18, <1>c DEF Persist, PersistHeader, InTask
<1>19. CASE SetFlag
  <2>1. CurrentTask' = temp_task_index /\ temp_task_index \in Tasks /\ reg' = reg
    BY <1>19, <1>a DEF SetFlag, CurrentTask, TypeOK, BootInv
  <2> QED
    BY <1>19, <2>1, FlagCompletes DEF Atomic!Next, Atomic!Complete
<1>20. CASE SetIndex
  <2>1. CurrentTask' = CurrentTask
    BY <1>20, <1>a DEF SetIndex, CurrentTask, FlagInv, Committing
  <2> QED
    BY <1>20, <1>b, <2>1 DEF SetIndex, InTask
<1>21. CASE ResetFlag
  <2>1. CurrentTask' = CurrentTask
    BY <1>21, <1>a DEF ResetFlag, CurrentTask, FlagInv, IndexInv, Committing
  <2> QED
    BY <1>21, <2>1, FlagDown DEF ResetFlag
<1>22. CASE PowerFail
  <2>1. CommittedStore' = CommittedStore
    BY <1>22 DEF PowerFail, Reboot, CommittedStore, PageOf
  <2> QED
    BY <1>22, <1>a, <2>1, RebootForgets DEF PowerFail, Atomic!Next
<1>23. CASE TornSend
  <2>1. Reboot /\ rom' = rom /\ ~commit_flag
    BY <1>23, <1>d DEF TornSend, InTask
  <2>2. CommittedStore' = CommittedStore
    BY <2>1 DEF Reboot, CommittedStore
  <2> QED
    BY <1>a, <2>1, <2>2, RebootForgets DEF Atomic!Next
<1>24. CASE TornCommit
  <2>1. /\ Reboot /\ temp' = temp /\ commit_flag /\ UNCHANGED <<commit_flag, persis_pagsInTemp>>
        /\ persis_pagsInTemp[cnt] # 0
    BY <1>24, <1>a DEF TornCommit, Reboot, FlagInv, Committing
  <2>2. persis_pagsInTemp[cnt] \in {0, Header(cnt)}
    BY <1>a DEF TypeOK, PageLists
  <2>3. \A v \in Var : rom'[v] = rom[v] \/ (InPage(v, persis_pagsInTemp[cnt]) /\ rom'[v] = temp[v])
    BY <1>24 DEF TornCommit, Torn
  <2>4. CommittedStore' = CommittedStore
    BY <2>1, <2>2, <2>3, CopyKeepsStore
  <2> QED
    BY <1>a, <2>1, <2>4, RebootForgets DEF Atomic!Next
<1>25. CASE UNCHANGED vars
  <2>1. CommittedStore' = CommittedStore /\ CurrentTask' = CurrentTask /\ reg' = reg
    BY <1>25 DEF vars, CommittedStore, CurrentTask, PageOf
  <2>2. TaskView' = TaskView
    BY <1>25, <2>1 DEF vars, TaskView, InTask, Source, InPage, PageOf
  <2> QED
    BY <2>1, <2>2
<1> QED
  BY <1>1, <1>2, <1>3, <1>4, <1>5, <1>6, <1>7, <1>8, <1>9, <1>10, <1>11, <1>12, <1>13, <1>14, <1>15, <1>16,
     <1>17, <1>18, <1>19, <1>20, <1>21, <1>22, <1>23, <1>24, <1>25 DEF Next

\* IPOS keeps the promise of Alpaca, whatever the number and the size of its
\* pages, and also when the power cuts a transfer short: a task takes effect as
\* a whole, with the choice of the next, or not at all.
THEOREM Atomicity == Spec => TasksAreAtomic
<1>1. Init => Atomic!Init
  <2> SUFFICES ASSUME Init PROVE Atomic!Init
    OBVIOUS
  <2>1. CommittedStore = [v \in Var |-> InitValue]
    BY DEF Init, CommittedStore
  <2>2. TaskView = CommittedStore /\ CurrentTask = 0 /\ reg = InitValue
    BY DEF Init, TaskView, InTask, CurrentTask
  <2> QED
    BY <2>1, <2>2 DEF Atomic!Init
<1>2. IInv /\ IInv' /\ [Next]_vars => [Atomic!Next]_<<CommittedStore, CurrentTask, TaskView, reg>>
  BY AtomicStep
<1> QED
  BY <1>1, <1>2, Invariance, PTL DEF Spec, TasksAreAtomic, Atomic!Spec, Atomic!vars
=============================================================================
