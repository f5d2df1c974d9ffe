-------------------------------- MODULE Ipos --------------------------------
(***************************************************************************)
(* IPOS (libipos-gcc-dma): a scheduler that runs tasks in a cycle, and     *)
(* protected variables in pages.  A task works on one page at a time, in   *)
(* RAM; pages it leaves go to a temporary buffer in non-volatile memory    *)
(* and, once it has ended, from there to their final places, in a commit   *)
(* that starts over when power fails.                                      *)
(*                                                                         *)
(* Every action makes at most one write to non-volatile memory, or starts  *)
(* one DMA transfer, which a power failure may cut short.  The algorithm   *)
(* that merges tasks is left out: the sizes it works with are 1 in the     *)
(* code, and with these it never changes anything.                         *)
(***************************************************************************)
EXTENDS Integers, FiniteSets

CONSTANTS
    NUM_PAG,      \* 8 in the code
    PAG_SIZE,     \* 1024 in the code
    BIGEN_ROM,    \* the address of the first page, 16#BF70 in the code
    Var,          \* the addresses of the protected variables
    Value, InitValue,
    NumTasks,     \* __numTasks; tasks are known by their indexes
    NumInitTasks,
    Jumps         \* what tasks call os_jump() with

ASSUME PageAssumption ==
    /\ {NUM_PAG, PAG_SIZE, BIGEN_ROM, NumTasks, NumInitTasks} \subseteq Nat \ {0}
    /\ Var \subseteq BIGEN_ROM .. BIGEN_ROM + NUM_PAG * PAG_SIZE - 1
    /\ Jumps \subseteq Nat
    /\ InitValue \in Value /\ Var # {}

VARIABLES
    \* non-volatile
    rom, temp,              \* the pages at their final places and in the buffer
    persis_pagsInTemp, persis_CrntPagHeader,
    commit_flag, locker, funcBlocker,
    nv_task_index, temp_task_index,
    jump, jump_to,
    \* volatile
    pc,
    i, cnt,                 \* of the loops over initial tasks and over pages
    ram,                    \* the page at RAM_PAG
    pagsInTemp, CrntPagHeader,
    v_task_index, goToCommit,
    req,                    \* the variable a page swap is for
    reg,                    \* what the last read returned
    asked,                  \* the argument of the last os_jump() of this attempt
    \* history
    begun,                  \* os_jump() has been called in an attempt of this task
    ran                     \* the initial tasks that have been executed

memory == <<rom, temp, persis_pagsInTemp, persis_CrntPagHeader>>
flags == <<commit_flag, locker, funcBlocker>>
indexes == <<nv_task_index, temp_task_index>>
jumps == <<jump, jump_to>>
pages == <<ram, pagsInTemp, CrntPagHeader>>
counters == <<i, cnt>>
scheduler == <<v_task_index, goToCommit>>
access == <<req, reg>>
requests == <<asked, begun>>
history == <<requests, ran>>
vars == <<memory, flags, indexes, jumps, pc, counters, pages, scheduler, access, history>>

Tasks == 0..NumTasks-1
Pages == 0..NUM_PAG-1
Offsets == 0..PAG_SIZE-1
Header(p) == BIGEN_ROM + p * PAG_SIZE
Headers == {Header(p) : p \in Pages}
PageOf(v) == (v - BIGEN_ROM) \div PAG_SIZE

NotAsked == -1

\* A list of pages notes a page under its index.
PageLists == {f \in [Pages -> Headers \cup {0}] : \A p \in Pages : f[p] \in {0, Header(p)}}

TypeOK ==
    /\ rom \in [Var -> Value] /\ temp \in [Var -> Value]
    /\ persis_pagsInTemp \in PageLists /\ pagsInTemp \in PageLists
    /\ persis_CrntPagHeader \in Headers /\ CrntPagHeader \in Headers
    /\ commit_flag \in BOOLEAN /\ locker \in BOOLEAN
    /\ funcBlocker \in BOOLEAN /\ goToCommit \in BOOLEAN
    /\ nv_task_index \in Tasks /\ temp_task_index \in Tasks /\ v_task_index \in Tasks
    /\ jump \in {0, 1} /\ jump_to \in Jumps \cup {0}
    /\ i \in 0..NumInitTasks-1 /\ cnt \in Pages
    /\ ram \in [Offsets -> Value]
    /\ req \in Var /\ reg \in Value
    /\ asked \in Jumps \cup {NotAsked} /\ begun \in BOOLEAN /\ ran \subseteq 0..NumInitTasks-1

AnyVar == CHOOSE v \in Var : TRUE

\* os_addTasks() sets nv_task_index, which has no initial value.
Init ==
    /\ rom = [v \in Var |-> InitValue] /\ temp = rom
    /\ persis_pagsInTemp = [p \in Pages |-> 0] /\ pagsInTemp = persis_pagsInTemp
    /\ persis_CrntPagHeader = BIGEN_ROM /\ CrntPagHeader = BIGEN_ROM
    /\ commit_flag = FALSE /\ locker = FALSE /\ funcBlocker = FALSE
    /\ nv_task_index \in Tasks /\ temp_task_index = 0
    /\ jump = 0 /\ jump_to = 0
    /\ pc = "addTasks" /\ i = 0 /\ cnt = 0
    /\ ram = [o \in Offsets |-> InitValue]
    /\ v_task_index = 0 /\ goToCommit = FALSE
    /\ req = AnyVar /\ reg = InitValue
    /\ asked = NotAsked /\ begun = FALSE /\ ran = {}

Goto(from, to) == pc = from /\ pc' = to
-----------------------------------------------------------------------------
\* Transfers between the page at RAM_PAG and the places of the pages.
InPage(v, header) == v >= header /\ v < header + PAG_SIZE
RamOf(store, header) == [o \in Offsets |-> IF header + o \in Var THEN store[header + o] ELSE InitValue]
PageFrom(store, header) == [v \in Var |-> IF InPage(v, header) THEN ram[v - header] ELSE store[v]]

\* A transfer to page header of memory m, cut short: its first n words.
Torn(m, full, header, n) == [v \in Var |-> IF InPage(v, header) /\ v - header < n THEN full[v] ELSE m[v]]

\* __sendPagTemp(CrntPagHeader), which notes the page under its index.
SendPagTemp ==
    /\ temp' = PageFrom(temp, CrntPagHeader)
    /\ pagsInTemp' = [pagsInTemp EXCEPT ![(CrntPagHeader - BIGEN_ROM) \div PAG_SIZE] = CrntPagHeader]

\* (Bug) The loop leaves out the last page.
PagsCommit_Short(from, to) ==
    LET header == persis_pagsInTemp[cnt]
    IN  /\ pc = from
        /\ rom' = IF header = 0 THEN rom ELSE [v \in Var |-> IF InPage(v, header) THEN temp[v] ELSE rom[v]]
        /\ IF cnt + 2 < NUM_PAG THEN cnt' = cnt + 1 /\ UNCHANGED pc ELSE cnt' = 0 /\ pc' = to
        /\ UNCHANGED <<temp, persis_pagsInTemp, persis_CrntPagHeader, flags, indexes, jumps, i, pages,
                       scheduler, access, history>>

\* A turn of the loop of __pagsCommit(): pages not in the buffer stay.
PagsCommit(from, to) ==
    LET header == persis_pagsInTemp[cnt]
    IN  /\ pc = from
        /\ rom' = IF header = 0 THEN rom ELSE [v \in Var |-> IF InPage(v, header) THEN temp[v] ELSE rom[v]]
        /\ IF cnt + 1 < NUM_PAG THEN cnt' = cnt + 1 /\ UNCHANGED pc ELSE cnt' = 0 /\ pc' = to
        /\ UNCHANGED <<temp, persis_pagsInTemp, persis_CrntPagHeader, flags, indexes, jumps, i, pages,
                       scheduler, access, history>>
-----------------------------------------------------------------------------
\* os_addTasks()
AddTasks == /\ pc = "addTasks"
            /\ IF funcBlocker THEN pc' = "initTasks" /\ UNCHANGED nv_task_index
               ELSE pc' = "block" /\ nv_task_index' = 0
            /\ UNCHANGED <<memory, flags, temp_task_index, jumps, counters, pages, scheduler, access, history>>

Block == /\ Goto("block", "initTasks")
         /\ funcBlocker' = TRUE
         /\ UNCHANGED <<memory, commit_flag, locker, indexes, jumps, counters, pages, scheduler, access, history>>

\* os_initTasks(): whether it is locked, and the head of its loop, which goes
\* to the commit of the task before when that was interrupted.
InitTasks == /\ pc = "initTasks"
             /\ pc' = IF locker THEN "schedule" ELSE "init"
             /\ UNCHANGED <<memory, flags, indexes, jumps, counters, pages, scheduler, access, history>>

\* (Bug) The loop ends one task early.
LastInitTask_Early == i + 2 >= NumInitTasks

LastInitTask == i + 1 = NumInitTasks

RunInitTask == /\ pc = "init"
               /\ IF commit_flag THEN pc' = "init_pages" /\ UNCHANGED ran
                  ELSE pc' = "init_flag" /\ ran' = ran \cup {i}
               /\ UNCHANGED <<memory, flags, indexes, jumps, counters, pages, scheduler, access, requests>>

SetInitFlag == /\ Goto("init_flag", "init_pages")
               /\ commit_flag' = TRUE
               /\ UNCHANGED <<memory, locker, funcBlocker, indexes, jumps, counters, pages, scheduler, access, history>>

InitCommit == PagsCommit("init_pages", "init_finish")

ResetInitFlag == /\ pc = "init_finish"
                 /\ commit_flag' = FALSE
                 /\ IF LastInitTask THEN pc' = "lock" /\ i' = 0 ELSE pc' = "init" /\ i' = i + 1
                 /\ UNCHANGED <<memory, locker, funcBlocker, indexes, jumps, cnt, pages, scheduler, access, history>>

Lock == /\ Goto("lock", "schedule")
        /\ locker' = TRUE
        /\ UNCHANGED <<memory, commit_flag, funcBlocker, indexes, jumps, counters, pages, scheduler, access, history>>

\* os_scheduler(): a commit that was interrupted comes first.
Schedule == /\ pc = "schedule"
            /\ v_task_index' = nv_task_index
            /\ goToCommit' = commit_flag
            /\ pc' = IF commit_flag THEN "commit" ELSE "bring"
            /\ UNCHANGED <<memory, flags, indexes, jumps, counters, pages, access, history>>

\* __bringCrntPagROM()
BringCrntPagROM == /\ Goto("bring", "task")
                   /\ ram' = RamOf(rom, persis_CrntPagHeader)
                   /\ CrntPagHeader' = persis_CrntPagHeader
                   /\ UNCHANGED <<memory, flags, indexes, jumps, counters, pagsInTemp, scheduler, access, history>>
-----------------------------------------------------------------------------
\* RVAR(v) and WVAR(v, x), when v is in the current page, or in the one a page
\* swap for v has brought.
Reach(v) == \/ pc = "task" /\ InPage(v, CrntPagHeader)
            \/ pc = "access" /\ v = req /\ InPage(v, CrntPagHeader)

Read(v) == /\ Reach(v) /\ pc' = "task"
           /\ reg' = ram[v - CrntPagHeader]
           /\ UNCHANGED <<memory, flags, indexes, jumps, counters, pages, scheduler, req, history>>

Write(v, x) == /\ Reach(v) /\ pc' = "task"
               /\ ram' = [ram EXCEPT ![v - CrntPagHeader] = x]
               /\ UNCHANGED <<memory, flags, indexes, jumps, counters, pagsInTemp, CrntPagHeader, scheduler, access, history>>

\* __pageSwap(v), first half: the current page goes to the buffer.
SwapOut(v) == /\ Goto("task", "swap")
              /\ ~InPage(v, CrntPagHeader)
              /\ SendPagTemp
              /\ req' = v
              /\ UNCHANGED <<rom, persis_pagsInTemp, persis_CrntPagHeader, flags, indexes, jumps, counters, ram,
                             CrntPagHeader, scheduler, reg, history>>

\* The page a search by upper limits finds for v.
RequestedPage(v) == CHOOSE p \in Pages : v <= Header(p + 1) /\ \A q \in 0..p-1 : v > Header(q + 1)

\* Where the newest copy of page p is.
Source(p) == IF pagsInTemp[p] = Header(p) THEN temp ELSE rom

\* (Bug) The header remains that of the page before.
SwapIn_KeepsHeader ==
    LET p == RequestedPage(req)
    IN  /\ Goto("swap", "access")
        /\ ram' = RamOf(Source(p), Header(p))
        /\ UNCHANGED <<memory, flags, indexes, jumps, counters, pagsInTemp, CrntPagHeader, scheduler, access, history>>

\* Second half: the requested page, from the buffer if it is there.
SwapIn == LET p == RequestedPage(req)
          IN  /\ Goto("swap", "access")
              /\ ram' = RamOf(Source(p), Header(p))
              /\ CrntPagHeader' = Header(p)
              /\ UNCHANGED <<memory, flags, indexes, jumps, counters, pagsInTemp, scheduler, access, history>>

\* The page is that of another variable: the access goes to RAM behind it,
\* which is not a protected variable's; what it reads is not one's value, and
\* what it writes is lost.
AccessBeyond == /\ Goto("access", "task")
                /\ ~InPage(req, CrntPagHeader)
                /\ UNCHANGED <<memory, flags, indexes, jumps, counters, pages, scheduler, access, history>>

\* os_jump(j), which an attempt may call or not, whatever earlier ones did.
SetJump(j) == /\ Goto("task", "jump_to")
              /\ jump' = 1
              /\ asked' = j /\ begun' = TRUE
              /\ UNCHANGED <<memory, flags, indexes, jump_to, counters, pages, scheduler, access, ran>>

SetJumpTo == /\ Goto("jump_to", "task")
             /\ jump_to' = asked
             /\ UNCHANGED <<memory, flags, indexes, jump, counters, pages, scheduler, access, history>>

\* The task returns.
Return == /\ Goto("task", "end")
          /\ UNCHANGED <<memory, flags, indexes, jumps, counters, pages, scheduler, access, history>>
-----------------------------------------------------------------------------
\* (Bug) The cycle of tasks does not close.
JUMP_NoCycle == /\ Goto("end", "temp_index")
                /\ v_task_index' = v_task_index + (IF jump = 1 THEN jump_to ELSE 1)
                /\ jump' = 0
                /\ UNCHANGED <<memory, flags, indexes, jump_to, counters, pages, goToCommit, access, history>>

\* (Bug) The request to jump outlives the jump.
JUMP_Keeps == /\ Goto("end", "temp_index")
              /\ v_task_index' = (v_task_index + (IF jump = 1 THEN jump_to ELSE 1)) % NumTasks
              /\ UNCHANGED <<memory, flags, indexes, jumps, counters, pages, goToCommit, access, history>>

JUMP == /\ Goto("end", "temp_index")
        /\ v_task_index' = (v_task_index + (IF jump = 1 THEN jump_to ELSE 1)) % NumTasks
        /\ jump' = 0
        /\ UNCHANGED <<memory, flags, indexes, jump_to, counters, pages, goToCommit, access, history>>

SetTempIndex == /\ Goto("temp_index", "send")
                /\ temp_task_index' = v_task_index
                /\ UNCHANGED <<memory, flags, nv_task_index, jumps, counters, pages, scheduler, access, history>>

SendLastPage == /\ Goto("send", "persist")
                /\ SendPagTemp
                /\ UNCHANGED <<rom, persis_pagsInTemp, persis_CrntPagHeader, flags, indexes, jumps, counters, ram,
                               CrntPagHeader, scheduler, access, history>>

\* The list of the pages in the buffer is made persistent.
Persist == /\ pc = "persist"
           /\ persis_pagsInTemp' = [persis_pagsInTemp EXCEPT ![cnt] = pagsInTemp[cnt]]
           /\ IF cnt + 1 < NUM_PAG THEN cnt' = cnt + 1 /\ UNCHANGED pc ELSE cnt' = 0 /\ pc' = "header"
           /\ UNCHANGED <<rom, temp, persis_CrntPagHeader, flags, indexes, jumps, i, pages, scheduler, access, history>>

PersistHeader == /\ Goto("header", "flag")
                 /\ persis_CrntPagHeader' = CrntPagHeader
                 /\ UNCHANGED <<rom, temp, persis_pagsInTemp, flags, indexes, jumps, counters, pages, scheduler, access, history>>

\* From here on the task has taken effect.
SetFlag == /\ Goto("flag", "commit")
           /\ commit_flag' = TRUE
           /\ asked' = NotAsked /\ begun' = FALSE
           /\ UNCHANGED <<memory, locker, funcBlocker, indexes, jumps, counters, pages, scheduler, access, ran>>

SetIndex == /\ Goto("commit", "pages")
            /\ nv_task_index' = temp_task_index
            /\ UNCHANGED <<memory, flags, temp_task_index, jumps, counters, pages, scheduler, access, history>>

Commit == PagsCommit("pages", "finish")

\* The commit ends; after a reboot the page in RAM has yet to be brought.
ResetFlag == /\ pc = "finish"
             /\ commit_flag' = FALSE
             /\ pc' = IF goToCommit THEN "bring" ELSE "task"
             /\ v_task_index' = IF goToCommit THEN nv_task_index ELSE v_task_index
             /\ goToCommit' = FALSE
             /\ UNCHANGED <<memory, locker, funcBlocker, indexes, jumps, counters, pages, access, history>>
-----------------------------------------------------------------------------
\* The next boot starts with the volatile variables at their initial values.
Reboot == /\ pc' = "addTasks" /\ i' = 0 /\ cnt' = 0
          /\ ram' = [o \in Offsets |-> InitValue]
          /\ pagsInTemp' = [p \in Pages |-> 0]
          /\ CrntPagHeader' = BIGEN_ROM
          /\ v_task_index' = 0 /\ goToCommit' = FALSE
          /\ req' = AnyVar /\ reg' = InitValue /\ asked' = NotAsked
          /\ UNCHANGED <<persis_pagsInTemp, persis_CrntPagHeader, flags, indexes, jumps, begun, ran>>

PowerFail == Reboot /\ UNCHANGED <<rom, temp>>

\* Power fails in the middle of a transfer to the buffer, or of one from it.
TornSend == \E n \in 1..PAG_SIZE-1 :
               /\ pc = "send" \/ pc = "task"
               /\ temp' = Torn(temp, PageFrom(temp, CrntPagHeader), CrntPagHeader, n)
               /\ Reboot /\ UNCHANGED rom

TornCommit == \E n \in 1..PAG_SIZE-1 :
                 /\ pc \in {"pages", "init_pages"} /\ persis_pagsInTemp[cnt] # 0
                 /\ rom' = Torn(rom, temp, persis_pagsInTemp[cnt], n)
                 /\ Reboot /\ UNCHANGED temp

Next == \/ AddTasks     \/ Block          \/ InitTasks  \/ RunInitTask  \/ SetInitFlag \/ InitCommit
        \/ ResetInitFlag                  \/ Lock       \/ Schedule     \/ BringCrntPagROM
        \/ (\E v \in Var : Read(v))       \/ (\E v \in Var, x \in Value : Write(v, x))
        \/ (\E v \in Var : SwapOut(v))    \/ SwapIn     \/ AccessBeyond
        \/ (\E j \in Jumps : SetJump(j))  \/ SetJumpTo  \/ Return
        \/ JUMP         \/ SetTempIndex   \/ SendLastPage               \/ Persist     \/ PersistHeader
        \/ SetFlag      \/ SetIndex       \/ Commit     \/ ResetFlag
        \/ PowerFail    \/ TornSend       \/ TornCommit

Spec == Init /\ [][Next]_vars
-----------------------------------------------------------------------------
\* Every initial task has been executed when they are locked, wherever the
\* power failed; not only once, as the comment at psched.c:68 has it.
InitTasksHaveRun == locker => ran = 0..NumInitTasks-1

\* The first variable of a page but the first page.
StartsLaterPage(v) == \E p \in Pages \ {0} : v = Header(p)

\* A page swap brings the page of the variable it is for, so that the access
\* finds it in RAM, except for a variable that starts a later page: the search
\* takes the upper limit of a page for part of it, the test whether a variable
\* is in the page in RAM does not, and the access goes to the word behind RAM_PAG.
SwapMissesPageStarts ==
    pc = "access" => IF StartsLaterPage(req) THEN req = CrntPagHeader + PAG_SIZE ELSE InPage(req, CrntPagHeader)

\* The task so many steps along the cycle from the one being executed.
TaskAfter(n) == (nv_task_index + n) % NumTasks

\* The next task is what os_jump() says in the attempt that succeeds.  When that
\* attempt does not call it, the next task is the successor; or, when an attempt
\* of the same task that was cut short did, the one in jump_to, because jump is
\* still set.  What is in jump_to may then be older, if the power failed before
\* it was stored; but only a task that calls os_jump() in some attempt jumps.
NextTaskAsAsked ==
    pc = "flag" => \/ asked # NotAsked /\ temp_task_index = TaskAfter(asked)
                   \/ asked = NotAsked /\ temp_task_index = TaskAfter(1)
                   \/ asked = NotAsked /\ begun /\ temp_task_index = TaskAfter(jump_to)

\* The state of AtomicTasks: pages in the buffer count as committed from the
\* flag on, and while a task runs it sees its page in RAM and the ones it left.
CommittedStore == [v \in Var |-> IF commit_flag /\ persis_pagsInTemp[PageOf(v)] # 0 THEN temp[v] ELSE rom[v]]
InTask == pc \in {"task", "swap", "access", "jump_to", "end", "temp_index", "send", "persist", "header", "flag"}
TaskView == IF ~InTask THEN CommittedStore
            ELSE [v \in Var |-> IF InPage(v, CrntPagHeader) THEN ram[v - CrntPagHeader] ELSE Source(PageOf(v))[v]]
CurrentTask == IF ~funcBlocker THEN 0 ELSE IF commit_flag THEN temp_task_index ELSE nv_task_index

Atomic == INSTANCE AtomicTasks WITH store <- CommittedStore, view <- TaskView, task <- CurrentTask,
                                    Task <- Tasks, InitTask <- 0, War <- [t \in Tasks |-> Var]

\* IPOS keeps the promise of Alpaca: a task takes effect as a whole, with the
\* choice of the next, or not at all.
TasksAreAtomic == Atomic!Spec
-----------------------------------------------------------------------------
(* The inductive invariant.                                                *)

NoPages == [p \in Pages |-> 0]
Booting == pc \in {"addTasks", "block", "initTasks"}
Initialising == pc \in {"init", "init_flag", "init_pages", "init_finish"}
Committing == pc \in {"commit", "pages", "finish"}

\* Until the initial tasks are locked no page has been in the buffer, and the
\* first task is the next.
BootInv ==
    /\ ~locker => /\ Booting \/ Initialising \/ pc = "lock"
                  /\ persis_pagsInTemp = NoPages
                  /\ temp_task_index = 0
    /\ Initialising \/ pc \in {"block", "lock"} => ~locker
    /\ ~funcBlocker => ~locker /\ pc \in {"addTasks", "block"}
    /\ pc = "block" \/ (funcBlocker /\ ~locker) => nv_task_index = 0

\* The initial tasks before the i-th have been executed, in this or an earlier
\* boot; a commit that was interrupted says at least so of the first.
RanInv ==
    /\ Booting => i = 0
    /\ pc = "init" => 0..i-1 \subseteq ran /\ (commit_flag => i = 0)
    /\ Initialising /\ pc # "init" => 0..i \subseteq ran
    /\ commit_flag /\ ~locker => 0 \in ran
    /\ locker \/ pc = "lock" => ran = 0..NumInitTasks-1

\* The flag is down while a task runs, and up while its pages are copied.
FlagInv ==
    /\ pc = "bring" \/ InTask => ~commit_flag /\ ~goToCommit
    /\ Committing \/ pc \in {"init_pages", "init_finish"} => commit_flag

\* What JUMP() may make of requests of this attempt and of those before.
NextIndexes ==
    IF asked # NotAsked THEN {TaskAfter(asked)}
    ELSE {TaskAfter(n) : n \in {1} \cup (IF begun THEN {jump_to} ELSE {})}

\* The three indexes of the scheduler, and what os_jump() has left behind.
IndexInv ==
    /\ jump = 1 \/ asked # NotAsked => begun
    /\ ~InTask => asked = NotAsked
    /\ pc = "jump_to" => jump = 1 /\ asked # NotAsked
    /\ pc \in {"task", "swap", "access", "end"} /\ asked # NotAsked => jump = 1 /\ jump_to = asked
    /\ pc \in {"temp_index", "send", "persist", "header", "flag"} => jump = 0 /\ v_task_index \in NextIndexes
    /\ pc \in {"send", "persist", "header", "flag"} => temp_task_index = v_task_index
    /\ pc \in {"bring", "task", "swap", "access", "jump_to", "end"} => v_task_index = nv_task_index
    /\ pc = "commit" /\ ~goToCommit => v_task_index = temp_task_index
    /\ pc \in {"pages", "finish"} => /\ nv_task_index = temp_task_index
                                     /\ ~goToCommit => v_task_index = nv_task_index

\* The page at RAM_PAG is in the buffer, too.
Sent == /\ pagsInTemp[(CrntPagHeader - BIGEN_ROM) \div PAG_SIZE] = CrntPagHeader
        /\ \A v \in Var : InPage(v, CrntPagHeader) => temp[v] = ram[v - CrntPagHeader]

\* What is in the buffer belongs to the attempt that runs, or is being
\* committed; the buffer may hold more than the lists say, never less.
PagesInv ==
    /\ pc \notin {"init_pages", "persist", "pages"} => cnt = 0
    /\ ~InTask /\ ~Committing => pagsInTemp = NoPages
    /\ Committing => IF goToCommit THEN pagsInTemp = NoPages ELSE pagsInTemp = persis_pagsInTemp /\ Sent
    /\ pc \in {"swap", "persist", "header", "flag"} => Sent
    /\ pc = "access" => CrntPagHeader = Header(RequestedPage(req))
    /\ pc = "persist" => \A p \in 0..cnt-1 : persis_pagsInTemp[p] = pagsInTemp[p]
    /\ pc \in {"header", "flag"} => persis_pagsInTemp = pagsInTemp

\* The pages a commit has copied.
CopiedInv ==
    \A v \in Var :
        (pc = "finish" \/ (pc = "pages" /\ PageOf(v) < cnt)) /\ persis_pagsInTemp[PageOf(v)] # 0 => rom[v] = temp[v]

IInv == TypeOK /\ BootInv /\ RanInv /\ FlagInv /\ IndexInv /\ PagesInv /\ CopiedInv
=============================================================================
