---------------------------- MODULE MementosFram ----------------------------
(***************************************************************************)
(* Mementos for devices with FRAM (mementos_fram.c, mementos.c and         *)
(* mementos_main.c under ext/mementos/libmementos/src).  A checkpoint      *)
(* copies the registers, the stack and the globals, word by word, into     *)
(* the one of two bundles that is not active, and then lets a pointer in   *)
(* FRAM name that bundle; at boot the bundle the pointer names is copied   *)
(* back.  Every word written to FRAM is a step of its own, and the power   *)
(* may fail between any two.                                               *)
(*                                                                         *)
(* Addresses count words.  RAM holds the globals at its low end and the    *)
(* stack, which grows down to sp, at its high end.  A bundle is laid out   *)
(*   0 size of globals, 1 size of stack, 2 PC, 3 SP, ..., stack, globals,  *)
(*   magic number                                                          *)
(* The registers other than PC and SP are left out: they are saved and     *)
(* restored as PC is.                                                      *)
(***************************************************************************)
EXTENDS Naturals

CONSTANTS
    RamSize,      \* words of RAM, TOPOFSTACK - STARTOFDATA in the code
    GlobalSize,   \* words of globals, GlobalAllocSize in the code
    Value,        \* what a word of the program holds
    Pc,           \* the places in the program that call __mementos_checkpoint
    StartPc,      \* where main() starts
    Magic,        \* MEMENTOS_MAGIC_NUMBER
    NoBundle      \* 0xffff

ASSUME GlobalSizeAssumption == GlobalSize \in Nat /\ RamSize \in Nat
ASSUME ValueAssumption == Value \subseteq Nat /\ 0 \in Value
ASSUME PcAssumption == Pc \subseteq Nat \ {0} /\ StartPc \in Nat \ (Pc \cup {0})
ASSUME MagicAssumption == Magic \in Nat
ASSUME NoBundleAssumption == NoBundle \notin Nat

VARIABLES
    ram,            \* the memory of the program
    sp,             \* its stack pointer
    pc,             \* where it is
    fram,           \* the area reserved for bundles
    activePtr,      \* __mementos_active_bundle_ptr
    lastRestorePc,  \* __mementos_last_restore_pc
    mode,           \* "off", "restore", "run" or "ckpt" (a checkpoint)
    baseaddr,       \* the bundle a checkpoint writes to
    cursor,         \* how many of its writes are done
    progress        \* history: a checkpoint completed since the last restore

vars == <<ram, sp, pc, fram, activePtr, lastRestorePc, mode, baseaddr, cursor,
          progress>>

program == <<ram, sp, pc>>

Registers == 2
HeaderSize == 2
StackOffset == HeaderSize + Registers

\* What a call of __mementos_checkpoint needs below sp: its return address,
\* the R4 its preamble pushes, the registers, and the return address of
\* __mementos_locate_next_bundle.
FrameSize == Registers + 3

\* A program that takes checkpoints has room for the call.
ASSUME StackAssumption == RamSize >= GlobalSize + FrameSize

FIRST_BUNDLE_SEG == 0
\* Mutant: the second segment starts one word early.
SECOND_BUNDLE_SEG_OneShort == FIRST_BUNDLE_SEG + RamSize - 1

SECOND_BUNDLE_SEG == FIRST_BUNDLE_SEG + RamSize
FRAM_END == FIRST_BUNDLE_SEG + 2 * RamSize
Segment == {FIRST_BUNDLE_SEG, SECOND_BUNDLE_SEG}
Fram == 0..FRAM_END

Globals == 0..(GlobalSize - 1)
StackFrom(s) == s..(RamSize - 1)
StackSize == RamSize - sp

-----------------------------------------------------------------------------
(* The bundle of the running program, and the order it is written in.     *)

BundleSize == StackOffset + StackSize + GlobalSize + 1

BundleWord(k) ==
    CASE k = 0 -> GlobalSize
      [] k = 1 -> StackSize
      [] k = 2 -> pc
      [] k = 3 -> sp
      [] k \in StackOffset..(StackOffset + StackSize - 1) -> ram[sp + k - StackOffset]
      [] k = BundleSize - 1 -> Magic
      [] OTHER -> ram[k - StackOffset - StackSize]

\* The header from its second word to its first, the registers from the last
\* pushed to the first, the rest upwards.
WriteOrder(c) == IF c < HeaderSize THEN 1 - c
                 ELSE IF c < StackOffset THEN HeaderSize + StackOffset - 1 - c
                 ELSE c

bundle_in_range(b) == b # NoBundle /\ b >= FIRST_BUNDLE_SEG /\ b < FRAM_END

find_active_bundle == IF bundle_in_range(activePtr) THEN activePtr ELSE NoBundle

\* Mutant: the case for the second segment is forgotten.
locate_next_bundle_First == FIRST_BUNDLE_SEG

locate_next_bundle ==
    IF find_active_bundle = FIRST_BUNDLE_SEG THEN SECOND_BUNDLE_SEG
                                             ELSE FIRST_BUNDLE_SEG

-----------------------------------------------------------------------------
(* The program.  It may do anything to its globals and its stack, and      *)
(* never lets the stack grow into the globals.                             *)

ProgramStore(a, v) == /\ ram' = [ram EXCEPT ![a] = v]
                      /\ UNCHANGED <<sp, pc>>

ProgramPush(v) == /\ sp - 1 >= GlobalSize + FrameSize
                  /\ sp' = sp - 1
                  /\ ram' = [ram EXCEPT ![sp - 1] = v]
                  /\ pc' = pc

ProgramPop == /\ sp < RamSize
              /\ sp' = sp + 1
              /\ UNCHANGED <<ram, pc>>

ProgramStep == /\ mode = "run"
               /\ \/ \E a \in Globals \cup StackFrom(sp), v \in Value : ProgramStore(a, v)
                  \/ \E v \in Value : ProgramPush(v)
                  \/ ProgramPop
               /\ UNCHANGED <<fram, activePtr, lastRestorePc, mode, baseaddr, cursor,
                              progress>>

\* The program reaches a trigger point and the voltage is low, or the timer
\* has fired: with enough charge the call returns at once, which is no step.
Checkpoint == /\ mode = "run"
              /\ mode' = "ckpt"
              /\ pc' \in Pc
              /\ baseaddr' = locate_next_bundle
              /\ cursor' = 0
              /\ UNCHANGED <<ram, sp, fram, activePtr, lastRestorePc, progress>>

WriteWord == /\ mode = "ckpt"
             /\ cursor < BundleSize - 1
             /\ LET k == WriteOrder(cursor)
                IN  fram' = [fram EXCEPT ![baseaddr + k] = BundleWord(k)]
             /\ cursor' = cursor + 1
             /\ UNCHANGED <<program, activePtr, lastRestorePc, mode, baseaddr, progress>>

\* Mutant: a completed checkpoint leaves the last restore noted.
ForgetRestorePc_Keeps == /\ mode = "ckpt"
                         /\ cursor = BundleSize - 1
                         /\ cursor' = cursor + 1
                         /\ UNCHANGED <<program, fram, activePtr, lastRestorePc, mode,
                                        baseaddr, progress>>

\* The stuck path watchpoint forgets the last restore before the checkpoint
\* completes.
ForgetRestorePc == /\ mode = "ckpt"
                   /\ cursor = BundleSize - 1
                   /\ lastRestorePc' = 0
                   /\ cursor' = cursor + 1
                   /\ UNCHANGED <<program, fram, activePtr, mode, baseaddr, progress>>

WriteMagic == /\ mode = "ckpt"
              /\ cursor = BundleSize
              /\ fram' = [fram EXCEPT ![baseaddr + BundleSize - 1] = BundleWord(BundleSize - 1)]
              /\ cursor' = cursor + 1
              /\ UNCHANGED <<program, activePtr, lastRestorePc, mode, baseaddr, progress>>

\* The bundle becomes the active one and __mementos_checkpoint returns.
Activate == /\ mode = "ckpt"
            /\ cursor = BundleSize + 1
            /\ activePtr' = baseaddr
            /\ mode' = "run"
            /\ cursor' = 0
            /\ progress' = TRUE
            /\ UNCHANGED <<program, fram, lastRestorePc, baseaddr>>

-----------------------------------------------------------------------------
(* Boot.  Nothing of it outlives a power failure before its last step,     *)
(* except lastRestorePc, so that the copying back is one action.           *)

\* main() of an application that starts from its beginning.
StartMain == /\ mode = "off"
             /\ find_active_bundle = NoBundle
             /\ mode' = "run"
             /\ ram' = [a \in DOMAIN ram |-> IF a \in Globals THEN 0 ELSE ram[a]]
             /\ sp' = RamSize
             /\ pc' = StartPc
             /\ UNCHANGED <<fram, activePtr, lastRestorePc, baseaddr, cursor, progress>>

StuckPath(b) == fram[b + 2] = lastRestorePc

\* __mementos_restore notes where it is about to resume, ...
NoteRestorePc ==
    /\ mode = "off"
    /\ find_active_bundle # NoBundle
    /\ lastRestorePc' = fram[find_active_bundle + 2]
    /\ progress' = FALSE
    /\ mode' = "restore"
    /\ UNCHANGED <<program, fram, activePtr, baseaddr, cursor>>

\* Mutant: the fields of PC and SP are mixed up.
Restore_SwapsRegisters ==
    /\ mode = "restore"
    /\ LET b == find_active_bundle
       IN  /\ sp' = fram[b + 2]
           /\ pc' = fram[b + 3]
    /\ mode' = "run"
    /\ UNCHANGED <<ram, fram, activePtr, lastRestorePc, baseaddr, cursor, progress>>

\* ... copies the stack from its top down, the globals and the registers.
Restore ==
    /\ mode = "restore"
    /\ LET b == find_active_bundle
           stackSize == fram[b + 1]
       IN  /\ ram' = [a \in DOMAIN ram |->
                        IF a < fram[b]
                        THEN fram[b + StackOffset + stackSize + a]
                        ELSE IF a >= RamSize - stackSize
                        THEN fram[b + StackOffset + stackSize - (RamSize - a)]
                        ELSE ram[a]]
           /\ sp' = fram[b + 3]
           /\ pc' = fram[b + 2]
    /\ mode' = "run"
    /\ UNCHANGED <<fram, activePtr, lastRestorePc, baseaddr, cursor, progress>>

\* RAM and registers are lost: what they hold at the next boot is arbitrary.
PowerFail == /\ mode # "off"
             /\ mode' = "off"
             /\ \E v \in Value : ram' = [a \in DOMAIN ram |-> v]
             /\ sp' = RamSize
             /\ pc' = StartPc
             /\ baseaddr' = NoBundle
             /\ cursor' = 0
             /\ UNCHANGED <<fram, activePtr, lastRestorePc, progress>>

Init == /\ ram \in {[a \in 0..(RamSize - 1) |-> v] : v \in Value}
        /\ sp = RamSize
        /\ pc = StartPc
        /\ fram = [a \in Fram |-> 0]
        /\ activePtr = NoBundle
        /\ lastRestorePc = 0
        /\ mode = "off"
        /\ baseaddr = NoBundle
        /\ cursor = 0
        /\ progress = FALSE

Next == \/ ProgramStep \/ Checkpoint \/ WriteWord \/ ForgetRestorePc \/ WriteMagic
        \/ Activate \/ StartMain \/ NoteRestorePc \/ Restore \/ PowerFail

Spec == Init /\ [][Next]_vars

-----------------------------------------------------------------------------
(* Properties.                                                             *)

\* Every variable stays within its range: what a checkpoint stores and a
\* restore reads back are the registers and memory of a program.
TypeOK == /\ ram \in [0..(RamSize - 1) -> Value]
          /\ sp \in GlobalSize..RamSize
          /\ pc \in Pc \cup {StartPc}
          /\ fram \in [Fram -> Nat]
          /\ activePtr \in Segment \cup {NoBundle}
          /\ lastRestorePc \in Pc \cup {0}
          /\ mode \in {"off", "run", "ckpt", "restore"}
          /\ baseaddr \in Segment \cup {NoBundle}
          /\ cursor \in Nat
          /\ progress \in BOOLEAN

\* A segment is as large as RAM and a bundle holds more than RAM does, yet
\* a checkpoint neither leaves the reserved area nor reaches the active
\* bundle: the stack must have had room for the call that writes it.
BundlesApart ==
    mode = "ckpt" =>
        /\ baseaddr + BundleSize <= FRAM_END
        /\ LET b == find_active_bundle
           IN  b # NoBundle =>
                 \/ baseaddr + BundleSize <= b
                 \/ b + StackOffset + fram[b] + fram[b + 1] + 1 <= baseaddr

\* The stuck path watchpoint of mementos.c fires only for a program that has
\* not completed a checkpoint since it was last restored.
StuckPathIsStuck ==
    [][ (NoteRestorePc /\ StuckPath(find_active_bundle)) => ~progress ]_vars

-----------------------------------------------------------------------------
(* The inductive invariant.                                                *)

\* The stack leaves room for the call that writes a checkpoint.
StackInv == sp >= GlobalSize + FrameSize

\* The active bundle is a whole one: as large as its header says, with the
\* registers and the memory of a program that called for a checkpoint.
BundleInv ==
    activePtr # NoBundle =>
        LET s == fram[activePtr + 3]
        IN  /\ fram[activePtr] = GlobalSize
            /\ s \in (GlobalSize + FrameSize)..RamSize
            /\ fram[activePtr + 1] = RamSize - s
            /\ fram[activePtr + 2] \in Pc
            /\ \A k \in StackOffset..(StackOffset + RamSize - s + GlobalSize - 1) :
                  fram[activePtr + k] \in Value

\* A checkpoint writes to the other bundle, and what it has written so far is
\* the running program.
CheckpointInv ==
    mode = "ckpt" =>
        /\ pc \in Pc
        /\ baseaddr = locate_next_bundle
        /\ cursor <= BundleSize + 1
        /\ \A k \in 0..(BundleSize - 2) : WriteOrder(k) < cursor => fram[baseaddr + k] = BundleWord(k)

\* A restore is noted until a checkpoint is about to complete.
WatchpointInv == /\ mode = "restore" => activePtr # NoBundle
                 /\ mode = "ckpt" /\ cursor >= BundleSize => lastRestorePc = 0
                 /\ progress => lastRestorePc = 0

IInv == TypeOK /\ StackInv /\ BundleInv /\ CheckpointInv /\ WatchpointInv

-----------------------------------------------------------------------------
(* The promise of a checkpointing runtime, kept by the double buffering.   *)

Snapshot(g, s, p) == [globals |-> g, stack |-> s, pc |-> p]

ProgramState == UNION { {Snapshot(g, s, p) : g \in [Globals -> Value],
                                             s \in [StackFrom(l) -> Value],
                                             p \in Pc \cup {StartPc}} :
                        l \in GlobalSize..RamSize }

StartState == Snapshot([a \in Globals |-> 0], [a \in StackFrom(RamSize) |-> 0], StartPc)

\* NoBundle stands for the program that is not running, too.
ASSUME OffAssumption == NoBundle \notin ProgramState

liveState ==
    IF mode \in {"off", "restore"} THEN NoBundle
    ELSE Snapshot([a \in Globals |-> ram[a]], [a \in StackFrom(sp) |-> ram[a]], pc)

savedState ==
    IF activePtr = NoBundle THEN StartState
    ELSE LET first == activePtr + StackOffset
             size == fram[activePtr + 1]
         IN  Snapshot([a \in Globals |-> fram[first + size + a]],
                      [a \in StackFrom(fram[activePtr + 3]) |->
                           fram[first + a - fram[activePtr + 3]]],
                      fram[activePtr + 2])

Promise == INSTANCE Checkpoints
           WITH State <- ProgramState, Start <- StartState, Off <- NoBundle,
                live <- liveState, saved <- savedState

\* After any power failure, also one inside a checkpoint, the program goes on
\* from the state of the last checkpoint that completed.
ResumesFromCheckpoint == Promise!Spec
=============================================================================
