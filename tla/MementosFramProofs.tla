------------------------- MODULE MementosFramProofs -------------------------
(***************************************************************************)
(* Proofs about MementosFram, for every size of RAM and globals: bundles   *)
(* stay apart, the watchpoint fires only for programs that are stuck, and  *)
(* the two bundles implement Checkpoints.                                  *)
(***************************************************************************)
EXTENDS MementosFram, TLAPS

\* The sizes are numbers that leave the stack its frame.
LEMMA Sizes == /\ RamSize \in Nat /\ GlobalSize \in Nat /\ RamSize >= GlobalSize + 5
               /\ FrameSize = 5 /\ StackOffset = 4 /\ HeaderSize = 2
               /\ FIRST_BUNDLE_SEG = 0 /\ SECOND_BUNDLE_SEG = RamSize /\ FRAM_END = 2 * RamSize
               /\ Segment = {0, RamSize} /\ NoBundle \notin Segment
               /\ Fram = 0..2 * RamSize
BY GlobalSizeAssumption, StackAssumption, NoBundleAssumption
DEF FrameSize, StackOffset, HeaderSize, Registers, FIRST_BUNDLE_SEG, SECOND_BUNDLE_SEG, FRAM_END, Segment, Fram

\* The search for the active bundle returns what the pointer names, and the
\* next bundle goes to the other segment.
LEMMA Search ==
    ASSUME TypeOK
    PROVE  /\ find_active_bundle = activePtr
           /\ locate_next_bundle \in Segment
           /\ locate_next_bundle # activePtr
BY Sizes, NoBundleAssumption DEF TypeOK, find_active_bundle, bundle_in_range, locate_next_bundle

\* A bundle of the running program is no larger than a segment.
LEMMA BundleFits ==
    ASSUME TypeOK, StackInv
    PROVE  /\ BundleSize \in 5..RamSize
           /\ StackSize \in 0..RamSize
           /\ BundleSize = 5 + (RamSize - sp) + GlobalSize
BY Sizes DEF TypeOK, StackInv, BundleSize, StackSize

\* Each word of a bundle but the magic number is written once.
LEMMA Order ==
    ASSUME NEW c \in Nat
    PROVE  /\ WriteOrder(c) \in Nat
           /\ WriteOrder(WriteOrder(c)) = c
           /\ \A n \in Nat : n >= 4 => (c < n <=> WriteOrder(c) < n)
BY Sizes DEF WriteOrder

\* What a bundle of the running program holds.
LEMMA Words ==
    ASSUME TypeOK, StackInv, pc \in Pc
    PROVE  /\ BundleWord(0) = GlobalSize /\ BundleWord(1) = RamSize - sp
           /\ BundleWord(2) = pc /\ BundleWord(3) = sp
           /\ \A k \in 4..(4 + (RamSize - sp) - 1) : BundleWord(k) = ram[sp + k - 4]
           /\ \A k \in (4 + (RamSize - sp))..(4 + (RamSize - sp) + GlobalSize - 1) :
                BundleWord(k) = ram[k - 4 - (RamSize - sp)]
           /\ \A k \in 0..BundleSize - 2 : BundleWord(k) \in Nat
           /\ \A k \in 4..(4 + (RamSize - sp) + GlobalSize - 1) : BundleWord(k) \in Value
<1>1. /\ BundleWord(0) = GlobalSize /\ BundleWord(1) = RamSize - sp
      /\ BundleWord(2) = pc /\ BundleWord(3) = sp
  BY Sizes, BundleFits DEF BundleWord, StackSize, TypeOK
<1>2. ASSUME NEW k \in 4..(4 + (RamSize - sp) - 1)
      PROVE  BundleWord(k) = ram[sp + k - 4] /\ sp + k - 4 \in 0..RamSize - 1
  <2>1. sp \in Nat /\ k \in Nat /\ k >= 4 /\ k < 4 + (RamSize - sp)
    BY <1>2, Sizes DEF TypeOK
  <2>2. /\ k # 0 /\ k # 1 /\ k # 2 /\ k # 3
        /\ k \in StackOffset..(StackOffset + StackSize - 1)
        /\ StackOffset = 4 /\ sp + k - 4 \in 0..RamSize - 1
        /\ BundleSize - 1 # k
    BY <2>1, Sizes, BundleFits DEF StackSize
  <2> QED
    BY <2>2 DEF BundleWord
<1>3. ASSUME NEW k \in (4 + (RamSize - sp))..(4 + (RamSize - sp) + GlobalSize - 1)
      PROVE  BundleWord(k) = ram[k - 4 - (RamSize - sp)] /\ k - 4 - (RamSize - sp) \in 0..RamSize - 1
  <2>1. /\ sp \in Nat /\ sp <= RamSize /\ k \in Nat
        /\ k >= 4 + (RamSize - sp) /\ k < 4 + (RamSize - sp) + GlobalSize
    BY <1>3, Sizes DEF TypeOK
  <2>2. /\ k # 0 /\ k # 1 /\ k # 2 /\ k # 3
        /\ ~(k \in StackOffset..(StackOffset + StackSize - 1))
        /\ StackOffset = 4 /\ StackSize = RamSize - sp
        /\ k - 4 - (RamSize - sp) \in 0..RamSize - 1
        /\ k # BundleSize - 1
    BY <2>1, Sizes, BundleFits DEF StackSize
  <2> QED
    BY <2>2 DEF BundleWord
<1>4. ASSUME NEW k \in 4..(4 + (RamSize - sp) + GlobalSize - 1) PROVE BundleWord(k) \in Value
  BY <1>2, <1>3, <1>4, Sizes DEF TypeOK
<1>5. ASSUME NEW k \in 0..BundleSize - 2 PROVE BundleWord(k) \in Nat
  <2>1. sp \in Nat /\ sp <= RamSize /\ pc \in Nat /\ RamSize - sp \in Nat
    BY Sizes, PcAssumption DEF TypeOK
  <2>2. k \in 0..3 \/ k \in 4..(4 + (RamSize - sp) + GlobalSize - 1)
    BY <1>5, <2>1, Sizes, BundleFits
  <2>3. CASE k \in 0..3
    BY <1>1, <2>1, <2>3, Sizes
  <2> QED
    BY <1>4, <2>2, <2>3, ValueAssumption
<1> QED
  BY <1>1, <1>2, <1>3, <1>4, <1>5
\* The last word of a bundle is the magic number.
LEMMA MagicWord ==
    ASSUME TypeOK, StackInv
    PROVE  BundleWord(BundleSize - 1) \in Nat
<1>1. sp \in Nat /\ sp <= RamSize
  BY Sizes DEF TypeOK
<1>2. /\ BundleSize - 1 # 0 /\ BundleSize - 1 # 1 /\ BundleSize - 1 # 2 /\ BundleSize - 1 # 3
      /\ ~(BundleSize - 1 \in StackOffset..(StackOffset + StackSize - 1))
  BY <1>1, Sizes, BundleFits DEF StackSize
<1> QED
  BY <1>2, MagicAssumption DEF BundleWord

\* While the program stands still, its bundle stays what it is.
LEMMA SameProgram ==
    ASSUME UNCHANGED program
    PROVE  BundleSize' = BundleSize /\ \A k : BundleWord(k)' = BundleWord(k)
BY DEF program, BundleSize, StackSize, BundleWord

\* A checkpoint that has only its magic number left to write has written the
\* rest.
LEMMA WholeBundle ==
    ASSUME IInv, mode = "ckpt", cursor >= BundleSize - 1
    PROVE  \A k \in 0..(BundleSize - 2) : fram[baseaddr + k] = BundleWord(k)
<1>1. ASSUME NEW k \in 0..(BundleSize - 2) PROVE WriteOrder(k) < cursor
  <2>1. /\ BundleSize \in Nat /\ BundleSize >= 5 /\ cursor \in Nat /\ k \in Nat
        /\ k < BundleSize - 1
    BY BundleFits DEF IInv, TypeOK
  <2>2. WriteOrder(k) \in Nat
    BY <2>1, Order
  <2>3. WriteOrder(k) < BundleSize - 1
    BY <2>1, Order
  <2> QED
    BY <2>1, <2>2, <2>3
<1> QED
  BY <1>1 DEF IInv, CheckpointInv
-----------------------------------------------------------------------------
\* The step of a checkpoint that writes word k leaves the active bundle alone.
LEMMA ActiveUntouched ==
    ASSUME IInv, mode = "ckpt", activePtr # NoBundle,
           NEW k \in 0..BundleSize - 1, NEW w \in Nat,
           fram' = [fram EXCEPT ![baseaddr + k] = w]
    PROVE  /\ fram' \in [Fram -> Nat]
           /\ \A j \in 0..RamSize - 1 : fram'[activePtr + j] = fram[activePtr + j]
<1>1. /\ baseaddr \in {0, RamSize} /\ activePtr \in {0, RamSize} /\ baseaddr # activePtr
      /\ k \in 0..RamSize - 1
  <2>1. baseaddr = locate_next_bundle
    BY DEF IInv, CheckpointInv
  <2>2. activePtr \in {0, RamSize}
    BY Sizes DEF IInv, TypeOK
  <2>3. k \in 0..RamSize - 1
    BY BundleFits, Sizes DEF IInv
  <2> QED
    BY <2>1, <2>2, <2>3, Sizes, Search DEF IInv
<1> QED
  BY <1>1, Sizes DEF IInv, TypeOK

\* The words BundleInv looks at are in the segment.
LEMMA ActiveInSegment ==
    ASSUME IInv, activePtr # NoBundle,
           NEW k \in StackOffset..(StackOffset + RamSize - fram[activePtr + 3] + GlobalSize - 1)
    PROVE  k \in 0..RamSize - 1
BY Sizes DEF IInv, BundleInv

\* Every step leaves every variable in its range.
LEMMA TypeStep ==
    ASSUME IInv, [Next]_vars
    PROVE  TypeOK' /\ StackInv'
<1> USE DEF IInv
<1>1. ASSUME ProgramStep PROVE TypeOK' /\ StackInv'
  <2>1. ASSUME NEW a \in Globals \cup StackFrom(sp), NEW v \in Value, ProgramStore(a, v)
        PROVE TypeOK' /\ StackInv'
    BY <1>1, <2>1, Sizes DEF ProgramStep, ProgramStore, TypeOK, StackInv, Globals, StackFrom
  <2>2. ASSUME NEW v \in Value, ProgramPush(v) PROVE TypeOK' /\ StackInv'
    BY <1>1, <2>2, Sizes DEF ProgramStep, ProgramPush, TypeOK, StackInv
  <2>3. CASE ProgramPop
    BY <1>1, <2>3, Sizes DEF ProgramStep, ProgramPop, TypeOK, StackInv
  <2> QED
    BY <1>1, <2>1, <2>2, <2>3 DEF ProgramStep
<1>2. CASE Checkpoint
  BY <1>2, Search DEF Checkpoint, TypeOK, StackInv
<1>3. CASE WriteWord
  <2>1. cursor \in 0..BundleSize - 2 /\ cursor \in Nat
    BY <1>3, BundleFits DEF WriteWord, TypeOK
  <2>2. WriteOrder(cursor) \in 0..BundleSize - 2
    BY <2>1, Order, BundleFits
  <2>3. BundleWord(WriteOrder(cursor)) \in Nat
    BY <1>3, <2>2, Words DEF WriteWord, CheckpointInv
  <2>4. fram' \in [Fram -> Nat]
    BY <1>3, <2>3 DEF WriteWord, TypeOK
  <2> QED
    BY <1>3, <2>4 DEF WriteWord, program, TypeOK, StackInv
<1>4. CASE ForgetRestorePc
  BY <1>4 DEF ForgetRestorePc, program, TypeOK, StackInv
<1>5. CASE WriteMagic
  <2>1. BundleWord(BundleSize - 1) \in Nat
    BY MagicWord
  <2>2. fram' \in [Fram -> Nat]
    BY <1>5, <2>1 DEF WriteMagic, TypeOK
  <2> QED
    BY <1>5, <2>2 DEF WriteMagic, program, TypeOK, StackInv
<1>6. CASE Activate
  BY <1>6, Search DEF Activate, program, TypeOK, StackInv, CheckpointInv
<1>7. CASE StartMain
  BY <1>7, Sizes, ValueAssumption DEF StartMain, TypeOK, StackInv
<1>8. CASE NoteRestorePc
  BY <1>8, Search DEF NoteRestorePc, program, TypeOK, StackInv, BundleInv
<1>9. CASE Restore
  <2> DEFINE b == activePtr
             s == fram[b + 3]
  <2>1. b # NoBundle /\ find_active_bundle = b /\ b \in {0, RamSize}
    BY <1>9, Search, Sizes DEF Restore, WatchpointInv, TypeOK
  <2>2. /\ fram[b] = GlobalSize /\ s \in GlobalSize + 5..RamSize
        /\ fram[b + 1] = RamSize - s /\ fram[b + 2] \in Pc
        /\ \A k \in 4..(4 + RamSize - s + GlobalSize - 1) : fram[b + k] \in Value
    BY <2>1, Sizes DEF BundleInv
  <2>3. ram' = [a \in DOMAIN ram |->
                  IF a < GlobalSize THEN fram[b + 4 + (RamSize - s) + a]
                  ELSE IF a >= RamSize - (RamSize - s)
                  THEN fram[b + 4 + (RamSize - s) - (RamSize - a)]
                  ELSE ram[a]]
    BY <1>9, <2>1, <2>2, Sizes DEF Restore
  <2>4. ASSUME NEW a \in 0..RamSize - 1 PROVE ram'[a] \in Value
    <3>1. CASE a < GlobalSize
      <4>1. 4 + (RamSize - s) + a \in 4..(4 + RamSize - s + GlobalSize - 1)
        BY <3>1, <2>2, Sizes
      <4>2. fram[b + (4 + (RamSize - s) + a)] \in Value
        BY <4>1, <2>2
      <4>3. b + (4 + (RamSize - s) + a) = b + 4 + (RamSize - s) + a
        BY <2>1, <2>2, Sizes
      <4> QED
        BY <3>1, <4>2, <4>3, <2>3 DEF TypeOK
    <3>2. CASE a >= s
      <4>1. 4 + (RamSize - s) - (RamSize - a) \in 4..(4 + RamSize - s + GlobalSize - 1)
        BY <3>2, <2>2, Sizes
      <4>2. fram[b + (4 + (RamSize - s) - (RamSize - a))] \in Value
        BY <4>1, <2>2
      <4>3. /\ b + (4 + (RamSize - s) - (RamSize - a)) = b + 4 + (RamSize - s) - (RamSize - a)
            /\ RamSize - (RamSize - s) = s
            /\ ~(a < GlobalSize)
        BY <3>2, <2>1, <2>2, Sizes
      <4> QED
        BY <3>2, <4>2, <4>3, <2>3 DEF TypeOK
    <3> QED
      BY <3>1, <3>2, <2>2, <2>3, Sizes DEF TypeOK
  <2>5. ram' \in [0..RamSize - 1 -> Value]
    BY <2>3, <2>4 DEF TypeOK
  <2>6. sp' = s /\ pc' = fram[b + 2]
    BY <1>9, <2>1 DEF Restore
  <2>7. s \in GlobalSize..RamSize /\ s >= GlobalSize + FrameSize
    BY <2>2, Sizes
  <2> QED
    BY <1>9, <2>2, <2>5, <2>6, <2>7 DEF Restore, TypeOK, StackInv
<1>10. CASE PowerFail
  BY <1>10, Sizes DEF PowerFail, TypeOK, StackInv
<1>11. CASE UNCHANGED vars
  BY <1>11 DEF vars, TypeOK, StackInv
<1> QED
  BY <1>1, <1>2, <1>3, <1>4, <1>5, <1>6, <1>7, <1>8, <1>9, <1>10, <1>11 DEF Next

\* The active bundle is whole, whatever the power does: the step that makes it
\* the active one finds it written.
LEMMA BundleStep ==
    ASSUME IInv, [Next]_vars
    PROVE  BundleInv'
<1> USE DEF IInv
<1>1. ASSUME UNCHANGED <<fram, activePtr>> PROVE BundleInv'
  BY <1>1 DEF BundleInv
<1>2. ASSUME mode = "ckpt", UNCHANGED activePtr, NEW k \in 0..BundleSize - 1, NEW w \in Nat,
             fram' = [fram EXCEPT ![baseaddr + k] = w]
      PROVE  BundleInv'
  <2>1. CASE activePtr = NoBundle
    BY <1>2, <2>1 DEF BundleInv
  <2>2. CASE activePtr # NoBundle
    <3>1. \A j \in 0..RamSize - 1 : fram'[activePtr + j] = fram[activePtr + j]
      BY <1>2, <2>2, ActiveUntouched
    <3>2. activePtr \in Nat
      BY <2>2, Sizes DEF TypeOK
    <3>3. /\ fram'[activePtr] = fram[activePtr] /\ fram'[activePtr + 1] = fram[activePtr + 1]
          /\ fram'[activePtr + 2] = fram[activePtr + 2] /\ fram'[activePtr + 3] = fram[activePtr + 3]
      <4>1. fram'[activePtr + 0] = fram[activePtr + 0]
        BY <3>1, Sizes
      <4> QED
        BY <3>1, <3>2, <4>1, Sizes
    <3>4. \A j \in StackOffset..(StackOffset + RamSize - fram[activePtr + 3] + GlobalSize - 1) :
             fram'[activePtr + j] = fram[activePtr + j]
      BY <2>2, <3>1, ActiveInSegment
    <3> QED
      BY <1>2, <2>2, <3>3, <3>4 DEF BundleInv
  <2> QED
    BY <2>1, <2>2
<1>3. CASE WriteWord
  <2>1. cursor \in 0..BundleSize - 2 /\ cursor \in Nat
    BY <1>3, BundleFits DEF WriteWord, TypeOK
  <2>2. WriteOrder(cursor) \in 0..BundleSize - 2 /\ WriteOrder(cursor) \in 0..BundleSize - 1
    BY <2>1, Order, BundleFits
  <2>3. BundleWord(WriteOrder(cursor)) \in Nat
    BY <1>3, <2>2, Words DEF WriteWord, CheckpointInv
  <2> QED
    BY <1>2, <1>3, <2>2, <2>3 DEF WriteWord
<1>4. CASE WriteMagic
  <2>1. BundleWord(BundleSize - 1) \in Nat
    BY MagicWord
  <2>2. fram' = [fram EXCEPT ![baseaddr + (BundleSize - 1)] = BundleWord(BundleSize - 1)]
    BY <1>4, BundleFits, Search, Sizes DEF WriteMagic, CheckpointInv
  <2>3. BundleSize - 1 \in 0..BundleSize - 1
    BY BundleFits
  <2> QED
    BY <1>2, <1>4, <2>1, <2>2, <2>3 DEF WriteMagic
<1>5. CASE Activate
  <2> DEFINE b == baseaddr
  <2>1. /\ pc \in Pc /\ b \in Segment
        /\ \A k \in 0..(BundleSize - 2) : fram[b + k] = BundleWord(k)
    <3>1. mode = "ckpt" /\ cursor >= BundleSize - 1
      BY <1>5, BundleFits DEF Activate
    <3> QED
      BY <3>1, WholeBundle, Search DEF CheckpointInv
  <2>2. b \in Nat /\ sp \in GlobalSize + FrameSize..RamSize /\ RamSize - sp \in Nat
    BY <2>1, Sizes DEF TypeOK, StackInv
  <2>3. /\ fram[b + 0] = BundleWord(0) /\ fram[b + 1] = BundleWord(1)
        /\ fram[b + 2] = BundleWord(2) /\ fram[b + 3] = BundleWord(3)
    BY <2>1, BundleFits
  <2>4. /\ fram[b] = GlobalSize /\ fram[b + 1] = RamSize - sp
        /\ fram[b + 2] = pc /\ fram[b + 3] = sp
    BY <2>1, <2>2, <2>3, Words
  <2>5. \A k \in 4..(4 + (RamSize - sp) + GlobalSize - 1) : fram[b + k] \in Value
    <3>1. BundleSize - 2 = 4 + (RamSize - sp) + GlobalSize - 1
      BY <2>2, BundleFits, Sizes
    <3>2. \A k \in 4..(4 + (RamSize - sp) + GlobalSize - 1) : k \in 0..(BundleSize - 2)
      BY <3>1
    <3> QED
      BY <2>1, <3>2, Words
  <2>6. StackOffset + RamSize - sp + GlobalSize - 1 = 4 + (RamSize - sp) + GlobalSize - 1
    BY <2>2, Sizes
  <2>7. activePtr' = b /\ fram' = fram
    BY <1>5 DEF Activate
  <2> QED
    BY <2>1, <2>2, <2>4, <2>5, <2>6, <2>7, Sizes DEF BundleInv
<1> QED
  BY <1>1, <1>3, <1>4, <1>5
  DEF Next, vars, ProgramStep, Checkpoint, ForgetRestorePc, StartMain, NoteRestorePc, Restore, PowerFail

\* Each word a checkpoint has written is the program's, and the program waits.
LEMMA CheckpointStep ==
    ASSUME IInv, [Next]_vars
    PROVE  CheckpointInv'
<1> USE DEF IInv
<1>1. ASSUME UNCHANGED <<mode, program, baseaddr, cursor, activePtr, fram>> PROVE CheckpointInv'
  BY <1>1, SameProgram DEF CheckpointInv, locate_next_bundle, find_active_bundle, program
<1>2. ASSUME mode' # "ckpt" PROVE CheckpointInv'
  BY <1>2 DEF CheckpointInv
<1>3. CASE Checkpoint
  <2>1. locate_next_bundle' = locate_next_bundle
    BY <1>3 DEF Checkpoint, locate_next_bundle, find_active_bundle
  <2>2. BundleSize' = BundleSize
    BY <1>3 DEF Checkpoint, BundleSize, StackSize
  <2>3. \A k \in 0..(BundleSize - 2) : ~(WriteOrder(k) < 0)
    BY Order, BundleFits
  <2> QED
    BY <1>3, <2>1, <2>2, <2>3, BundleFits DEF Checkpoint, CheckpointInv
<1>4. ASSUME mode = "ckpt", UNCHANGED <<program, mode, baseaddr, activePtr>>,
             cursor' <= BundleSize + 1,
             \A k \in 0..(BundleSize - 2) : WriteOrder(k) < cursor' => fram'[baseaddr + k] = BundleWord(k)
      PROVE  CheckpointInv'
  <2>1. locate_next_bundle' = locate_next_bundle
    BY <1>4 DEF locate_next_bundle, find_active_bundle
  <2>2. BundleSize' = BundleSize /\ \A k : BundleWord(k)' = BundleWord(k)
    BY <1>4, SameProgram
  <2> QED
    BY <1>4, <2>1, <2>2 DEF CheckpointInv, program
<1>5. ASSUME mode = "ckpt" PROVE baseaddr \in Nat /\ baseaddr + (BundleSize - 1) <= FRAM_END
  BY <1>5, Sizes, Search, BundleFits DEF CheckpointInv
<1>6. CASE WriteWord
  <2> DEFINE d == WriteOrder(cursor)
  <2>1. cursor \in 0..BundleSize - 2 /\ cursor \in Nat /\ BundleSize \in Nat
    BY <1>6, BundleFits DEF WriteWord, TypeOK
  <2>2. d \in 0..BundleSize - 2
    BY <2>1, Order, BundleFits
  <2>3. ASSUME NEW k \in 0..(BundleSize - 2), WriteOrder(k) < cursor'
        PROVE  fram'[baseaddr + k] = BundleWord(k)
    <3>1. baseaddr + k \in Fram /\ baseaddr + d \in Fram /\ (k # d => baseaddr + k # baseaddr + d)
      BY <1>5, <1>6, <2>1, <2>2, Sizes DEF WriteWord
    <3>2. fram' = [fram EXCEPT ![baseaddr + d] = BundleWord(d)] /\ cursor' = cursor + 1
      BY <1>6 DEF WriteWord
    <3>3. CASE k = d
      BY <3>1, <3>2, <3>3 DEF TypeOK
    <3>4. CASE k # d
      <4>1. WriteOrder(k) \in Nat /\ WriteOrder(WriteOrder(k)) = k
        BY Order
      <4>2. WriteOrder(k) < cursor
        BY <2>1, <2>3, <3>2, <3>4, <4>1
      <4> QED
        BY <1>6, <3>1, <3>2, <3>4, <4>2 DEF TypeOK, WriteWord, CheckpointInv
    <3> QED
      BY <3>3, <3>4
  <2>4. cursor' <= BundleSize + 1
    BY <1>6, <2>1 DEF WriteWord
  <2>5. mode = "ckpt" /\ UNCHANGED <<program, mode, baseaddr, activePtr>>
    BY <1>6 DEF WriteWord
  <2> QED
    BY <1>4, <2>3, <2>4, <2>5
<1>7. CASE ForgetRestorePc \/ WriteMagic
  <2>1. \A k \in 0..(BundleSize - 2) : fram[baseaddr + k] = BundleWord(k)
    <3>1. mode = "ckpt" /\ cursor >= BundleSize - 1
      BY <1>7, BundleFits DEF ForgetRestorePc, WriteMagic
    <3> QED
      BY <3>1, WholeBundle
  <2>2. \A k \in 0..(BundleSize - 2) : fram'[baseaddr + k] = fram[baseaddr + k]
    <3>1. CASE ForgetRestorePc
      BY <3>1 DEF ForgetRestorePc
    <3>2. ASSUME WriteMagic, NEW k \in 0..(BundleSize - 2)
          PROVE  fram'[baseaddr + k] = fram[baseaddr + k]
      <4>1. baseaddr + k \in Fram /\ baseaddr + k # baseaddr + BundleSize - 1
        BY <1>5, <3>2, BundleFits, Sizes DEF WriteMagic
      <4> QED
        BY <3>2, <4>1 DEF WriteMagic, TypeOK
    <3> QED
      BY <1>7, <3>1, <3>2
  <2>3. cursor' <= BundleSize + 1 /\ mode = "ckpt" /\ UNCHANGED <<program, mode, baseaddr, activePtr>>
    BY <1>7, BundleFits DEF ForgetRestorePc, WriteMagic
  <2> QED
    BY <1>4, <2>1, <2>2, <2>3
<1> QED
  BY <1>1, <1>2, <1>3, <1>6, <1>7
  DEF Next, vars, program, ProgramStep, Activate, StartMain, NoteRestorePc, Restore, PowerFail

\* A restore is noted until the next checkpoint is about to complete.
LEMMA WatchpointStep ==
    ASSUME IInv, [Next]_vars
    PROVE  WatchpointInv'
<1> USE DEF IInv
<1>1. ASSUME UNCHANGED <<mode, sp, cursor, lastRestorePc, progress, activePtr>> PROVE WatchpointInv'
  BY <1>1 DEF WatchpointInv, BundleSize, StackSize
<1>2. CASE ProgramStep
  BY <1>2 DEF ProgramStep, WatchpointInv
<1>3. CASE Checkpoint
  <2>1. ~(cursor' >= BundleSize')
    BY <1>3, BundleFits DEF Checkpoint, BundleSize, StackSize
  <2> QED
    BY <1>3, <2>1 DEF Checkpoint, WatchpointInv
<1>4. CASE WriteWord
  <2>1. ~(cursor' >= BundleSize')
    <3>1. cursor + 1 < BundleSize /\ cursor' = cursor + 1 /\ BundleSize' = BundleSize
      BY <1>4, BundleFits, SameProgram DEF WriteWord, TypeOK
    <3>2. cursor \in Nat /\ BundleSize \in Nat
      BY BundleFits DEF TypeOK
    <3> QED
      BY <3>1, <3>2
  <2> QED
    BY <1>4, <2>1 DEF WriteWord, WatchpointInv
<1>5. CASE ForgetRestorePc
  BY <1>5 DEF ForgetRestorePc, WatchpointInv
<1>6. CASE WriteMagic
  <2>1. lastRestorePc = 0
    BY <1>6, BundleFits DEF WriteMagic, WatchpointInv
  <2> QED
    BY <1>6, <2>1 DEF WriteMagic, WatchpointInv
<1>7. CASE Activate
  <2>1. lastRestorePc = 0
    BY <1>7, BundleFits DEF Activate, WatchpointInv
  <2> QED
    BY <1>7, <2>1 DEF Activate, WatchpointInv
<1>8. CASE StartMain
  BY <1>8 DEF StartMain, WatchpointInv
<1>9. CASE NoteRestorePc
  BY <1>9, Search DEF NoteRestorePc, WatchpointInv
<1>10. CASE Restore
  BY <1>10 DEF Restore, WatchpointInv
<1>11. CASE PowerFail
  BY <1>11 DEF PowerFail, WatchpointInv
<1> QED
  BY <1>1, <1>2, <1>3, <1>4, <1>5, <1>6, <1>7, <1>8, <1>9, <1>10, <1>11 DEF Next, vars

\* The invariant holds at the first boot, when no checkpoint was taken, ...
LEMMA InitIInv == Init => IInv
<1> SUFFICES ASSUME Init PROVE IInv
  OBVIOUS
<1>1. ram \in [0..(RamSize - 1) -> Value] /\ fram \in [Fram -> Nat]
  BY DEF Init
<1>2. sp \in GlobalSize..RamSize /\ StackInv
  BY Sizes DEF Init, StackInv
<1>3. TypeOK
  BY <1>1, <1>2 DEF Init, TypeOK
<1> QED
  BY <1>2, <1>3 DEF Init, IInv, BundleInv, CheckpointInv, WatchpointInv

\* ... and every step keeps it, ...
LEMMA StepIInv == IInv /\ [Next]_vars => IInv'
BY TypeStep, BundleStep, CheckpointStep, WatchpointStep DEF IInv

\* ... so that it holds throughout.
LEMMA Invariance == Spec => []IInv
BY InitIInv, StepIInv, PTL DEF Spec

\* Registers, memory and bundles stay within their ranges, whenever the power
\* fails.
THEOREM TypeCorrect == Spec => []TypeOK
<1>1. IInv => TypeOK
  BY DEF IInv
<1> QED
  BY <1>1, Invariance, PTL

\* A checkpoint writes neither past the reserved area nor into the active
\* bundle, for every size of RAM and globals whose stack has room for the call.
THEOREM BundlesStayApart == Spec => []BundlesApart
<1>1. ASSUME IInv PROVE BundlesApart
  <2> SUFFICES ASSUME mode = "ckpt"
               PROVE  /\ baseaddr + BundleSize <= FRAM_END
                      /\ LET b == find_active_bundle
                         IN  b # NoBundle =>
                               \/ baseaddr + BundleSize <= b
                               \/ b + StackOffset + fram[b] + fram[b + 1] + 1 <= baseaddr
    BY DEF BundlesApart
  <2>1. baseaddr \in {0, RamSize} /\ baseaddr # activePtr /\ find_active_bundle = activePtr
    BY <1>1, Search, Sizes DEF IInv, CheckpointInv
  <2>2. baseaddr + BundleSize <= FRAM_END
    BY <1>1, <2>1, BundleFits, Sizes DEF IInv
  <2>3. ASSUME activePtr # NoBundle
        PROVE  \/ baseaddr + BundleSize <= activePtr
               \/ activePtr + StackOffset + fram[activePtr] + fram[activePtr + 1] + 1 <= baseaddr
    <3>1. activePtr \in {0, RamSize}
      BY <1>1, <2>3, Sizes DEF IInv, TypeOK
    <3>2. CASE activePtr = RamSize
      BY <1>1, <2>1, <3>2, BundleFits, Sizes DEF IInv
    <3>3. CASE activePtr = 0
      <4>1. /\ fram[activePtr] = GlobalSize
            /\ fram[activePtr + 3] \in (GlobalSize + 5)..RamSize
            /\ fram[activePtr + 1] = RamSize - fram[activePtr + 3]
        BY <1>1, <2>3, Sizes DEF IInv, BundleInv
      <4>2. 0 + 4 + GlobalSize + (RamSize - fram[activePtr + 3]) + 1 <= RamSize
        BY <4>1, Sizes
      <4> QED
        BY <2>1, <3>3, <4>1, <4>2, Sizes
    <3> QED
      BY <3>1, <3>2, <3>3
  <2> QED
    BY <2>1, <2>2, <2>3
<1> QED
  BY <1>1, Invariance, PTL

\* A program the watchpoint calls stuck has not completed a checkpoint since
\* it was last restored: the restore it resumes at is still noted, and a
\* completed checkpoint has forgotten it.
THEOREM WatchpointIsRight == Spec => StuckPathIsStuck
<1>1. ASSUME IInv, NoteRestorePc, StuckPath(find_active_bundle) PROVE ~progress
  <2>1. find_active_bundle = activePtr /\ activePtr # NoBundle
    BY <1>1, Search DEF IInv, NoteRestorePc
  <2>2. fram[activePtr + 2] \in Pc /\ fram[activePtr + 2] = lastRestorePc
    BY <1>1, <2>1 DEF IInv, BundleInv, StuckPath
  <2> QED
    BY <1>1, <2>2, PcAssumption DEF IInv, WatchpointInv
<1>2. IInv /\ [Next]_vars => [(NoteRestorePc /\ StuckPath(find_active_bundle)) => ~progress]_vars
  BY <1>1
<1> QED
  BY <1>2, Invariance, PTL DEF Spec, StuckPathIsStuck
-----------------------------------------------------------------------------
\* A program that runs is in a state of a program, which is not Off.
LEMMA LiveState ==
    ASSUME IInv, mode \in {"run", "ckpt"}
    PROVE  liveState \in ProgramState /\ liveState # NoBundle
<1> DEFINE g == [a \in Globals |-> ram[a]]
           s == [a \in StackFrom(sp) |-> ram[a]]
<1>1. liveState = Snapshot(g, s, pc)
  BY DEF liveState
<1>2. g \in [Globals -> Value] /\ s \in [StackFrom(sp) -> Value]
  BY Sizes DEF IInv, TypeOK, Globals, StackFrom
<1>3. pc \in Pc \cup {StartPc} /\ sp \in GlobalSize..RamSize
  BY DEF IInv, TypeOK
<1>4. liveState \in ProgramState
  <2> HIDE DEF g, s
  <2> QED
    BY <1>1, <1>2, <1>3 DEF ProgramState
<1> QED
  BY <1>4, OffAssumption

\* Likewise after a step.
LEMMA LiveStateNext ==
    ASSUME IInv', mode' \in {"run", "ckpt"}
    PROVE  liveState' \in ProgramState
<1> DEFINE g == [a \in Globals |-> ram'[a]]
           s == [a \in StackFrom(sp') |-> ram'[a]]
<1>1. liveState' = Snapshot(g, s, pc')
  BY DEF liveState
<1>2. g \in [Globals -> Value] /\ s \in [StackFrom(sp') -> Value]
  BY Sizes DEF IInv, TypeOK, Globals, StackFrom
<1>3. pc' \in Pc \cup {StartPc} /\ sp' \in GlobalSize..RamSize
  BY DEF IInv, TypeOK
<1> HIDE DEF g, s
<1> QED
  BY <1>1, <1>2, <1>3 DEF ProgramState

\* What is saved are the words of the active bundle.
LEMMA SameSaved ==
    ASSUME IInv, UNCHANGED activePtr,
           activePtr # NoBundle =>
               \A j \in 0..RamSize - 1 : fram'[activePtr + j] = fram[activePtr + j]
    PROVE  savedState' = savedState
<1>1. CASE activePtr = NoBundle
  BY <1>1 DEF savedState
<1>2. CASE activePtr # NoBundle
  <2> DEFINE b == activePtr
             s == fram[b + 3]
  <2>1. b \in Nat /\ s \in (GlobalSize + 5)..RamSize /\ fram[b + 1] = RamSize - s
    BY <1>2, Sizes DEF IInv, TypeOK, BundleInv
  <2>2. \A j \in 0..RamSize - 1 : fram'[b + j] = fram[b + j]
    BY <1>2
  <2>3. fram'[b + 1] = fram[b + 1] /\ fram'[b + 2] = fram[b + 2] /\ fram'[b + 3] = fram[b + 3]
    BY <2>2, Sizes
  <2>4. \A a \in Globals : fram'[b + StackOffset + (RamSize - s) + a] = fram[b + StackOffset + (RamSize - s) + a]
    <3> SUFFICES ASSUME NEW a \in Globals
                 PROVE  fram'[b + StackOffset + (RamSize - s) + a] = fram[b + StackOffset + (RamSize - s) + a]
      OBVIOUS
    <3>1. /\ 4 + (RamSize - s) + a \in 0..RamSize - 1
          /\ b + StackOffset + (RamSize - s) + a = b + (4 + (RamSize - s) + a)
      BY <2>1, Sizes DEF Globals
    <3> QED
      BY <2>2, <3>1
  <2>5. \A a \in StackFrom(s) : fram'[b + StackOffset + a - s] = fram[b + StackOffset + a - s]
    <3> SUFFICES ASSUME NEW a \in StackFrom(s)
                 PROVE  fram'[b + StackOffset + a - s] = fram[b + StackOffset + a - s]
      OBVIOUS
    <3>1. /\ 4 + a - s \in 0..RamSize - 1
          /\ b + StackOffset + a - s = b + (4 + a - s)
      BY <2>1, Sizes DEF StackFrom
    <3> QED
      BY <2>2, <3>1
  <2>6. [a \in Globals |-> fram'[b + StackOffset + (RamSize - s) + a]]
        = [a \in Globals |-> fram[b + StackOffset + (RamSize - s) + a]]
    BY <2>4
  <2>7. [a \in StackFrom(s) |-> fram'[b + StackOffset + a - s]]
        = [a \in StackFrom(s) |-> fram[b + StackOffset + a - s]]
    BY <2>5
  <2>8. savedState = Snapshot([a \in Globals |-> fram[b + StackOffset + (RamSize - s) + a]],
                              [a \in StackFrom(s) |-> fram[b + StackOffset + a - s]],
                              fram[b + 2])
    BY <1>2, <2>1 DEF savedState
  <2>9. savedState' = Snapshot([a \in Globals |-> fram'[b + StackOffset + (RamSize - s) + a]],
                               [a \in StackFrom(s) |-> fram'[b + StackOffset + a - s]],
                               fram'[b + 2])
    BY <1>2, <2>1, <2>3 DEF savedState
  <2> QED
    BY <2>3, <2>6, <2>7, <2>8, <2>9
<1> QED
  BY <1>1, <1>2

\* The step that makes the other bundle the active one saves the state the
\* program is in, all of it at once.
LEMMA ActivateSaves ==
    ASSUME IInv, Activate
    PROVE  savedState' = liveState
<1> DEFINE b == baseaddr
<1>1. pc \in Pc /\ b \in Nat /\ b # NoBundle /\ mode = "ckpt"
  BY Search, Sizes, NoBundleAssumption DEF IInv, CheckpointInv, Activate
<1>2. \A k \in 0..(BundleSize - 2) : fram[b + k] = BundleWord(k)
  BY WholeBundle, BundleFits DEF Activate, IInv
<1>3. /\ BundleSize - 2 = 4 + (RamSize - sp) + GlobalSize - 1 /\ BundleSize >= 5
      /\ sp \in (GlobalSize + 5)..RamSize
  BY BundleFits, Sizes DEF IInv, TypeOK, StackInv
<1>4. fram[b + 1] = RamSize - sp /\ fram[b + 2] = pc /\ fram[b + 3] = sp
  <2>1. /\ fram[b + 1] = BundleWord(1) /\ fram[b + 2] = BundleWord(2)
        /\ fram[b + 3] = BundleWord(3)
    BY <1>2, <1>3, Sizes
  <2> QED
    BY <1>1, <2>1, Words DEF IInv
<1>5. ASSUME NEW a \in Globals PROVE fram[b + StackOffset + (RamSize - sp) + a] = ram[a]
  <2>1. /\ 4 + (RamSize - sp) + a \in (4 + (RamSize - sp))..(4 + (RamSize - sp) + GlobalSize - 1)
        /\ 4 + (RamSize - sp) + a \in 0..(BundleSize - 2)
        /\ b + StackOffset + (RamSize - sp) + a = b + (4 + (RamSize - sp) + a)
        /\ (4 + (RamSize - sp) + a) - 4 - (RamSize - sp) = a
    BY <1>1, <1>3, Sizes DEF Globals
  <2> QED
    BY <1>1, <1>2, <2>1, Words DEF IInv
<1>6. ASSUME NEW a \in StackFrom(sp) PROVE fram[b + StackOffset + a - sp] = ram[a]
  <2>1. /\ 4 + a - sp \in 4..(4 + (RamSize - sp) - 1)
        /\ 4 + a - sp \in 0..(BundleSize - 2)
        /\ b + StackOffset + a - sp = b + (4 + a - sp)
        /\ sp + (4 + a - sp) - 4 = a
    BY <1>1, <1>3, Sizes DEF StackFrom
  <2> QED
    BY <1>1, <1>2, <2>1, Words DEF IInv
<1>7. savedState' = Snapshot([a \in Globals |-> fram[b + StackOffset + (RamSize - sp) + a]],
                             [a \in StackFrom(sp) |-> fram[b + StackOffset + a - sp]],
                             pc)
  BY <1>1, <1>4 DEF savedState, Activate
<1>8. liveState = Snapshot([a \in Globals |-> ram[a]], [a \in StackFrom(sp) |-> ram[a]], pc)
  BY <1>1 DEF liveState
<1>9. /\ [a \in Globals |-> fram[b + StackOffset + (RamSize - sp) + a]] = [a \in Globals |-> ram[a]]
      /\ [a \in StackFrom(sp) |-> fram[b + StackOffset + a - sp]] = [a \in StackFrom(sp) |-> ram[a]]
  BY <1>5, <1>6
<1> QED
  BY <1>7, <1>8, <1>9

\* A restore puts the program into the state that was saved.
LEMMA RestoreResumes ==
    ASSUME IInv, Restore
    PROVE  liveState' = savedState
<1> DEFINE b == activePtr
           s == fram[b + 3]
<1>1. b # NoBundle /\ find_active_bundle = b /\ b \in Nat
  BY Search, Sizes DEF IInv, Restore, WatchpointInv, TypeOK
<1>2. /\ fram[b] = GlobalSize /\ s \in (GlobalSize + 5)..RamSize
      /\ fram[b + 1] = RamSize - s
  BY <1>1, Sizes DEF IInv, BundleInv
<1>3. ram' = [a \in 0..RamSize - 1 |->
                IF a < GlobalSize THEN fram[b + 4 + (RamSize - s) + a]
                ELSE IF a >= RamSize - (RamSize - s)
                THEN fram[b + 4 + (RamSize - s) - (RamSize - a)]
                ELSE ram[a]]
  BY <1>1, <1>2, Sizes DEF Restore, IInv, TypeOK
<1>4. ASSUME NEW a \in Globals PROVE ram'[a] = fram[b + StackOffset + (RamSize - s) + a]
  BY <1>3, Sizes DEF Globals
<1>5. ASSUME NEW a \in StackFrom(s) PROVE ram'[a] = fram[b + StackOffset + a - s]
  <2>1. /\ a \in 0..RamSize - 1 /\ ~(a < GlobalSize) /\ a >= RamSize - (RamSize - s)
        /\ b + 4 + (RamSize - s) - (RamSize - a) = b + StackOffset + a - s
    BY <1>1, <1>2, Sizes DEF StackFrom
  <2> QED
    BY <1>3, <2>1
<1>6. sp' = s /\ pc' = fram[b + 2] /\ mode' = "run"
  BY <1>1 DEF Restore
<1>7. liveState' = Snapshot([a \in Globals |-> ram'[a]], [a \in StackFrom(s) |-> ram'[a]], fram[b + 2])
  BY <1>6 DEF liveState
<1>8. savedState = Snapshot([a \in Globals |-> fram[b + StackOffset + (RamSize - s) + a]],
                            [a \in StackFrom(s) |-> fram[b + StackOffset + a - s]],
                            fram[b + 2])
  BY <1>1, <1>2 DEF savedState
<1>9. /\ [a \in Globals |-> fram[b + StackOffset + (RamSize - s) + a]] = [a \in Globals |-> ram'[a]]
      /\ [a \in StackFrom(s) |-> fram[b + StackOffset + a - s]] = [a \in StackFrom(s) |-> ram'[a]]
  BY <1>4, <1>5
<1> QED
  BY <1>7, <1>8, <1>9

\* main() starts in the state that counts as saved while none is.
LEMMA StartMainResumes ==
    ASSUME IInv, StartMain
    PROVE  liveState' = savedState
<1>1. activePtr = NoBundle
  BY Search DEF IInv, StartMain
<1>2. ASSUME NEW a \in Globals PROVE ram'[a] = 0
  BY <1>2, Sizes DEF StartMain, IInv, TypeOK, Globals
<1>3. [a \in Globals |-> ram'[a]] = [a \in Globals |-> 0]
  BY <1>2
<1>4. [a \in StackFrom(RamSize) |-> ram'[a]] = [a \in StackFrom(RamSize) |-> 0]
  BY Sizes DEF StackFrom
<1>5. liveState' = Snapshot([a \in Globals |-> ram'[a]], [a \in StackFrom(RamSize) |-> ram'[a]], StartPc)
  BY DEF StartMain, liveState
<1> QED
  BY <1>1, <1>3, <1>4, <1>5 DEF savedState, StartState

\* Every step of the two bundles is a step of Checkpoints or none: the words
\* of a checkpoint are none, the last of its steps saves the state.
LEMMA PromiseStep ==
    ASSUME IInv, IInv', [Next]_vars
    PROVE  [Promise!Next]_<<liveState, savedState>>
<1> USE DEF Promise!Next, Promise!vars
<1>1. ASSUME UNCHANGED <<mode, program>> PROVE liveState' = liveState
  BY <1>1 DEF program, liveState
<1>2. ASSUME UNCHANGED <<activePtr, fram>> PROVE savedState' = savedState
  BY <1>2, SameSaved
<1>3. CASE ProgramStep
  <2>1. liveState # NoBundle /\ liveState' \in ProgramState
    BY <1>3, LiveState, LiveStateNext DEF ProgramStep
  <2> QED
    BY <1>2, <1>3, <2>1 DEF ProgramStep, Promise!Run
<1>4. CASE Checkpoint
  <2>1. liveState # NoBundle /\ liveState' \in ProgramState
    BY <1>4, LiveState, LiveStateNext DEF Checkpoint
  <2> QED
    BY <1>2, <1>4, <2>1 DEF Checkpoint, Promise!Run
<1>5. CASE WriteWord
  <2>1. cursor \in 0..BundleSize - 2 /\ cursor \in Nat
    BY <1>5, BundleFits DEF WriteWord, TypeOK, IInv
  <2>2. WriteOrder(cursor) \in 0..BundleSize - 2 /\ WriteOrder(cursor) \in 0..BundleSize - 1
    BY <2>1, Order, BundleFits DEF IInv
  <2>3. BundleWord(WriteOrder(cursor)) \in Nat
    BY <1>5, <2>2, Words DEF WriteWord, CheckpointInv, IInv
  <2>4. savedState' = savedState
    BY <1>5, <2>2, <2>3, ActiveUntouched, SameSaved DEF WriteWord
  <2> QED
    BY <1>1, <1>5, <2>4 DEF WriteWord
<1>6. CASE ForgetRestorePc
  BY <1>1, <1>2, <1>6 DEF ForgetRestorePc
<1>7. CASE WriteMagic
  <2>1. BundleWord(BundleSize - 1) \in Nat
    BY MagicWord DEF IInv
  <2>2. fram' = [fram EXCEPT ![baseaddr + (BundleSize - 1)] = BundleWord(BundleSize - 1)]
    BY <1>7, BundleFits, Search, Sizes DEF WriteMagic, CheckpointInv, IInv
  <2>3. BundleSize - 1 \in 0..BundleSize - 1
    BY BundleFits DEF IInv
  <2>4. savedState' = savedState
    BY <1>7, <2>1, <2>2, <2>3, ActiveUntouched, SameSaved DEF WriteMagic
  <2> QED
    BY <1>1, <1>7, <2>4 DEF WriteMagic
<1>8. CASE Activate
  <2>1. liveState # NoBundle
    BY <1>8, LiveState DEF Activate
  <2>2. liveState' = liveState
    BY <1>8 DEF Activate, program, liveState
  <2> QED
    BY <1>8, <2>1, <2>2, ActivateSaves DEF Promise!Save
<1>9. CASE StartMain
  <2>1. liveState = NoBundle
    BY <1>9 DEF StartMain, liveState
  <2> QED
    BY <1>2, <1>9, <2>1, StartMainResumes DEF StartMain, Promise!Resume
<1>10. CASE NoteRestorePc
  <2>1. liveState' = liveState
    BY <1>10 DEF NoteRestorePc, liveState
  <2> QED
    BY <1>2, <1>10, <2>1 DEF NoteRestorePc
<1>11. CASE Restore
  <2>1. liveState = NoBundle
    BY <1>11 DEF Restore, liveState
  <2> QED
    BY <1>2, <1>11, <2>1, RestoreResumes DEF Restore, Promise!Resume
<1>12. CASE PowerFail
  <2>1. liveState' = NoBundle
    BY <1>12 DEF PowerFail, liveState
  <2> QED
    BY <1>2, <1>12, <2>1 DEF PowerFail, Promise!PowerFail
<1>13. CASE UNCHANGED vars
  BY <1>1, <1>2, <1>13 DEF vars, program
<1> QED
  BY <1>3, <1>4, <1>5, <1>6, <1>7, <1>8, <1>9, <1>10, <1>11, <1>12, <1>13 DEF Next

\* The program goes on from the state of the last checkpoint that completed,
\* as it would if a checkpoint were one step, whenever the power fails.
THEOREM Resumption == Spec => ResumesFromCheckpoint
<1>1. Init => Promise!Init
  BY DEF Init, Promise!Init, liveState, savedState
<1>2. IInv /\ IInv' /\ [Next]_vars => [Promise!Next]_<<liveState, savedState>>
  BY PromiseStep
<1> QED
  BY <1>1, <1>2, Invariance, PTL DEF Spec, ResumesFromCheckpoint, Promise!Spec, Promise!vars
=============================================================================
