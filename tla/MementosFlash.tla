--------------------------- MODULE MementosFlash ---------------------------
(***************************************************************************)
(* Mementos for devices with flash memory (mementos_flash.c, and the boot  *)
(* sequence of mementos_main.c, under ext/mementos/libmementos/src).       *)
(* Checkpoints are appended as bundles to one of two segments.  A flash    *)
(* word can be programmed once; only a whole segment can be erased.  A     *)
(* segment whose bundles are superseded is marked by two zero words and    *)
(* erased later.  The power may fail between any two words programmed.     *)
(*                                                                         *)
(* Addresses count words.  A bundle is laid out                            *)
(*   0 header: sizes of stack and globals, 1 PC, ..., stack, globals,      *)
(*   magic number                                                          *)
(* What registers, stack and globals hold makes no difference to where a   *)
(* bundle is found: Data stands for all of it.  Erasing a segment is one   *)
(* step.                                                                   *)
(***************************************************************************)
EXTENDS Naturals, Sequences, FiniteSets

CONSTANTS
    SegSize,     \* words in a segment, MAINMEM_SEGSIZE / 2 in the code
    Registers,   \* words of registers in a bundle
    StackSize,   \* the sizes the stack may have at a checkpoint
    GlobalSize,  \* words of globals
    TornSize,    \* the size of globals a header shows half-way: 0xFF bytes
    JunkSize,    \* the size a word that is no header is read as
    Blank,       \* 0xFFFF
    Zero,        \* 0x0000
    Magic,       \* MEMENTOS_MAGIC_NUMBER
    Data,        \* any other word
    NoBundle     \* 0xFFFF, returned for an address

\* A header has one byte for each size, which is even and in bytes.  The code
\* does not check that the sizes fit.
MaxHeaderSize == 127

ASSUME SizesAssumption ==
    /\ SegSize \in Nat /\ Registers \in Nat \ {0} /\ GlobalSize \in Nat
    /\ StackSize \subseteq Nat /\ TornSize \in Nat /\ JunkSize \in Nat
    /\ \A s \in StackSize : Registers + s + GlobalSize + 2 <= SegSize
    /\ \A s \in StackSize \cup {GlobalSize} : s <= MaxHeaderSize
ASSUME WordsAssumption ==
    /\ Blank # Zero /\ Blank # Magic /\ Blank # Data
    /\ Zero # Magic /\ Zero # Data /\ Magic # Data
    /\ \A s \in StackSize, g \in {GlobalSize, TornSize} : <<s, g>> \notin {Blank, Zero, Magic, Data}
    /\ NoBundle \notin 0..(2 * SegSize - 1)

FIRST_BUNDLE_SEG == 0
SECOND_BUNDLE_SEG == SegSize
FlashEnd == 2 * SegSize
Segment == {FIRST_BUNDLE_SEG, SECOND_BUNDLE_SEG}
Addr == 0..(FlashEnd - 1)

SegmentOf(a) == IF a < SECOND_BUNDLE_SEG THEN FIRST_BUNDLE_SEG ELSE SECOND_BUNDLE_SEG
Other(seg) == IF seg = FIRST_BUNDLE_SEG THEN SECOND_BUNDLE_SEG ELSE FIRST_BUNDLE_SEG

Header == StackSize \X {GlobalSize, TornSize}
Word == {Blank, Zero, Magic, Data} \cup Header

VARIABLES
    flash,     \* the two segments
    mode,      \* where the runtime is
    baseaddr,  \* the bundle being written, or the one found at boot
    stack,     \* the size of the stack at the checkpoint in progress
    cursor,    \* the words of the bundle, or of the mark, already programmed
    newest,    \* history: where the last completed bundle is
    whole      \* history: where the completed bundles not yet erased are

vars == <<flash, mode, baseaddr, stack, cursor, newest, whole>>

-----------------------------------------------------------------------------
(* Flash memory f.                                                         *)

\* What follows the segments is code, or the interrupt vectors.
Memref(f, a) == IF a \in Addr THEN f[a] ELSE Data

\* Programming clears bits.  Of two different words one is blank or zero,
\* or else what is left is neither.
Program(f, a, w) ==
    [f EXCEPT ![a] = IF @ \in {Blank, w} THEN w ELSE IF Zero \in {@, w} THEN Zero ELSE Data]

STRIDE == 1 + Registers

segment_is_empty(f, seg) ==
    \A k \in 0..(SegSize - 1) : k % STRIDE = 0 => f[seg + k] = Blank

segment_marked_erase(f, seg) == f[seg + 1] = Zero /\ f[seg + SegSize - 1] = Zero

\* The words mark_segment_erase() sets to zero, in order.
Mark(seg) == <<seg + 1, seg + SegSize - 1>>

\* f after the words named in the sequence zeros have been cleared.
Cleared(f, zeros) ==
    [a \in Addr |-> IF \E i \in DOMAIN zeros : zeros[i] = a THEN Zero ELSE f[a]]

Erased(f, seg) == [a \in Addr |-> IF SegmentOf(a) = seg THEN Blank ELSE f[a]]

\* The size in words of the stack and the globals a header announces.
Payload(w) == IF w \in Header THEN w[1] + w[2] ELSE IF w = Zero THEN 0 ELSE JunkSize

Size(w) == 1 + Registers + Payload(w) + 1

-----------------------------------------------------------------------------
(* The two searches.  Both clear words as they go: they yield what they    *)
(* return, and the words they have cleared, in order.                      *)

Result(ret, zeros) == [ret |-> ret, zeros |-> zeros]

\* Mutant: whatever has a header passes for a bundle.
IsValid_Any(f, b) == f[b] # Blank

\* The bundle at b, if its header can be trusted, ends in the magic number.
IsValid(f, b) == Memref(f, b + Size(f[b]) - 1) = Magic

\* The walk over the bundles of seg from address b on: the last valid one
\* before the end of the bundles, and whether that end is an abortive one.
Walks(f, seg) ==
    LET walk[b \in seg..(seg + SegSize - 1)] ==
          LET next == b + Size(f[b])
              rest == IF next < seg + SegSize THEN walk[next]
                      ELSE [candidate |-> NoBundle, abortive |-> FALSE]
          IN  IF f[b] = Blank THEN [candidate |-> NoBundle, abortive |-> FALSE]
              ELSE IF ~IsValid(f, b)
              THEN [candidate |-> NoBundle, abortive |-> TRUE]
              ELSE IF rest.candidate = NoBundle THEN [rest EXCEPT !.candidate = b]
              ELSE rest
    IN  walk

Walk(f, seg) == Walks(f, seg)[seg]

\* Mutant: the segment with an abortive bundle is not marked.
MarkAborted_Not(pri, walk) == <<>>

\* A segment that ends in an abortive bundle is to be erased.
MarkAborted(pri, walk) == IF walk.abortive THEN Mark(pri) ELSE <<>>

find_active_bundle(f) ==
    LET pri == IF segment_is_empty(f, FIRST_BUNDLE_SEG)
                  \/ segment_marked_erase(f, FIRST_BUNDLE_SEG)
               THEN SECOND_BUNDLE_SEG ELSE FIRST_BUNDLE_SEG
        w == Walk(f, pri)
        aborted == MarkAborted(pri, w)
        superseded == IF w.candidate # NoBundle
                         /\ ~segment_is_empty(Cleared(f, aborted), FIRST_BUNDLE_SEG)
                      THEN Mark(FIRST_BUNDLE_SEG) ELSE <<>>
    IN  Result(w.candidate, aborted \o superseded)

\* The first blank word where a header could be, from address n on, or
\* FlashEnd + 1 when there is none.
Skips(f) ==
    LET skip[a \in 0..(FlashEnd + 1)] ==
          IF a = FlashEnd + 1 \/ Memref(f, a) = Blank THEN a
          ELSE LET next == a + Size(Memref(f, a))
               IN  skip[IF next > FlashEnd THEN FlashEnd + 1 ELSE next]
    IN  skip

FirstBlank(f, n) == Skips(f)[n]

\* A place at the start of seg, or, when seg is not empty, none yet: seg is
\* marked so that it can be erased.
StartOf(f, seg, zeros) ==
    IF segment_is_empty(f, seg) THEN Result(seg, zeros)
    ELSE Result(NoBundle, zeros \o Mark(seg))

\* Mutant: only the start of the bundle is compared with the end.
Overruns_Start(next, size) == next > SegmentOf(next) + SegSize

Overruns(next, size) == next + size > SegmentOf(next) + SegSize

locate_next_bundle(f0, s) ==
    LET size == Registers + s + GlobalSize + 2
        active == find_active_bundle(f0)
        b == active.ret
        f == Cleared(f0, active.zeros)
        next == FirstBlank(f, b + Size(f[b]))
        other == Other(SegmentOf(b))
    IN  IF b = NoBundle
        THEN Result(IF segment_is_empty(f, FIRST_BUNDLE_SEG) THEN FIRST_BUNDLE_SEG
                    ELSE IF segment_is_empty(f, SECOND_BUNDLE_SEG) THEN SECOND_BUNDLE_SEG
                    ELSE NoBundle, active.zeros)
        ELSE IF next > FlashEnd
        THEN IF segment_marked_erase(f, other) /\ ~segment_is_empty(f, other)
             THEN Result(NoBundle, active.zeros)
             ELSE StartOf(f, other, active.zeros)
        ELSE IF Overruns(next, size)
        THEN StartOf(f, Other(SegmentOf(next)), active.zeros)
        ELSE Result(next, active.zeros)

-----------------------------------------------------------------------------
(* A checkpoint.                                                           *)

Forget(seg) == /\ whole' = {b \in whole : SegmentOf(b) # seg}
               /\ newest' = newest

\* The program reaches a trigger point: find a place for a bundle.
Checkpoint ==
    /\ mode = "run"
    /\ \E s \in StackSize :
         LET r == locate_next_bundle(flash, s)
         IN  /\ stack' = s
             /\ flash' = Cleared(flash, r.zeros)
             /\ baseaddr' = r.ret
             /\ mode' = IF r.ret = NoBundle THEN "makeRoom" ELSE "write"
    /\ cursor' = 0
    /\ UNCHANGED <<newest, whole>>

\* No place: erase one segment that is marked.  That one is, RoomCanBeMade
\* says: the last branch of the code, which marks both and does without the
\* checkpoint, is never taken and is left out.
MakeRoom(seg) ==
    /\ mode = "makeRoom"
    /\ segment_marked_erase(flash, seg)
    /\ seg = SECOND_BUNDLE_SEG => ~segment_marked_erase(flash, FIRST_BUNDLE_SEG)
    /\ flash' = Erased(flash, seg)
    /\ baseaddr' = seg
    /\ mode' = "write"
    /\ Forget(seg)
    /\ UNCHANGED <<stack, cursor>>

BundleSize == Registers + stack + GlobalSize + 2

\* Mutant: the two bytes of the header change places.
WriteHeader_Swapped ==
    /\ mode = "write"
    /\ cursor < 2
    /\ flash' = [flash EXCEPT ![baseaddr] =
                    IF cursor = 0 THEN <<TornSize, stack>> ELSE <<GlobalSize, stack>>]
    /\ cursor' = cursor + 1
    /\ UNCHANGED <<mode, baseaddr, stack, newest, whole>>

\* The header, one byte after the other.
WriteHeader ==
    /\ mode = "write"
    /\ cursor < 2
    /\ flash' = IF cursor = 0 THEN Program(flash, baseaddr, <<stack, TornSize>>)
                ELSE IF flash[baseaddr] = <<stack, TornSize>>
                THEN [flash EXCEPT ![baseaddr] = <<stack, GlobalSize>>]
                ELSE flash
    /\ cursor' = cursor + 1
    /\ UNCHANGED <<mode, baseaddr, stack, newest, whole>>

\* The registers from the last to the first, then stack and globals.
WriteData ==
    /\ mode = "write"
    /\ cursor \in 2..(BundleSize - 1)
    /\ LET k == IF cursor <= Registers + 1 THEN Registers + 2 - cursor ELSE cursor - 1
       IN  flash' = Program(flash, baseaddr + k, Data)
    /\ cursor' = cursor + 1
    /\ UNCHANGED <<mode, baseaddr, stack, newest, whole>>

\* The magic number completes the bundle.  If it is the first of its
\* segment, the other segment is superseded.
WriteMagic ==
    /\ mode = "write"
    /\ cursor = BundleSize
    /\ flash' = Program(flash, baseaddr + BundleSize - 1, Magic)
    /\ newest' = baseaddr
    /\ whole' = whole \cup {baseaddr}
    /\ cursor' = 0
    /\ mode' = IF baseaddr \in Segment /\ ~segment_is_empty(flash, Other(baseaddr))
               THEN "supersede" ELSE "run"
    /\ UNCHANGED <<baseaddr, stack>>

MarkSuperseded ==
    /\ mode = "supersede"
    /\ flash' = Program(flash, Mark(Other(baseaddr))[cursor + 1], Zero)
    /\ cursor' = (cursor + 1) % 2
    /\ mode' = IF cursor = 1 THEN "run" ELSE mode
    /\ UNCHANGED <<baseaddr, stack, newest, whole>>

-----------------------------------------------------------------------------
(* Boot: main() of mementos_main.c.                                        *)

\* atboot_cleanup() takes the segments in turn.
Cleanup(seg, now, next) ==
    /\ mode = now
    /\ mode' = next
    /\ IF segment_marked_erase(flash, seg)
       THEN flash' = Erased(flash, seg) /\ Forget(seg)
       ELSE UNCHANGED <<flash, newest, whole>>
    /\ UNCHANGED <<baseaddr, stack, cursor>>

CleanFirst == Cleanup(FIRST_BUNDLE_SEG, "off", "cleanSecond")
CleanSecond == Cleanup(SECOND_BUNDLE_SEG, "cleanSecond", "find")

\* The program starts from its beginning when no bundle is found.
Find ==
    /\ mode = "find"
    /\ LET r == find_active_bundle(flash)
       IN  /\ flash' = Cleared(flash, r.zeros)
           /\ baseaddr' = r.ret
           /\ mode' = IF r.ret = NoBundle THEN "run" ELSE "restore"
    /\ UNCHANGED <<stack, cursor, newest, whole>>

\* inactive_cleanup() erases the other segment, and the program goes on from
\* the bundle.
Restore ==
    /\ mode = "restore"
    /\ LET seg == Other(SegmentOf(baseaddr))
       IN  IF segment_is_empty(flash, seg)
           THEN UNCHANGED <<flash, newest, whole>>
           ELSE flash' = Erased(flash, seg) /\ Forget(seg)
    /\ mode' = "run"
    /\ UNCHANGED <<baseaddr, stack, cursor>>

-----------------------------------------------------------------------------
(* Power failures.                                                         *)

Off == /\ mode' = "off"
       /\ baseaddr' = NoBundle
       /\ cursor' = 0
       /\ UNCHANGED <<stack, newest, whole>>

PowerFail == mode # "off" /\ Off /\ flash' = flash

\* A search is cut short between two words it clears.
TornBy(zeros) == \E n \in 1..(Len(zeros) - 1) : flash' = Cleared(flash, SubSeq(zeros, 1, n))

TornSearch ==
    /\ \/ mode = "run" /\ \E s \in StackSize : TornBy(locate_next_bundle(flash, s).zeros)
       \/ mode = "find" /\ TornBy(find_active_bundle(flash).zeros)
    /\ Off

Init == /\ flash = [a \in Addr |-> Blank]
        /\ mode = "off"
        /\ baseaddr = NoBundle
        /\ stack \in StackSize
        /\ cursor = 0
        /\ newest = NoBundle
        /\ whole = {}

Next == \/ Checkpoint \/ (\E seg \in Segment : MakeRoom(seg))
        \/ WriteHeader \/ WriteData \/ WriteMagic \/ MarkSuperseded
        \/ CleanFirst \/ CleanSecond \/ Find \/ Restore
        \/ PowerFail \/ TornSearch

Spec == Init /\ [][Next]_vars

-----------------------------------------------------------------------------
(* Properties.                                                             *)

\* Every variable stays within its range.
TypeOK == /\ flash \in [Addr -> Word]
          /\ mode \in {"off", "cleanSecond", "find", "restore", "run", "makeRoom",
                       "write", "supersede"}
          /\ baseaddr \in Addr \cup {NoBundle}
          /\ stack \in StackSize
          /\ cursor \in 0..SegSize
          /\ newest \in Addr \cup {NoBundle}
          /\ whole \subseteq Addr

\* A bundle never crosses the end of its segment.
BundleInSegment ==
    mode = "write" => baseaddr + BundleSize <= SegmentOf(baseaddr) + SegSize

\* What is restored at boot is a bundle that was completed, however many
\* half-written ones, half-written headers included, lie about it.
FoundIsWhole == mode = "restore" => baseaddr \in whole

\* When there is no place for a checkpoint, a segment has been marked: the
\* branch "oh god, neither segment was marked for erasure" is never taken.
RoomCanBeMade ==
    mode = "makeRoom" => \E seg \in Segment : segment_marked_erase(flash, seg)

\* Not what the code does: the search finds the most recent complete
\* checkpoint.
FindsNewest == mode = "restore" => baseaddr = newest
-----------------------------------------------------------------------------
(* The inductive invariant.                                                *)

marked(seg) == segment_marked_erase(flash, seg)
BlankFrom(a, seg) == \A b \in a..(seg + SegSize - 1) : flash[b] = Blank
IsBlank(seg) == BlankFrom(seg, seg)
Running == mode \in {"restore", "run", "makeRoom", "write", "supersede"}

\* Nothing is put in the first segment before a header at its start, and
\* room is always made there.
RoomInv ==
    /\ flash[FIRST_BUNDLE_SEG] = Blank => IsBlank(FIRST_BUNDLE_SEG)
    /\ mode = "makeRoom" => marked(FIRST_BUNDLE_SEG) /\ cursor = 0
    /\ mode = "restore" => baseaddr \in Addr
    /\ mode = "write" =>
          /\ baseaddr \in Addr /\ BundleInSegment /\ cursor <= BundleSize
          /\ flash[FIRST_BUNDLE_SEG] = Blank =>
                baseaddr >= SECOND_BUNDLE_SEG \/ (baseaddr = FIRST_BUNDLE_SEG /\ cursor = 0)
    /\ mode = "supersede" =>
          /\ baseaddr \in Segment /\ cursor \in 0..1
          /\ baseaddr = SECOND_BUNDLE_SEG => flash[FIRST_BUNDLE_SEG] # Blank

\* A header that is only half-written makes no bundle at the start of a
\* segment look as if it went on in the other.  The code does not check it.
TornFits == \A s \in StackSize : Registers + s + TornSize + 2 <= SegSize

\* A segment is marked from its second word to its last.
EndInv == \A seg \in Segment : flash[seg + SegSize - 1] = Zero => flash[seg + 1] = Zero
MarkInv ==
    /\ EndInv
    /\ mode = "supersede" => /\ ~segment_is_empty(flash, Other(baseaddr))
                             /\ cursor = 1 => flash[Other(baseaddr) + 1] = Zero

\* Until the first segment is marked, it holds one bundle, at its start.
FirstInv == ~marked(FIRST_BUNDLE_SEG) =>
    LET h == flash[FIRST_BUNDLE_SEG]
    IN  /\ h \in {Blank} \cup Header
        /\ h # Blank => BlankFrom(Size(h), FIRST_BUNDLE_SEG)
        /\ h = Blank => \A b \in whole : b >= SECOND_BUNDLE_SEG
        /\ FIRST_BUNDLE_SEG \notin whole => \A a \in 0..(SegSize - 1) : flash[a] # Magic

\* Until the second segment is marked, a bundle that is whole is followed by
\* the next one, or by nothing, and no bundle is whole behind one that is not.
IsHeader(h) == h \in SECOND_BUNDLE_SEG..(FlashEnd - 1) /\ flash[h] \in Header
Chained(h) == LET n == h + Size(flash[h])
              IN  /\ n <= FlashEnd
                  /\ n < FlashEnd => flash[n] \in Header \/ BlankFrom(n, SECOND_BUNDLE_SEG)
                  /\ \A g \in SECOND_BUNDLE_SEG..(FlashEnd - 1) : g > h /\ IsHeader(g) => n <= g

SecondInv == ~marked(SECOND_BUNDLE_SEG) =>
    /\ segment_is_empty(flash, SECOND_BUNDLE_SEG) => IsBlank(SECOND_BUNDLE_SEG)
    /\ flash[SECOND_BUNDLE_SEG] \in {Blank} \cup Header
    /\ flash[SECOND_BUNDLE_SEG + 1] \notin Header
    /\ \A b \in whole : b >= SECOND_BUNDLE_SEG => flash[b] \in Header
    /\ flash[SECOND_BUNDLE_SEG] # Blank =>
          \A h \in SECOND_BUNDLE_SEG..(FlashEnd - 1) : IsHeader(h) =>
             IF h \in whole THEN Chained(h)
             ELSE \A a \in h..(FlashEnd - 1) : flash[a] # Magic

\* The bundle underway is the last one of its segment: those before it end
\* where it begins.
EndsAt(b) == \A h \in SECOND_BUNDLE_SEG..(FlashEnd - 1) :
    IsHeader(h) => h + Size(flash[h]) = b \/ IsHeader(h + Size(flash[h]))

Underway(seg) ==
    /\ baseaddr \notin whole
    /\ cursor = 0 => BlankFrom(baseaddr, seg)
    /\ cursor = 1 => flash[baseaddr] = <<stack, TornSize>> /\ BlankFrom(baseaddr + 1, seg)
    /\ cursor > 1 => /\ flash[baseaddr] = <<stack, GlobalSize>>
                     /\ BlankFrom(baseaddr + BundleSize, seg)
                     /\ \A a \in (baseaddr + 1)..(seg + SegSize - 1) : flash[a] \in {Blank, Data}
    /\ seg = FIRST_BUNDLE_SEG => baseaddr = seg
    /\ seg = SECOND_BUNDLE_SEG =>
         \/ baseaddr = seg
         \/ baseaddr = seg + STRIDE /\ (cursor = 0 => IsBlank(seg))
         \/ baseaddr >= seg + STRIDE /\ flash[seg] # Blank /\ (cursor = 0 => EndsAt(baseaddr))

WriteInv == mode = "write" =>
    /\ SegmentOf(baseaddr) = SECOND_BUNDLE_SEG => marked(FIRST_BUNDLE_SEG) \/ IsBlank(FIRST_BUNDLE_SEG)
    /\ ~marked(SegmentOf(baseaddr)) => Underway(SegmentOf(baseaddr))

\* What a power failure has cut short in the second segment: it is marked
\* before the program runs again.
NoneCut == \A h \in SECOND_BUNDLE_SEG..(FlashEnd - 1) :
    IsHeader(h) => h \in whole \/ (mode = "write" /\ h = baseaddr)

CutInv ==
    /\ mode \in {"cleanSecond", "find"} => ~marked(FIRST_BUNDLE_SEG)
    /\ mode = "find" => ~marked(SECOND_BUNDLE_SEG)
    /\ ~marked(SECOND_BUNDLE_SEG) /\ flash[SECOND_BUNDLE_SEG] # Blank =>
         NoneCut \/ (~Running /\ (marked(FIRST_BUNDLE_SEG) \/ IsBlank(FIRST_BUNDLE_SEG)))

\* A bundle of the first segment supersedes those of the second.
SupersedeInv ==
    mode = "run" /\ ~marked(FIRST_BUNDLE_SEG) /\ flash[FIRST_BUNDLE_SEG] # Blank =>
        marked(SECOND_BUNDLE_SEG) \/ IsBlank(SECOND_BUNDLE_SEG)

WholeInv == MarkInv /\ FirstInv /\ SecondInv /\ WriteInv /\ CutInv /\ SupersedeInv /\ FoundIsWhole
=============================================================================
