------------------------- MODULE MementosFlashProofs -------------------------
(***************************************************************************)
(* Proofs about MementosFlash, for segments, registers, stacks and globals *)
(* of any size.                                                            *)
(***************************************************************************)
EXTENDS MementosFlash, SequenceTheorems, WellFoundedInduction, TLAPS

-----------------------------------------------------------------------------
(* Sizes and addresses.                                                    *)

\* The sizes are numbers, and the smallest bundle fits in a segment.
LEMMA Sizes ==
    ASSUME NEW s \in StackSize
    PROVE  /\ SegSize \in Nat /\ Registers \in Nat /\ Registers >= 1 /\ GlobalSize \in Nat
           /\ TornSize \in Nat /\ JunkSize \in Nat /\ s \in Nat
           /\ Registers + s + GlobalSize + 2 <= SegSize
           /\ Registers + 2 <= SegSize
           /\ FIRST_BUNDLE_SEG = 0 /\ SECOND_BUNDLE_SEG = SegSize /\ FlashEnd = 2 * SegSize /\ FlashEnd \in Nat
           /\ Addr = 0..(FlashEnd - 1) /\ STRIDE = Registers + 1
<1>1. /\ SegSize \in Nat /\ Registers \in Nat /\ Registers >= 1 /\ GlobalSize \in Nat
      /\ TornSize \in Nat /\ JunkSize \in Nat /\ s \in Nat
      /\ Registers + s + GlobalSize + 2 <= SegSize
  BY SizesAssumption
<1> QED
  BY <1>1 DEF FIRST_BUNDLE_SEG, SECOND_BUNDLE_SEG, FlashEnd, Addr, STRIDE

\* The words of the flash memory are not to be confused.
LEMMA Words ==
    /\ Blank # Zero /\ Blank # Magic /\ Blank # Data /\ Zero # Magic /\ Zero # Data /\ Magic # Data
    /\ Blank \notin Header /\ Zero \notin Header /\ Magic \notin Header /\ Data \notin Header
    /\ NoBundle \notin Addr
BY WordsAssumption DEF Header, Addr, FlashEnd

\* The size a word announces, be it a header or not.
LEMMA SizeIs ==
    ASSUME StackSize # {}, NEW w
    PROVE  /\ Size(w) \in Nat /\ Size(w) >= Registers + 2
           /\ w \in Header => /\ w[1] \in StackSize /\ w[2] \in {GlobalSize, TornSize}
                              /\ Size(w) = Registers + w[1] + w[2] + 2
           /\ w = Zero => Size(w) = Registers + 2
<1>1. /\ Registers \in Nat /\ GlobalSize \in Nat /\ TornSize \in Nat /\ JunkSize \in Nat /\ StackSize \subseteq Nat
      /\ Zero \notin Header
  BY SizesAssumption, Words
<1>2. Payload(w) \in Nat
  <2>1. w \in Header => w[1] \in Nat /\ w[2] \in Nat
    BY <1>1 DEF Header
  <2> QED
    BY <1>1, <2>1 DEF Payload
<1>3. Size(w) \in Nat /\ Size(w) >= Registers + 2
  BY <1>1, <1>2 DEF Size
<1>4. ASSUME w \in Header
      PROVE  /\ w[1] \in StackSize /\ w[2] \in {GlobalSize, TornSize}
             /\ Size(w) = Registers + w[1] + w[2] + 2
  <2>1. w[1] \in StackSize /\ w[2] \in {GlobalSize, TornSize} /\ w[1] \in Nat /\ w[2] \in Nat
    BY <1>1, <1>4 DEF Header
  <2>2. Size(w) = 1 + Registers + (w[1] + w[2]) + 1
    BY <1>4 DEF Size, Payload
  <2> QED
    BY <1>1, <2>1, <2>2
<1>5. w = Zero => Size(w) = Registers + 2
  BY <1>1 DEF Size, Payload
<1> QED
  BY <1>3, <1>4, <1>5

\* The segments.
LEMMA Segments ==
    ASSUME StackSize # {}
    PROVE  /\ Segment = {0, SegSize} /\ SegSize \in Nat /\ SegSize >= 3
           /\ Other(0) = SegSize /\ Other(SegSize) = 0
           /\ \A a \in Addr : (a < SegSize /\ SegmentOf(a) = 0) \/ (a >= SegSize /\ SegmentOf(a) = SegSize)
           /\ \A seg \in Segment : /\ seg \in Addr /\ seg \in Nat /\ SegmentOf(seg) = seg /\ Other(seg) \in Segment
                                   /\ seg + 1 \in Addr /\ seg + SegSize - 1 \in Addr /\ seg + SegSize - 1 > seg + 1
                                   /\ \A a \in Addr : SegmentOf(a) = seg <=> a \in seg..(seg + SegSize - 1)
                                   /\ \A a \in seg..(seg + SegSize - 1) : a \in Addr
<1> PICK s \in StackSize : TRUE
  OBVIOUS
<1>1. SegSize \in Nat /\ SegSize >= 3 /\ FlashEnd = SegSize + SegSize /\ Addr = 0..(SegSize + SegSize - 1)
  BY Sizes
<1>2. Segment = {0, SegSize} /\ Other(0) = SegSize /\ Other(SegSize) = 0
  BY <1>1 DEF Segment, Other, FIRST_BUNDLE_SEG, SECOND_BUNDLE_SEG
<1>3. ASSUME NEW a \in Addr
      PROVE  (a < SegSize /\ SegmentOf(a) = 0) \/ (a >= SegSize /\ SegmentOf(a) = SegSize)
  <2>1. SegmentOf(a) = IF a < SegSize THEN 0 ELSE SegSize
    BY DEF SegmentOf, FIRST_BUNDLE_SEG, SECOND_BUNDLE_SEG
  <2>2. a \in Nat
    BY <1>1
  <2> QED
    BY <1>1, <2>1, <2>2
<1> QED
  BY <1>1, <1>2, <1>3

\* What holds of a number when it holds of all larger ones, holds of all.
LEMMA DownInduction ==
    ASSUME NEW lo \in Nat, NEW hi \in Nat, NEW P,
           \A b \in lo..hi : (\A c \in (b + 1)..hi : c \in P) => b \in P
    PROVE  \A b \in lo..hi : b \in P
<1> SUFFICES ASSUME \E b \in lo..hi : b \notin P PROVE FALSE
  OBVIOUS
<1> DEFINE T == {n \in Nat : n <= hi /\ hi - n \in lo..hi /\ hi - n \notin P}
<1>1. PICK b \in lo..hi : b \notin P
  OBVIOUS
<1>2. hi - b \in T
  BY <1>1
<1>3. PICK m \in T : \A k \in T : ~(<<k, m>> \in OpToRel(<, Nat))
  BY <1>2, NatLessThanWellFounded, WFMin
<1>4. \A k \in T : ~(k < m)
  BY <1>3 DEF OpToRel
<1>5. ASSUME NEW c \in (hi - m + 1)..hi PROVE c \in P
  <2>1. c \in lo..hi /\ hi - c \in Nat /\ hi - c < m /\ hi - (hi - c) = c
    <3>1. m \in Nat /\ hi - m \in lo..hi /\ m <= hi
      BY <1>3
    <3>2. c \in (hi - m + 1)..hi
      BY <1>5
    <3> QED
      BY <3>1, <3>2
  <2> QED
    BY <1>4, <2>1
<1>6. hi - m \in P
  BY <1>3, <1>5
<1> QED
  BY <1>3, <1>6

-----------------------------------------------------------------------------
(* The two recursive functions are what their definitions say.             *)

\* What the walk finds at b, given what it finds behind b.
WalkAt(f, seg, walk, b) ==
    LET next == b + Size(f[b])
        rest == IF next < seg + SegSize THEN walk[next]
                ELSE [candidate |-> NoBundle, abortive |-> FALSE]
    IN  IF f[b] = Blank THEN [candidate |-> NoBundle, abortive |-> FALSE]
        ELSE IF ~IsValid(f, b)
        THEN [candidate |-> NoBundle, abortive |-> TRUE]
        ELSE IF rest.candidate = NoBundle THEN [rest EXCEPT !.candidate = b]
        ELSE rest

Found == [candidate : Addr \cup {NoBundle}, abortive : BOOLEAN]

\* The walk is defined everywhere in a segment.
LEMMA WalksExist ==
    ASSUME StackSize # {}, NEW f, NEW seg \in Segment
    PROVE  \E g \in [seg..(seg + SegSize - 1) -> Found] :
              g = [b \in seg..(seg + SegSize - 1) |-> WalkAt(f, seg, g, b)]
<1> DEFINE end == seg + SegSize - 1
           S == seg..end
           P == {n \in S : \E g \in [S -> Found] : \A b \in n..end : g[b] = WalkAt(f, seg, g, b)}
<1>1. seg \in Nat /\ end \in Nat /\ seg < end /\ (\A b \in S : b \in Addr /\ b + Size(f[b]) \in Nat /\ b + Size(f[b]) > b)
  BY Segments, SizeIs, SizesAssumption
<1>2. ASSUME NEW g \in [S -> Found], NEW b \in S PROVE WalkAt(f, seg, g, b) \in Found
  <2>1. b + Size(f[b]) < seg + SegSize => g[b + Size(f[b])] \in Found
    BY <1>1, Segments
  <2> QED
    BY <1>1, <2>1 DEF WalkAt, Found
<1>3. ASSUME NEW g \in [S -> Found], NEW h \in [S -> Found], NEW b \in S, \A c \in (b + 1)..end : g[c] = h[c]
      PROVE  WalkAt(f, seg, g, b) = WalkAt(f, seg, h, b)
  <2>1. b + Size(f[b]) < seg + SegSize => g[b + Size(f[b])] = h[b + Size(f[b])]
    BY <1>1, <1>3, Segments
  <2> QED
    BY <2>1 DEF WalkAt
<1>4. ASSUME NEW n \in S, \A c \in (n + 1)..end : c \in P PROVE n \in P
  <2>1. PICK g \in [S -> Found] : \A b \in (n + 1)..end : g[b] = WalkAt(f, seg, g, b)
    <3>1. CASE n = end
      <4>1. (n + 1)..end = {}
        BY <1>1, <3>1
      <4>2. [b \in S |-> [candidate |-> NoBundle, abortive |-> FALSE]] \in [S -> Found]
        BY DEF Found
      <4> QED
        BY <4>1, <4>2
    <3>2. CASE n # end
      <4>1. n + 1 \in (n + 1)..end /\ n + 1 \in S
        BY <1>1, <3>2
      <4> QED
        BY <1>4, <4>1
    <3> QED
      BY <3>1, <3>2
  <2> DEFINE h == [g EXCEPT ![n] = WalkAt(f, seg, g, n)]
  <2>2. h \in [S -> Found]
    BY <1>2
  <2>3. \A c \in (n + 1)..end : c \in S /\ h[c] = g[c]
    BY <1>1
  <2>4. h[n] = WalkAt(f, seg, h, n)
    <3>1. h[n] = WalkAt(f, seg, g, n)
      OBVIOUS
    <3> HIDE DEF h
    <3>2. WalkAt(f, seg, g, n) = WalkAt(f, seg, h, n)
      BY <1>3, <2>2, <2>3
    <3> QED
      BY <3>1, <3>2
  <2>5. ASSUME NEW b \in (n + 1)..end PROVE h[b] = WalkAt(f, seg, h, b)
    <3> HIDE DEF h
    <3>1. b \in S /\ \A c \in (b + 1)..end : c \in (n + 1)..end
      BY <1>1
    <3>2. WalkAt(f, seg, g, b) = WalkAt(f, seg, h, b)
      BY <1>3, <2>2, <2>3, <3>1
    <3> QED
      BY <2>1, <2>3, <3>2
  <2>6. \A b \in n..end : b = n \/ b \in (n + 1)..end
    BY <1>1
  <2> HIDE DEF h
  <2> QED
    BY <2>2, <2>4, <2>5, <2>6
<1>5. seg \in P
  <2>1. \A b \in seg..end : b \in P
    <3> HIDE DEF P
    <3> QED
      BY <1>1, <1>4, DownInduction
  <2> QED
    BY <1>1, <2>1
<1>6. PICK g \in [S -> Found] : \A b \in S : g[b] = WalkAt(f, seg, g, b)
  BY <1>5
<1> QED
  BY <1>6

\* The function Walk() chooses is one that does so.
LEMMA WalksAre ==
    ASSUME StackSize # {}, NEW f, NEW seg \in Segment
    PROVE  Walks(f, seg) = [b \in seg..(seg + SegSize - 1) |-> WalkAt(f, seg, Walks(f, seg), b)]
<1> DEFINE W == CHOOSE h : h = [b \in seg..(seg + SegSize - 1) |-> WalkAt(f, seg, h, b)]
<1>1. W = [b \in seg..(seg + SegSize - 1) |-> WalkAt(f, seg, W, b)]
  <2>1. PICK g : g = [b \in seg..(seg + SegSize - 1) |-> WalkAt(f, seg, g, b)]
    BY WalksExist
  <2> QED
    BY <2>1
<1>2. Walks(f, seg) = W
  BY DEF Walks, WalkAt
<1> QED
  BY <1>1, <1>2

\* The walk finds addresses of the segment.
LEMMA WalksType ==
    ASSUME StackSize # {}, NEW f, NEW seg \in Segment
    PROVE  Walks(f, seg) \in [seg..(seg + SegSize - 1) -> Found]
<1> DEFINE end == seg + SegSize - 1
           S == seg..end
           W == Walks(f, seg)
           P == {b \in S : W[b] \in Found}
<1>1. seg \in Nat /\ end \in Nat /\ seg < end /\ (\A b \in S : b \in Addr /\ b + Size(f[b]) \in Nat /\ b + Size(f[b]) > b)
  BY Segments, SizeIs, SizesAssumption
<1>2. W = [b \in S |-> WalkAt(f, seg, W, b)]
  BY WalksAre
<1>3. ASSUME NEW b \in S, \A c \in (b + 1)..end : c \in P PROVE b \in P
  <2>1. b + Size(f[b]) < seg + SegSize => W[b + Size(f[b])] \in Found
    BY <1>1, <1>3, Segments
  <2>2. WalkAt(f, seg, W, b) \in Found
    BY <1>1, <2>1 DEF WalkAt, Found
  <2> QED
    BY <1>2, <2>2
<1>4. \A b \in seg..end : b \in P
  <2> HIDE DEF P
  <2> QED
    BY <1>1, <1>3, DownInduction
<1> QED
  BY <1>2, <1>4

\* The steps of the walk.
LEMMA WalkSteps ==
    ASSUME StackSize # {}, NEW f, NEW seg \in Segment, NEW b \in seg..(seg + SegSize - 1)
    PROVE  LET w == Walks(f, seg)[b]
               next == b + Size(f[b])
           IN  /\ w.candidate \in Addr \cup {NoBundle} /\ w.abortive \in BOOLEAN
               /\ next \in Nat /\ next > b /\ b \in Addr
               /\ f[b] = Blank => w.candidate = NoBundle /\ ~w.abortive
               /\ f[b] # Blank /\ ~IsValid(f, b) => w.candidate = NoBundle /\ w.abortive
               /\ f[b] # Blank /\ IsValid(f, b) /\ next >= seg + SegSize => w.candidate = b /\ ~w.abortive
               /\ f[b] # Blank /\ IsValid(f, b) /\ next < seg + SegSize =>
                     /\ next \in (b + 1)..(seg + SegSize - 1)
                     /\ w.abortive = Walks(f, seg)[next].abortive
                     /\ w.candidate = IF Walks(f, seg)[next].candidate = NoBundle THEN b
                                      ELSE Walks(f, seg)[next].candidate
<1> DEFINE W == Walks(f, seg)
           next == b + Size(f[b])
<1>1. b \in Addr /\ next \in Nat /\ next > b /\ seg \in Nat /\ SegSize \in Nat
  BY Segments, SizeIs, SizesAssumption
<1>2. W[b] = WalkAt(f, seg, W, b)
  BY WalksAre
<1>3. next < seg + SegSize => next \in (b + 1)..(seg + SegSize - 1) /\ next \in seg..(seg + SegSize - 1)
  BY <1>1
<1>4. W[b] \in Found /\ (next < seg + SegSize => W[next] \in Found)
  BY <1>3, WalksType
<1>5. W[b].candidate \in Addr \cup {NoBundle} /\ W[b].abortive \in BOOLEAN
  BY <1>4 DEF Found
<1>6. CASE f[b] = Blank
  BY <1>1, <1>2, <1>3, <1>5, <1>6 DEF WalkAt
<1>7. CASE f[b] # Blank /\ ~IsValid(f, b)
  <2>1. W[b] = [candidate |-> NoBundle, abortive |-> TRUE]
    BY <1>2, <1>7 DEF WalkAt
  <2>2. W[b].candidate = NoBundle /\ W[b].abortive
    BY <2>1
  <2> QED
    BY <1>1, <1>5, <1>7, <2>2
<1>8. CASE f[b] # Blank /\ IsValid(f, b) /\ next >= seg + SegSize
  <2>1. ~(next < seg + SegSize)
    BY <1>1, <1>8
  <2>2. W[b] = [[candidate |-> NoBundle, abortive |-> FALSE] EXCEPT !.candidate = b]
    BY <1>2, <1>8, <2>1 DEF WalkAt
  <2> QED
    BY <1>1, <1>5, <1>8, <2>1, <2>2
<1>9. CASE f[b] # Blank /\ IsValid(f, b) /\ next < seg + SegSize
  <2>1. W[b] = IF W[next].candidate = NoBundle THEN [W[next] EXCEPT !.candidate = b] ELSE W[next]
    BY <1>2, <1>9 DEF WalkAt
  <2>2. W[next] \in Found
    BY <1>4, <1>9
  <2>3. /\ W[b].abortive = W[next].abortive
        /\ W[b].candidate = IF W[next].candidate = NoBundle THEN b ELSE W[next].candidate
    BY <2>1, <2>2 DEF Found
  <2> QED
    BY <1>1, <1>3, <1>5, <1>9, <2>3
<1> QED
  BY <1>1, <1>6, <1>7, <1>8, <1>9

\* A walk from b finds the last valid bundle in front of a blank word or of
\* an abortive bundle; it finds none, and no abortive one, only at a blank word.
WalkFound(f, seg, b) ==
    LET w == Walks(f, seg)[b]
        next == w.candidate + Size(f[w.candidate])
    IN  /\ w.abortive => f[b] # Blank
        /\ w.candidate = NoBundle /\ ~w.abortive => f[b] = Blank
        /\ w.candidate # NoBundle =>
              /\ w.candidate \in b..(seg + SegSize - 1)
              /\ f[w.candidate] # Blank /\ IsValid(f, w.candidate) /\ f[b] # Blank
              /\ ~w.abortive /\ next < seg + SegSize => f[next] = Blank

\* Every walk ends at a blank word or is abortive, and what it finds is valid.
LEMMA WalkFinds ==
    ASSUME StackSize # {}, NEW f, NEW seg \in Segment
    PROVE  \A b \in seg..(seg + SegSize - 1) : WalkFound(f, seg, b)
<1> DEFINE end == seg + SegSize - 1
           W == Walks(f, seg)
           P == {b \in seg..end : WalkFound(f, seg, b)}
<1>1. seg \in Nat /\ end \in Nat /\ SegSize \in Nat /\ NoBundle \notin Addr
  BY Segments, Words
<1>2. ASSUME NEW b \in seg..end, \A c \in (b + 1)..end : c \in P PROVE b \in P
  <2> DEFINE next == b + Size(f[b])
  <2>1. /\ next \in Nat /\ next > b /\ b \in Addr
        /\ W[b].candidate \in Addr \cup {NoBundle} /\ W[b].abortive \in BOOLEAN
    BY WalkSteps
  <2>2. CASE f[b] = Blank
    <3>1. W[b].candidate = NoBundle /\ ~W[b].abortive
      BY <2>2, WalkSteps
    <3> QED
      BY <2>2, <3>1 DEF WalkFound
  <2>3. CASE f[b] # Blank /\ ~IsValid(f, b)
    <3>1. W[b].candidate = NoBundle /\ W[b].abortive
      BY <2>3, WalkSteps
    <3> QED
      BY <2>3, <3>1 DEF WalkFound
  <2>4. CASE f[b] # Blank /\ IsValid(f, b) /\ next >= seg + SegSize
    <3>1. W[b].candidate = b /\ ~W[b].abortive
      BY <2>4, WalkSteps
    <3>2. b # NoBundle /\ b \in b..end /\ ~(next < seg + SegSize)
      BY <1>1, <2>1, <2>4
    <3> QED
      BY <2>4, <3>1, <3>2 DEF WalkFound
  <2>5. CASE f[b] # Blank /\ IsValid(f, b) /\ next < seg + SegSize
    <3>1. /\ next \in (b + 1)..end /\ W[b].abortive = W[next].abortive
          /\ W[b].candidate = IF W[next].candidate = NoBundle THEN b ELSE W[next].candidate
      BY <2>5, WalkSteps
    <3>2. WalkFound(f, seg, next)
      BY <1>2, <3>1
    <3>3. b # NoBundle /\ b \in b..end
      BY <1>1, <2>1
    <3>4. CASE W[next].candidate = NoBundle
      BY <2>5, <3>1, <3>2, <3>3, <3>4 DEF WalkFound
    <3>5. CASE W[next].candidate # NoBundle
      <4>1. W[next].candidate \in next..end
        BY <3>2, <3>5 DEF WalkFound
      <4>2. W[next].candidate \in b..end
        BY <2>1, <3>1, <4>1
      <4> QED
        BY <2>5, <3>1, <3>2, <3>5, <4>2 DEF WalkFound
    <3> QED
      BY <3>4, <3>5
  <2> QED
    BY <1>1, <2>1, <2>2, <2>3, <2>4, <2>5
<1>3. \A b \in seg..end : b \in P
  <2> HIDE DEF P
  <2> QED
    BY <1>1, <1>2, DownInduction
<1> QED
  BY <1>3

\* Where the search for a blank word goes from a, given where it goes from behind.
SkipAt(f, skip, a) ==
    IF a = FlashEnd + 1 \/ Memref(f, a) = Blank THEN a
    ELSE LET next == a + Size(Memref(f, a))
         IN  skip[IF next > FlashEnd THEN FlashEnd + 1 ELSE next]

\* It is defined everywhere.
LEMMA SkipsExist ==
    ASSUME StackSize # {}, NEW f
    PROVE  \E g \in [0..(FlashEnd + 1) -> 0..(FlashEnd + 1)] : g = [a \in 0..(FlashEnd + 1) |-> SkipAt(f, g, a)]
<1> DEFINE end == FlashEnd + 1
           S == 0..end
           next(a) == a + Size(Memref(f, a))
           to(a) == IF next(a) > FlashEnd THEN FlashEnd + 1 ELSE next(a)
           P == {n \in S : \E g \in [S -> S] : \A b \in n..end : g[b] = SkipAt(f, g, b)}
<1>1. end \in Nat /\ FlashEnd \in Nat /\ end = FlashEnd + 1
  BY SizesAssumption DEF FlashEnd
<1>2. ASSUME NEW a \in S, a # end PROVE to(a) \in (a + 1)..end /\ to(a) \in S
  BY <1>1, <1>2, SizeIs, SizesAssumption
<1>3. ASSUME NEW g \in [S -> S], NEW b \in S PROVE SkipAt(f, g, b) \in S
  BY <1>2 DEF SkipAt
<1>4. ASSUME NEW g \in [S -> S], NEW h \in [S -> S], NEW b \in S, \A c \in (b + 1)..end : g[c] = h[c]
      PROVE  SkipAt(f, g, b) = SkipAt(f, h, b)
  BY <1>2, <1>4 DEF SkipAt
<1>5. ASSUME NEW n \in S, \A c \in (n + 1)..end : c \in P PROVE n \in P
  <2>1. PICK g \in [S -> S] : \A b \in (n + 1)..end : g[b] = SkipAt(f, g, b)
    <3>1. CASE n = end
      <4>1. (n + 1)..end = {}
        BY <1>1, <3>1
      <4>2. [b \in S |-> b] \in [S -> S]
        OBVIOUS
      <4> QED
        BY <4>1, <4>2
    <3>2. CASE n # end
      <4>1. n + 1 \in (n + 1)..end
        BY <1>1, <3>2
      <4> QED
        BY <1>5, <4>1
    <3> QED
      BY <3>1, <3>2
  <2> DEFINE h == [g EXCEPT ![n] = SkipAt(f, g, n)]
  <2>2. h \in [S -> S]
    BY <1>3
  <2>3. \A c \in (n + 1)..end : c \in S /\ h[c] = g[c]
    BY <1>1
  <2>4. h[n] = SkipAt(f, h, n)
    <3>1. h[n] = SkipAt(f, g, n)
      OBVIOUS
    <3> HIDE DEF h
    <3>2. SkipAt(f, g, n) = SkipAt(f, h, n)
      BY <1>4, <2>2, <2>3
    <3> QED
      BY <3>1, <3>2
  <2>5. ASSUME NEW b \in (n + 1)..end PROVE h[b] = SkipAt(f, h, b)
    <3> HIDE DEF h
    <3>1. b \in S /\ \A c \in (b + 1)..end : c \in (n + 1)..end
      BY <1>1
    <3>2. SkipAt(f, g, b) = SkipAt(f, h, b)
      BY <1>4, <2>2, <2>3, <3>1
    <3> QED
      BY <2>1, <2>3, <3>2
  <2>6. \A b \in n..end : b = n \/ b \in (n + 1)..end
    BY <1>1
  <2> HIDE DEF h
  <2> QED
    BY <2>2, <2>4, <2>5, <2>6
<1>6. 0 \in P
  <2>1. \A b \in 0..end : b \in P
    <3> HIDE DEF P
    <3> QED
      BY <1>1, <1>5, DownInduction
  <2> QED
    BY <1>1, <2>1
<1>7. PICK g \in [S -> S] : \A b \in S : g[b] = SkipAt(f, g, b)
  BY <1>6
<1> QED
  BY <1>7

\* The function FirstBlank() chooses is one that does so.
LEMMA SkipsAre ==
    ASSUME StackSize # {}, NEW f
    PROVE  Skips(f) = [a \in 0..(FlashEnd + 1) |-> SkipAt(f, Skips(f), a)]
<1> DEFINE K == CHOOSE h : h = [a \in 0..(FlashEnd + 1) |-> SkipAt(f, h, a)]
<1>1. K = [a \in 0..(FlashEnd + 1) |-> SkipAt(f, K, a)]
  <2>1. PICK g : g = [a \in 0..(FlashEnd + 1) |-> SkipAt(f, g, a)]
    BY SkipsExist
  <2> QED
    BY <2>1
<1>2. Skips(f) = K
  BY DEF Skips, SkipAt
<1> QED
  BY <1>1, <1>2

\* It goes from a on, to a blank word of the segments or behind them.
LEMMA BlankFound ==
    ASSUME StackSize # {}, NEW f
    PROVE  \A a \in 0..(FlashEnd + 1) :
              /\ FirstBlank(f, a) \in a..(FlashEnd + 1)
              /\ FirstBlank(f, a) <= FlashEnd => FirstBlank(f, a) \in Addr /\ f[FirstBlank(f, a)] = Blank
              /\ a \in Addr /\ f[a] = Blank => FirstBlank(f, a) = a
              /\ a \in Addr /\ f[a] # Blank /\ a + Size(f[a]) <= FlashEnd => FirstBlank(f, a) = FirstBlank(f, a + Size(f[a]))
              /\ a \in {FlashEnd, FlashEnd + 1} => FirstBlank(f, a) = FlashEnd + 1
<1> DEFINE end == FlashEnd + 1
           S == 0..end
           K == Skips(f)
           next(a) == a + Size(Memref(f, a))
           to(a) == IF next(a) > FlashEnd THEN FlashEnd + 1 ELSE next(a)
           P == {a \in S : K[a] \in a..end /\ (K[a] <= FlashEnd => K[a] \in Addr /\ f[K[a]] = Blank)}
<1>1. end \in Nat /\ FlashEnd \in Nat /\ Addr = 0..(FlashEnd - 1)
  BY SizesAssumption DEF FlashEnd, Addr
<1>2. ASSUME NEW a \in S, a # end PROVE to(a) \in (a + 1)..end /\ to(a) \in S
  BY <1>1, <1>2, SizeIs, SizesAssumption
<1>3. \A a \in S : K[a] = IF a = FlashEnd + 1 \/ Memref(f, a) = Blank THEN a ELSE K[to(a)]
  BY SkipsAre DEF SkipAt
<1>4. \A a \in S : Memref(f, a) = Blank => a \in Addr /\ f[a] = Blank
  BY Words DEF Memref
<1>5. ASSUME NEW b \in S, \A c \in (b + 1)..end : c \in P PROVE b \in P
  <2>1. CASE b = end
    BY <1>1, <1>3, <2>1
  <2>2. CASE b # end /\ Memref(f, b) = Blank
    BY <1>1, <1>3, <1>4, <2>2
  <2>3. CASE b # end /\ Memref(f, b) # Blank
    <3>1. K[b] = K[to(b)] /\ to(b) \in (b + 1)..end
      BY <1>2, <1>3, <2>3
    <3>2. K[to(b)] \in to(b)..end /\ (K[to(b)] <= FlashEnd => K[to(b)] \in Addr /\ f[K[to(b)]] = Blank)
      BY <1>5, <3>1
    <3>3. K[b] \in b..end
      BY <1>1, <3>1, <3>2
    <3> QED
      BY <3>1, <3>2, <3>3
  <2> QED
    BY <2>1, <2>2, <2>3
<1>6. \A b \in 0..end : b \in P
  <2> HIDE DEF P
  <2> QED
    BY <1>1, <1>5, DownInduction
<1> SUFFICES ASSUME NEW a \in S
             PROVE  /\ a \in Addr /\ f[a] = Blank => K[a] = a
                    /\ a \in Addr /\ f[a] # Blank /\ a + Size(f[a]) <= FlashEnd => K[a] = K[a + Size(f[a])]
                    /\ a \in {FlashEnd, FlashEnd + 1} => K[a] = FlashEnd + 1
  BY <1>6 DEF FirstBlank
<1>7. a \in Addr => Memref(f, a) = f[a] /\ a # FlashEnd + 1
  BY <1>1 DEF Memref
<1>8. a \in Addr /\ f[a] = Blank => K[a] = a
  BY <1>3, <1>7
<1>9. ASSUME a \in Addr, f[a] # Blank, a + Size(f[a]) <= FlashEnd PROVE K[a] = K[a + Size(f[a])]
  <2>1. to(a) = a + Size(f[a])
    BY <1>1, <1>7, <1>9, SizeIs
  <2> QED
    BY <1>3, <1>7, <1>9, <2>1
<1>10. ASSUME a \in {FlashEnd, FlashEnd + 1} PROVE K[a] = FlashEnd + 1
  <2>1. K[FlashEnd + 1] = FlashEnd + 1
    BY <1>1, <1>3
  <2>2. CASE a = FlashEnd
    <3>1. FlashEnd \notin Addr /\ Memref(f, a) # Blank
      BY <1>1, <2>2, Words DEF Memref
    <3>2. to(a) = FlashEnd + 1
      <4>1. Size(Memref(f, a)) \in Nat /\ Size(Memref(f, a)) >= 1
        BY SizeIs, SizesAssumption
      <4> QED
        BY <1>1, <2>2, <4>1
    <3> QED
      BY <1>3, <2>1, <2>2, <3>1, <3>2
  <2> QED
    BY <1>10, <2>1, <2>2
<1> QED
  BY <1>8, <1>9, <1>10

-----------------------------------------------------------------------------
(* Marks.                                                                  *)

\* The sequences of words that marks of segments in use clear, also those
\* that a power failure cuts short.
MarkSeqs(f) ==
    {z \in Seq(Addr) : \A i \in DOMAIN z : \E seg \in Segment :
        /\ ~segment_is_empty(f, seg)
        /\ \/ z[i] = seg + 1
           \/ z[i] = seg + SegSize - 1 /\ i > 1 /\ z[i - 1] = seg + 1}

\* One mark, and none.
LEMMA MarkIs ==
    ASSUME StackSize # {}, NEW f, NEW seg \in Segment
    PROVE  /\ ~segment_is_empty(f, seg) => Mark(seg) \in MarkSeqs(f)
           /\ DOMAIN Mark(seg) = 1..2 /\ Mark(seg)[1] = seg + 1 /\ Mark(seg)[2] = seg + SegSize - 1
           /\ <<>> \in MarkSeqs(f)
<1>1. seg + 1 \in Addr /\ seg + SegSize - 1 \in Addr
  BY Segments
<1>2. /\ DOMAIN Mark(seg) = 1..2 /\ Mark(seg) \in Seq(Addr)
      /\ Mark(seg)[1] = seg + 1 /\ Mark(seg)[2] = seg + SegSize - 1
  BY <1>1 DEF Mark
<1>3. ASSUME ~segment_is_empty(f, seg) PROVE Mark(seg) \in MarkSeqs(f)
  BY <1>2, <1>3 DEF MarkSeqs
<1>4. <<>> \in Seq(Addr) /\ DOMAIN <<>> = {}
  OBVIOUS
<1>5. <<>> \in MarkSeqs(f)
  BY <1>4 DEF MarkSeqs
<1> QED
  BY <1>2, <1>3, <1>5

\* Marks one after the other.
LEMMA MarksConcat ==
    ASSUME NEW f, NEW y \in MarkSeqs(f), NEW z \in MarkSeqs(f)
    PROVE  /\ y \o z \in MarkSeqs(f)
           /\ Cleared(f, y \o z) = Cleared(Cleared(f, y), z)
<1>1. y \in Seq(Addr) /\ z \in Seq(Addr)
  BY DEF MarkSeqs
<1> DEFINE m == Len(y)
           n == Len(z)
<1>2. /\ y \o z \in Seq(Addr) /\ m \in Nat /\ n \in Nat /\ DOMAIN y = 1..m /\ DOMAIN z = 1..n
      /\ DOMAIN (y \o z) = 1..(m + n)
      /\ \A i \in 1..m : (y \o z)[i] = y[i]
      /\ \A i \in 1..n : (y \o z)[m + i] = z[i]
  BY <1>1
<1> DEFINE c == y \o z
<1> HIDE DEF c
<1>3. /\ c \in Seq(Addr) /\ DOMAIN c = 1..(m + n)
      /\ \A i \in 1..m : c[i] = y[i]
      /\ \A i \in 1..n : c[m + i] = z[i]
  BY <1>2 DEF c
<1>4. ASSUME NEW i \in DOMAIN c
      PROVE  \E seg \in Segment : /\ ~segment_is_empty(f, seg)
                                  /\ \/ c[i] = seg + 1
                                     \/ c[i] = seg + SegSize - 1 /\ i > 1 /\ c[i - 1] = seg + 1
  <2>1. CASE i \in 1..m
    <3>1. i > 1 => i - 1 \in 1..m
      BY <1>2, <2>1
    <3>2. PICK seg \in Segment : /\ ~segment_is_empty(f, seg)
                                 /\ \/ y[i] = seg + 1
                                    \/ y[i] = seg + SegSize - 1 /\ i > 1 /\ y[i - 1] = seg + 1
      BY <1>2, <2>1 DEF MarkSeqs
    <3> QED
      BY <1>3, <2>1, <3>1, <3>2
  <2>2. CASE i \notin 1..m
    <3> DEFINE j == i - m
    <3>1. j \in 1..n /\ i = m + j /\ (j > 1 => j - 1 \in 1..n /\ i - 1 = m + (j - 1) /\ i > 1)
      BY <1>2, <1>3, <2>2
    <3>2. PICK seg \in Segment : /\ ~segment_is_empty(f, seg)
                                 /\ \/ z[j] = seg + 1
                                    \/ z[j] = seg + SegSize - 1 /\ j > 1 /\ z[j - 1] = seg + 1
      BY <1>2, <3>1 DEF MarkSeqs
    <3>3. c[i] = z[j] /\ (j > 1 => c[i - 1] = z[j - 1])
      BY <1>3, <3>1
    <3> HIDE DEF j
    <3> QED
      BY <3>1, <3>2, <3>3
  <2> QED
    BY <2>1, <2>2
<1>5. c \in MarkSeqs(f)
  BY <1>3, <1>4 DEF MarkSeqs
<1>6. ASSUME NEW a \in Addr
      PROVE  (\E i \in DOMAIN c : c[i] = a) <=> (\E i \in DOMAIN y : y[i] = a) \/ (\E i \in DOMAIN z : z[i] = a)
  <2>1. ASSUME NEW i \in DOMAIN c, c[i] = a
        PROVE  (\E j \in DOMAIN y : y[j] = a) \/ (\E j \in DOMAIN z : z[j] = a)
    <3>1. CASE i \in 1..m
      BY <1>2, <1>3, <2>1, <3>1
    <3>2. CASE i \notin 1..m
      <4>1. i - m \in 1..n /\ i = m + (i - m)
        BY <1>2, <1>3, <3>2
      <4>2. z[i - m] = a
        BY <1>3, <2>1, <4>1
      <4> QED
        BY <1>2, <4>1, <4>2
    <3> QED
      BY <3>1, <3>2
  <2>2. ASSUME NEW i \in DOMAIN y, y[i] = a PROVE \E j \in DOMAIN c : c[j] = a
    <3>1. i \in 1..m /\ i \in 1..(m + n)
      BY <1>2
    <3> QED
      BY <1>3, <2>2, <3>1
  <2>3. ASSUME NEW i \in DOMAIN z, z[i] = a PROVE \E j \in DOMAIN c : c[j] = a
    <3>1. i \in 1..n /\ m + i \in 1..(m + n)
      BY <1>2
    <3> QED
      BY <1>3, <2>3, <3>1
  <2> QED
    BY <2>1, <2>2, <2>3
<1>7. Cleared(f, c) = Cleared(Cleared(f, y), z)
  BY <1>6 DEF Cleared
<1> QED
  BY <1>5, <1>7 DEF c

\* The first of the words of marks.
LEMMA MarksPrefix ==
    ASSUME NEW f, NEW z \in MarkSeqs(f), NEW n \in 1..(Len(z) - 1)
    PROVE  SubSeq(z, 1, n) \in MarkSeqs(f)
<1>1. z \in Seq(Addr) /\ DOMAIN z = 1..Len(z) /\ Len(z) \in Nat
  BY DEF MarkSeqs
<1> DEFINE y == SubSeq(z, 1, n)
<1>2. y \in Seq(Addr) /\ DOMAIN y = 1..n /\ \A i \in 1..n : y[i] = z[i]
  BY <1>1
<1> HIDE DEF y
<1>3. ASSUME NEW i \in DOMAIN y
      PROVE  \E seg \in Segment : /\ ~segment_is_empty(f, seg)
                                  /\ \/ y[i] = seg + 1
                                     \/ y[i] = seg + SegSize - 1 /\ i > 1 /\ y[i - 1] = seg + 1
  <2>1. i \in 1..n /\ i \in DOMAIN z /\ (i > 1 => i - 1 \in 1..n)
    BY <1>1, <1>2
  <2>2. PICK seg \in Segment : /\ ~segment_is_empty(f, seg)
                               /\ \/ z[i] = seg + 1
                                  \/ z[i] = seg + SegSize - 1 /\ i > 1 /\ z[i - 1] = seg + 1
    BY <2>1 DEF MarkSeqs
  <2> QED
    BY <1>2, <2>1, <2>2
<1> QED
  BY <1>2, <1>3 DEF MarkSeqs, y

\* What marks do to the flash memory.
Marks(f, g) ==
    /\ g \in [Addr -> Word]
    /\ \A a \in Addr : g[a] = f[a] \/ g[a] = Zero
    /\ \A seg \in Segment :
          /\ \A a \in Addr : SegmentOf(a) = seg /\ a \notin {seg + 1, seg + SegSize - 1} => g[a] = f[a]
          /\ g[seg] = f[seg]
          /\ segment_is_empty(g, seg) <=> segment_is_empty(f, seg)
          /\ segment_is_empty(f, seg) => \A a \in Addr : SegmentOf(a) = seg => g[a] = f[a]
          /\ g[seg + SegSize - 1] = Zero => f[seg + SegSize - 1] = Zero \/ g[seg + 1] = Zero
          /\ segment_marked_erase(f, seg) => segment_marked_erase(g, seg)

\* Clearing a sequence of marks does no more than that.
LEMMA MarksAre ==
    ASSUME StackSize # {}, NEW f \in [Addr -> Word], NEW z \in MarkSeqs(f)
    PROVE  Marks(f, Cleared(f, z))
<1> DEFINE g == Cleared(f, z)
           Z == {z[i] : i \in DOMAIN z}
<1>1. \A a \in Addr : g[a] = IF a \in Z THEN Zero ELSE f[a]
  BY DEF Cleared
<1>2. g \in [Addr -> Word]
  BY DEF Cleared, Word
<1>3. ASSUME NEW a \in Z
      PROVE  \E seg \in Segment : /\ ~segment_is_empty(f, seg)
                                  /\ a = seg + 1 \/ (a = seg + SegSize - 1 /\ seg + 1 \in Z)
  <2>1. PICK i \in DOMAIN z : a = z[i]
    OBVIOUS
  <2>2. PICK seg \in Segment : /\ ~segment_is_empty(f, seg)
                               /\ \/ z[i] = seg + 1
                                  \/ z[i] = seg + SegSize - 1 /\ i > 1 /\ z[i - 1] = seg + 1
    BY DEF MarkSeqs
  <2>3. i > 1 => i - 1 \in DOMAIN z
    BY DEF MarkSeqs
  <2> QED
    BY <2>1, <2>2, <2>3
<1> HIDE DEF g, Z
<1>4. \A seg \in Segment : /\ seg \in Addr /\ seg \in Nat /\ SegmentOf(seg) = seg
                           /\ seg + 1 \in Addr /\ seg + SegSize - 1 \in Addr
                           /\ SegmentOf(seg + 1) = seg /\ SegmentOf(seg + SegSize - 1) = seg
                           /\ seg # seg + 1 /\ seg # seg + SegSize - 1 /\ seg + 1 # seg + SegSize - 1
  BY Segments
<1>5. ASSUME NEW a \in Z, a \in Addr
      PROVE  /\ ~segment_is_empty(f, SegmentOf(a))
             /\ a = SegmentOf(a) + 1 \/ (a = SegmentOf(a) + SegSize - 1 /\ SegmentOf(a) + 1 \in Z)
  BY <1>3, <1>4
<1>6. ASSUME NEW seg \in Segment
      PROVE  /\ \A a \in Addr : SegmentOf(a) = seg /\ a \notin {seg + 1, seg + SegSize - 1} => g[a] = f[a]
             /\ segment_is_empty(f, seg) => \A a \in Addr : SegmentOf(a) = seg => g[a] = f[a]
             /\ g[seg + SegSize - 1] = Zero => f[seg + SegSize - 1] = Zero \/ g[seg + 1] = Zero
             /\ segment_marked_erase(f, seg) => segment_marked_erase(g, seg)
  <2>1. \A a \in Addr : SegmentOf(a) = seg /\ a \notin {seg + 1, seg + SegSize - 1} => g[a] = f[a]
    BY <1>1, <1>5
  <2>2. segment_is_empty(f, seg) => \A a \in Addr : SegmentOf(a) = seg => g[a] = f[a]
    BY <1>1, <1>5
  <2>3. g[seg + SegSize - 1] = Zero => f[seg + SegSize - 1] = Zero \/ g[seg + 1] = Zero
    BY <1>1, <1>4, <1>5
  <2>4. segment_marked_erase(f, seg) => segment_marked_erase(g, seg)
    BY <1>1, <1>4 DEF segment_marked_erase
  <2> QED
    BY <2>1, <2>2, <2>3, <2>4
<1>7. \A seg \in Segment : g[seg] = f[seg]
  BY <1>4, <1>6
<1>8. ASSUME NEW seg \in Segment PROVE segment_is_empty(g, seg) <=> segment_is_empty(f, seg)
  <2>1. \A k \in 0..(SegSize - 1) : seg + k \in Addr /\ SegmentOf(seg + k) = seg
    BY Segments
  <2>2. segment_is_empty(f, seg) => segment_is_empty(g, seg)
    BY <1>6, <2>1 DEF segment_is_empty
  <2>3. segment_is_empty(g, seg) => segment_is_empty(f, seg)
    BY <1>1, <2>1, Words DEF segment_is_empty
  <2> QED
    BY <2>2, <2>3
<1>9. \A a \in Addr : g[a] = f[a] \/ g[a] = Zero
  BY <1>1
<1> QED
  BY <1>2, <1>6, <1>7, <1>8, <1>9 DEF Marks, g

\* A segment that has been marked is.
LEMMA Marked ==
    ASSUME StackSize # {}, NEW f, NEW seg \in Segment
    PROVE  segment_marked_erase(Cleared(f, Mark(seg)), seg)
<1>1. seg + 1 \in Addr /\ seg + SegSize - 1 \in Addr
  BY Segments
<1> QED
  BY <1>1, MarkIs DEF Cleared, segment_marked_erase

\* Erasing.
LEMMA ErasedIs ==
    ASSUME StackSize # {}, NEW f \in [Addr -> Word], NEW seg \in Segment
    PROVE  /\ Erased(f, seg) \in [Addr -> Word]
           /\ \A a \in Addr : Erased(f, seg)[a] = IF SegmentOf(a) = seg THEN Blank ELSE f[a]
           /\ ~segment_marked_erase(Erased(f, seg), seg)
           /\ \A a \in seg..(seg + SegSize - 1) : Erased(f, seg)[a] = Blank
<1>1. /\ \A a \in Addr : Erased(f, seg)[a] = IF SegmentOf(a) = seg THEN Blank ELSE f[a]
      /\ Erased(f, seg) \in [Addr -> Word]
  BY DEF Erased, Word
<1>2. \A a \in seg..(seg + SegSize - 1) : a \in Addr /\ SegmentOf(a) = seg
  BY Segments
<1>3. seg + 1 \in seg..(seg + SegSize - 1)
  BY Segments
<1> QED
  BY <1>1, <1>2, <1>3, Words DEF segment_marked_erase

-----------------------------------------------------------------------------
(* The two searches.                                                       *)

Pri(f) == IF segment_is_empty(f, FIRST_BUNDLE_SEG) \/ segment_marked_erase(f, FIRST_BUNDLE_SEG)
          THEN SECOND_BUNDLE_SEG ELSE FIRST_BUNDLE_SEG

\* A segment with a word in the place of its first header is not empty.
LEMMA InUse ==
    ASSUME StackSize # {}, NEW f, NEW seg \in Segment, f[seg] # Blank
    PROVE  ~segment_is_empty(f, seg)
<1>1. 0 \in 0..(SegSize - 1) /\ seg + 0 = seg /\ 0 % STRIDE = 0
  BY Segments, SizesAssumption DEF STRIDE
<1> QED
  BY <1>1 DEF segment_is_empty

\* What find_active_bundle() returns and marks.
LEMMA FindIs ==
    ASSUME StackSize # {}, NEW f \in [Addr -> Word]
    PROVE  LET r == find_active_bundle(f)
               w == Walks(f, Pri(f))[Pri(f)]
               g == Cleared(f, r.zeros)
           IN  /\ Pri(f) \in Segment /\ WalkFound(f, Pri(f), Pri(f))
               /\ w.candidate \in Addr \cup {NoBundle} /\ w.abortive \in BOOLEAN
               /\ r.ret = w.candidate
               /\ r.zeros \in MarkSeqs(f) /\ Marks(f, g)
               /\ w.abortive => segment_marked_erase(g, Pri(f))
               /\ w.candidate # NoBundle /\ ~segment_is_empty(f, FIRST_BUNDLE_SEG)
                     => segment_marked_erase(g, FIRST_BUNDLE_SEG)
<1> DEFINE pri == Pri(f)
           w == Walks(f, pri)[pri]
           aborted == MarkAborted(pri, w)
           superseded == IF w.candidate # NoBundle
                            /\ ~segment_is_empty(Cleared(f, aborted), FIRST_BUNDLE_SEG)
                         THEN Mark(FIRST_BUNDLE_SEG) ELSE <<>>
           r == find_active_bundle(f)
           g == Cleared(f, r.zeros)
<1>1. pri \in Segment /\ pri \in pri..(pri + SegSize - 1) /\ FIRST_BUNDLE_SEG \in Segment
  BY Segments DEF Pri, Segment
<1>2. r.ret = w.candidate /\ r.zeros = aborted \o superseded
  BY DEF find_active_bundle, Walk, Pri, Result
<1>3. WalkFound(f, pri, pri) /\ w.candidate \in Addr \cup {NoBundle} /\ w.abortive \in BOOLEAN
  BY <1>1, WalkFinds, WalkSteps
<1> HIDE DEF w, pri
<1>4. w.abortive => ~segment_is_empty(f, pri)
  BY <1>1, <1>3, InUse DEF WalkFound, w, pri
<1>5. aborted \in MarkSeqs(f)
  BY <1>1, <1>4, MarkIs DEF MarkAborted
<1>6. segment_is_empty(Cleared(f, aborted), FIRST_BUNDLE_SEG) <=> segment_is_empty(f, FIRST_BUNDLE_SEG)
  BY <1>1, <1>5, MarksAre DEF Marks
<1>7. superseded \in MarkSeqs(f)
  BY <1>1, <1>6, MarkIs
<1>8. r.zeros \in MarkSeqs(f) /\ g = Cleared(Cleared(f, aborted), superseded)
  BY <1>2, <1>5, <1>7, MarksConcat
<1>9. Marks(f, g)
  BY <1>8, MarksAre
<1>10. /\ w.candidate # NoBundle /\ ~segment_is_empty(f, FIRST_BUNDLE_SEG)
             => segment_marked_erase(g, FIRST_BUNDLE_SEG)
  <2> SUFFICES ASSUME w.candidate # NoBundle, ~segment_is_empty(f, FIRST_BUNDLE_SEG)
               PROVE  segment_marked_erase(g, FIRST_BUNDLE_SEG)
    OBVIOUS
  <2>1. g = Cleared(Cleared(f, aborted), Mark(FIRST_BUNDLE_SEG))
    BY <1>6, <1>8
  <2> QED
    BY <1>1, <2>1, Marked
<1>11. w.abortive => segment_marked_erase(g, pri)
  <2> SUFFICES ASSUME w.abortive PROVE segment_marked_erase(g, pri)
    OBVIOUS
  <2>1. segment_marked_erase(Cleared(f, aborted), pri)
    BY <1>1, Marked DEF MarkAborted
  <2>2. Cleared(f, aborted) \in [Addr -> Word] /\ \A a \in Addr : Cleared(f, aborted)[a] = Zero => g[a] = Zero
    BY <1>5, <1>8, MarksAre DEF Cleared, Marks
  <2> QED
    BY <1>1, <2>1, <2>2, Segments DEF segment_marked_erase
<1> QED
  BY <1>1, <1>2, <1>3, <1>8, <1>9, <1>10, <1>11 DEF w, pri

\* The bundle that is found ends within the flash memory, and the search for
\* a blank word goes on from there.
LEMMA FoundEnds ==
    ASSUME StackSize # {}, NEW f \in [Addr -> Word], find_active_bundle(f).ret # NoBundle
    PROVE  LET b == find_active_bundle(f).ret
               g == Cleared(f, find_active_bundle(f).zeros)
               n == b + Size(g[b])
           IN  /\ b \in Addr /\ b \in Nat /\ b \in Pri(f)..(Pri(f) + SegSize - 1)
               /\ IsValid(f, b) /\ f[b] # Blank /\ f[Pri(f)] # Blank
               /\ n \in Nat /\ n > b /\ n \in 0..FlashEnd /\ n <= b + Size(f[b]) /\ b + Size(f[b]) <= FlashEnd
               /\ FirstBlank(g, n) \in n..(FlashEnd + 1) /\ FirstBlank(g, n) \in Nat
               /\ FirstBlank(g, n) <= FlashEnd => FirstBlank(g, n) \in Addr /\ g[FirstBlank(g, n)] = Blank
<1> DEFINE b == find_active_bundle(f).ret
           g == Cleared(f, find_active_bundle(f).zeros)
<1>1. /\ Pri(f) \in Segment /\ WalkFound(f, Pri(f), Pri(f)) /\ Marks(f, g)
      /\ b = Walks(f, Pri(f))[Pri(f)].candidate
  BY FindIs
<1> HIDE DEF b, g
<1>2. b # NoBundle
  BY DEF b
<1>3. b \in Pri(f)..(Pri(f) + SegSize - 1) /\ f[b] # Blank /\ IsValid(f, b) /\ f[Pri(f)] # Blank
  BY <1>1, <1>2 DEF WalkFound
<1>4. b \in Addr /\ b \in Nat /\ FlashEnd \in Nat /\ Addr = 0..(FlashEnd - 1) /\ Registers \in Nat
  <2>1. b \in Addr
    BY <1>1, <1>3, Segments
  <2>2. FlashEnd \in Nat /\ Addr = 0..(FlashEnd - 1) /\ Registers \in Nat
    BY SizesAssumption DEF FlashEnd, Addr
  <2> QED
    BY <2>1, <2>2
<1>5. Size(f[b]) \in Nat /\ Size(f[b]) >= Registers + 2 /\ Size(g[b]) \in Nat /\ Size(g[b]) >= Registers + 2
  BY SizeIs
<1>6. Size(g[b]) <= Size(f[b])
  <2>1. g[b] = f[b] \/ g[b] = Zero
    BY <1>1, <1>4 DEF Marks
  <2>2. CASE g[b] = Zero
    BY <1>4, <1>5, <2>2, SizeIs
  <2> QED
    BY <1>5, <2>1, <2>2
<1>7. b + Size(f[b]) - 1 \in Addr
  BY <1>3, Words DEF IsValid, Memref
<1>8. /\ b + Size(g[b]) \in 0..FlashEnd /\ b + Size(g[b]) > b
      /\ b + Size(g[b]) <= b + Size(f[b]) /\ b + Size(f[b]) <= FlashEnd /\ b + Size(g[b]) \in Nat
  <2> HIDE DEF Size
  <2> QED
    BY <1>4, <1>5, <1>6, <1>7
<1> DEFINE n == b + Size(g[b])
<1>9. n \in 0..(FlashEnd + 1) /\ n \in 0..FlashEnd /\ n > b /\ n \in Nat
  BY <1>4, <1>8
<1> HIDE DEF n
<1>10. /\ FirstBlank(g, n) \in n..(FlashEnd + 1)
       /\ FirstBlank(g, n) <= FlashEnd => FirstBlank(g, n) \in Addr /\ g[FirstBlank(g, n)] = Blank
  BY <1>9, BlankFound
<1>11. FirstBlank(g, n) \in Nat
  BY <1>4, <1>9, <1>10
<1> QED
  BY <1>3, <1>4, <1>8, <1>9, <1>10, <1>11 DEF n, b, g

\* The place locate_next_bundle() finds: after the active bundle, at the start
\* of a segment, or none.
LocatedAt(f, s, ret, g) ==
    LET active == find_active_bundle(f)
        b == active.ret
        f1 == Cleared(f, active.zeros)
        next == FirstBlank(f1, b + Size(f1[b]))
    IN  \/ b = NoBundle /\ ret = FIRST_BUNDLE_SEG /\ segment_is_empty(f, FIRST_BUNDLE_SEG) /\ g = f1
        \/ b = NoBundle /\ ret = SECOND_BUNDLE_SEG /\ segment_is_empty(f, SECOND_BUNDLE_SEG)
           /\ ~segment_is_empty(f, FIRST_BUNDLE_SEG) /\ g = f1
        \/ b = NoBundle /\ ret = NoBundle /\ ~segment_is_empty(f, FIRST_BUNDLE_SEG) /\ g = f1
        \/ /\ b # NoBundle /\ next > FlashEnd
           /\ \/ ret = NoBundle /\ segment_marked_erase(g, Other(SegmentOf(b))) /\ Marks(f1, g)
              \/ ret = Other(SegmentOf(b)) /\ segment_is_empty(f, ret) /\ g = f1
        \/ /\ b # NoBundle /\ next <= FlashEnd /\ Overruns(next, Registers + s + GlobalSize + 2)
           /\ \/ ret = NoBundle /\ segment_marked_erase(g, Other(SegmentOf(next))) /\ Marks(f1, g)
              \/ ret = Other(SegmentOf(next)) /\ segment_is_empty(f, ret) /\ g = f1
        \/ b # NoBundle /\ next <= FlashEnd /\ ~Overruns(next, Registers + s + GlobalSize + 2) /\ ret = next /\ g = f1

\* What locate_next_bundle() returns and marks.
LEMMA LocateIs ==
    ASSUME NEW f \in [Addr -> Word], NEW s \in StackSize
    PROVE  LET r == locate_next_bundle(f, s)
               g == Cleared(f, r.zeros)
           IN  r.zeros \in MarkSeqs(f) /\ Marks(f, g) /\ LocatedAt(f, s, r.ret, g)
<1> DEFINE active == find_active_bundle(f)
           b == active.ret
           f1 == Cleared(f, active.zeros)
           next == FirstBlank(f1, b + Size(f1[b]))
           size == Registers + s + GlobalSize + 2
           r == locate_next_bundle(f, s)
           g == Cleared(f, r.zeros)
<1>0. /\ active.zeros \in MarkSeqs(f) /\ Marks(f, f1) /\ b \in Addr \cup {NoBundle}
      /\ FIRST_BUNDLE_SEG \in Segment /\ SECOND_BUNDLE_SEG \in Segment
  BY FindIs DEF Segment
<1>1. \A seg \in Segment : segment_is_empty(f1, seg) <=> segment_is_empty(f, seg)
  BY <1>0 DEF Marks
<1>2. r = IF b = NoBundle
          THEN Result(IF segment_is_empty(f1, FIRST_BUNDLE_SEG) THEN FIRST_BUNDLE_SEG
                      ELSE IF segment_is_empty(f1, SECOND_BUNDLE_SEG) THEN SECOND_BUNDLE_SEG
                      ELSE NoBundle, active.zeros)
          ELSE IF next > FlashEnd
          THEN IF segment_marked_erase(f1, Other(SegmentOf(b))) /\ ~segment_is_empty(f1, Other(SegmentOf(b)))
               THEN Result(NoBundle, active.zeros)
               ELSE StartOf(f1, Other(SegmentOf(b)), active.zeros)
          ELSE IF Overruns(next, size)
          THEN StartOf(f1, Other(SegmentOf(next)), active.zeros)
          ELSE Result(next, active.zeros)
  BY DEF locate_next_bundle
<1> HIDE DEF next, f1, b, active, r
\* The segment that StartOf() begins or marks.
<1>3. ASSUME NEW seg \in Segment, r = StartOf(f1, seg, active.zeros)
      PROVE  /\ r.zeros \in MarkSeqs(f) /\ Marks(f, g)
             /\ \/ r.ret = NoBundle /\ segment_marked_erase(g, seg) /\ Marks(f1, g)
                \/ r.ret = seg /\ segment_is_empty(f, seg) /\ g = f1
  <2>1. CASE segment_is_empty(f1, seg)
    <3>1. r.ret = seg /\ r.zeros = active.zeros
      BY <1>3, <2>1 DEF StartOf, Result
    <3> QED
      BY <1>0, <1>1, <2>1, <3>1 DEF f1
  <2>2. CASE ~segment_is_empty(f1, seg)
    <3>1. r.ret = NoBundle /\ r.zeros = active.zeros \o Mark(seg)
      BY <1>3, <2>2 DEF StartOf, Result
    <3>2. Mark(seg) \in MarkSeqs(f) /\ Mark(seg) \in MarkSeqs(f1)
      BY <1>1, <2>2, MarkIs
    <3>3. r.zeros \in MarkSeqs(f) /\ g = Cleared(f1, Mark(seg))
      BY <1>0, <3>1, <3>2, MarksConcat DEF f1
    <3>4. Marks(f, g)
      BY <3>3, MarksAre
    <3>5. Marks(f1, g) /\ segment_marked_erase(g, seg)
      BY <1>0, <3>2, <3>3, MarksAre, Marked DEF Marks
    <3> QED
      BY <3>1, <3>3, <3>4, <3>5
  <2> QED
    BY <2>1, <2>2
<1>4. CASE b = NoBundle
  <2>1. /\ r.zeros = active.zeros
        /\ r.ret = IF segment_is_empty(f1, FIRST_BUNDLE_SEG) THEN FIRST_BUNDLE_SEG
                   ELSE IF segment_is_empty(f1, SECOND_BUNDLE_SEG) THEN SECOND_BUNDLE_SEG ELSE NoBundle
    BY <1>2, <1>4 DEF Result
  <2>2. g = f1
    BY <2>1 DEF f1
  <2> QED
    BY <1>0, <1>1, <1>4, <2>1, <2>2 DEF LocatedAt, b, f1, active, r
<1>5. CASE b # NoBundle /\ next > FlashEnd
  <2> DEFINE seg == Other(SegmentOf(b))
  <2>1. seg \in Segment
    BY <1>0, <1>5, Segments
  <2>2. CASE segment_marked_erase(f1, seg) /\ ~segment_is_empty(f1, seg)
    <3>1. r.zeros = active.zeros /\ r.ret = NoBundle
      BY <1>2, <1>5, <2>2 DEF Result
    <3>2. g = f1
      BY <3>1 DEF f1
    <3>3. Marks(f1, f1)
      BY <1>0 DEF Marks
    <3> QED
      BY <1>0, <1>5, <2>2, <3>1, <3>2, <3>3 DEF LocatedAt, b, f1, active, next, r
  <2>3. CASE ~(segment_marked_erase(f1, seg) /\ ~segment_is_empty(f1, seg))
    <3>1. r = StartOf(f1, seg, active.zeros)
      BY <1>2, <1>5, <2>3
    <3>2. /\ r.zeros \in MarkSeqs(f) /\ Marks(f, g)
          /\ \/ r.ret = NoBundle /\ segment_marked_erase(g, seg) /\ Marks(f1, g)
             \/ r.ret = seg /\ segment_is_empty(f, seg) /\ g = f1
      BY <1>3, <2>1, <3>1
    <3> QED
      BY <1>5, <3>2 DEF LocatedAt, b, f1, active, next, r
  <2> QED
    BY <2>2, <2>3
<1>6. CASE b # NoBundle /\ ~(next > FlashEnd) /\ Overruns(next, size)
  <2> DEFINE seg == Other(SegmentOf(next))
  <2>1. seg \in Segment
    BY Segments DEF SegmentOf, Other, Segment
  <2>2. r = StartOf(f1, seg, active.zeros)
    BY <1>2, <1>6
  <2>3. /\ r.zeros \in MarkSeqs(f) /\ Marks(f, g)
        /\ \/ r.ret = NoBundle /\ segment_marked_erase(g, seg) /\ Marks(f1, g)
           \/ r.ret = seg /\ segment_is_empty(f, seg) /\ g = f1
    BY <1>3, <2>1, <2>2
  <2>4. next <= FlashEnd
    <3>1. next \in Nat /\ FlashEnd \in Nat
      <4>1. FlashEnd \in Nat
        BY SizesAssumption DEF FlashEnd
      <4> QED
        BY <1>6, <4>1, FoundEnds DEF next, f1, b, active
    <3> QED
      BY <1>6, <3>1
  <2> QED
    BY <1>6, <2>3, <2>4 DEF LocatedAt, b, f1, active, next, r
<1>7. CASE b # NoBundle /\ ~(next > FlashEnd) /\ ~Overruns(next, size)
  <2>1. r.zeros = active.zeros /\ r.ret = next
    BY <1>2, <1>7 DEF Result
  <2>2. g = f1
    BY <2>1 DEF f1
  <2>3. next <= FlashEnd
    <3>1. next \in Nat /\ FlashEnd \in Nat
      <4>1. FlashEnd \in Nat
        BY SizesAssumption DEF FlashEnd
      <4> QED
        BY <1>7, <4>1, FoundEnds DEF next, f1, b, active
    <3> QED
      BY <1>7, <3>1
  <2> QED
    BY <1>0, <1>7, <2>1, <2>2, <2>3 DEF LocatedAt, b, f1, active, next, r
<1> QED
  BY <1>4, <1>5, <1>6, <1>7 DEF r

-----------------------------------------------------------------------------
(* Types and room.                                                         *)

RoomIInv == TypeOK /\ RoomInv

\* Programming a word leaves it not blank, and the others as they are.
LEMMA ProgramIs ==
    ASSUME NEW f \in [Addr -> Word], NEW a \in Addr, NEW w \in Word, w # Blank
    PROVE  /\ Program(f, a, w) \in [Addr -> Word]
           /\ \A c \in Addr : c # a => Program(f, a, w)[c] = f[c]
           /\ Program(f, a, w)[a] \in {w, Zero, Data} /\ Program(f, a, w)[a] # Blank
           /\ f[a] = Blank => Program(f, a, w)[a] = w
           /\ w = Zero => Program(f, a, w)[a] = Zero
<1>1. Program(f, a, w) = [f EXCEPT ![a] = IF f[a] \in {Blank, w} THEN w ELSE IF Zero \in {f[a], w} THEN Zero ELSE Data]
  BY DEF Program
<1>2. Zero \in Word /\ Data \in Word
  BY DEF Word
<1> QED
  BY <1>1, <1>2, Words

\* A first segment with no header is blank, and is not the one searched.
LEMMA NoFirst ==
    ASSUME TypeOK, RoomInv, flash[FIRST_BUNDLE_SEG] = Blank
    PROVE  /\ IsBlank(FIRST_BUNDLE_SEG) /\ segment_is_empty(flash, FIRST_BUNDLE_SEG)
           /\ Pri(flash) = SECOND_BUNDLE_SEG
<1>1. IsBlank(FIRST_BUNDLE_SEG)
  BY DEF RoomInv
<1>2. \A k \in 0..(SegSize - 1) : FIRST_BUNDLE_SEG + k \in FIRST_BUNDLE_SEG..(FIRST_BUNDLE_SEG + SegSize - 1)
  BY SizesAssumption DEF FIRST_BUNDLE_SEG
<1>3. segment_is_empty(flash, FIRST_BUNDLE_SEG)
  BY <1>1, <1>2 DEF IsBlank, BlankFrom, segment_is_empty
<1> QED
  BY <1>1, <1>3 DEF Pri

\* A step that leaves the first segment as it is, if it was blank, and puts
\* no blank word at its start.
LEMMA FirstKept ==
    ASSUME TypeOK, RoomInv, flash' \in [Addr -> Word],
           flash'[FIRST_BUNDLE_SEG] = Blank => flash[FIRST_BUNDLE_SEG] = Blank,
           flash[FIRST_BUNDLE_SEG] = Blank => \A a \in Addr : a < SegSize /\ a # FIRST_BUNDLE_SEG => flash'[a] = flash[a]
    PROVE  (flash[FIRST_BUNDLE_SEG] = Blank => IsBlank(FIRST_BUNDLE_SEG))'
<1> SUFFICES ASSUME flash'[FIRST_BUNDLE_SEG] = Blank PROVE IsBlank(FIRST_BUNDLE_SEG)'
  BY DEF FIRST_BUNDLE_SEG
<1>1. \A a \in FIRST_BUNDLE_SEG..(FIRST_BUNDLE_SEG + SegSize - 1) : flash[a] = Blank
  BY DEF RoomInv, IsBlank, BlankFrom
<1>2. \A a \in FIRST_BUNDLE_SEG..(FIRST_BUNDLE_SEG + SegSize - 1) : a \in Addr /\ a < SegSize
  BY SizesAssumption DEF FIRST_BUNDLE_SEG, Addr, FlashEnd
<1>3. \A a \in FIRST_BUNDLE_SEG..(FIRST_BUNDLE_SEG + SegSize - 1) : flash'[a] = Blank
  BY <1>1, <1>2
<1> QED
  BY <1>3 DEF IsBlank, BlankFrom

\* Marks do so.
LEMMA FirstMarked ==
    ASSUME TypeOK, RoomInv, Marks(flash, flash')
    PROVE  /\ (flash[FIRST_BUNDLE_SEG] = Blank => IsBlank(FIRST_BUNDLE_SEG))'
           /\ flash' \in [Addr -> Word] /\ flash'[FIRST_BUNDLE_SEG] = flash[FIRST_BUNDLE_SEG]
<1>1. StackSize # {} /\ FIRST_BUNDLE_SEG \in Segment /\ FIRST_BUNDLE_SEG = 0
  BY DEF TypeOK, Segment, FIRST_BUNDLE_SEG
<1>2. flash' \in [Addr -> Word] /\ flash'[FIRST_BUNDLE_SEG] = flash[FIRST_BUNDLE_SEG]
  BY <1>1 DEF Marks
<1>3. flash[FIRST_BUNDLE_SEG] = Blank => \A a \in Addr : a < SegSize /\ a # FIRST_BUNDLE_SEG => flash'[a] = flash[a]
  <2> SUFFICES ASSUME flash[FIRST_BUNDLE_SEG] = Blank, NEW a \in Addr, a < SegSize PROVE flash'[a] = flash[a]
    OBVIOUS
  <2>1. SegmentOf(a) = FIRST_BUNDLE_SEG
    BY <1>1 DEF SegmentOf, SECOND_BUNDLE_SEG
  <2> QED
    BY <1>1, <2>1, NoFirst DEF Marks
<1> QED
  BY <1>2, <1>3, FirstKept

\* Erasing does, too, but for the words of the segment.
LEMMA FirstErased ==
    ASSUME TypeOK, RoomInv, NEW seg \in Segment, flash' = Erased(flash, seg)
    PROVE  /\ (flash[FIRST_BUNDLE_SEG] = Blank => IsBlank(FIRST_BUNDLE_SEG))'
           /\ flash' \in [Addr -> Word]
<1>1. StackSize # {} /\ flash \in [Addr -> Word]
  BY DEF TypeOK
<1>2. /\ flash' \in [Addr -> Word]
      /\ \A a \in Addr : flash'[a] = IF SegmentOf(a) = seg THEN Blank ELSE flash[a]
      /\ \A a \in seg..(seg + SegSize - 1) : flash'[a] = Blank
  BY <1>1, ErasedIs
<1>3. CASE seg = FIRST_BUNDLE_SEG
  BY <1>2, <1>3 DEF IsBlank, BlankFrom
<1>4. CASE seg = SECOND_BUNDLE_SEG
  <2>1. \A a \in Addr : a < SegSize => flash'[a] = flash[a]
    BY <1>1, <1>2, <1>4, Segments DEF SECOND_BUNDLE_SEG
  <2>2. FIRST_BUNDLE_SEG \in Addr /\ FIRST_BUNDLE_SEG < SegSize
    BY <1>1, Segments DEF FIRST_BUNDLE_SEG
  <2> QED
    BY <1>2, <2>1, <2>2, FirstKept
<1> QED
  BY <1>2, <1>3, <1>4 DEF Segment

\* A step that programs words from baseaddr on.
LEMMA FirstWritten ==
    ASSUME TypeOK, RoomInv, mode = "write", NEW k \in Nat, baseaddr + k \in Addr, k = 0 \/ cursor > 0,
           flash' \in [Addr -> Word], flash'[baseaddr + k] # Blank,
           \A c \in Addr : c # baseaddr + k => flash'[c] = flash[c]
    PROVE  /\ (flash[FIRST_BUNDLE_SEG] = Blank => IsBlank(FIRST_BUNDLE_SEG))'
           /\ flash'[FIRST_BUNDLE_SEG] = Blank => flash[FIRST_BUNDLE_SEG] = Blank /\ baseaddr >= SECOND_BUNDLE_SEG
<1>1. /\ FIRST_BUNDLE_SEG = 0 /\ SECOND_BUNDLE_SEG = SegSize /\ SegSize \in Nat /\ baseaddr \in Nat /\ FIRST_BUNDLE_SEG \in Addr
      /\ cursor \in Nat /\ \A a \in Addr : a \in Nat
  BY Segments DEF TypeOK, RoomInv, FIRST_BUNDLE_SEG, SECOND_BUNDLE_SEG, Addr, Segment
<1>2. flash[0] = Blank => baseaddr >= SegSize \/ (baseaddr = 0 /\ cursor = 0)
  BY <1>1 DEF RoomInv
<1>3. flash'[0] = Blank => flash[0] = Blank
  BY <1>1
<1>4. flash[0] = Blank => baseaddr + k >= SegSize \/ baseaddr + k = 0
  BY <1>1, <1>2
<1>5. flash'[0] = Blank => baseaddr >= SegSize
  BY <1>1, <1>2, <1>3, <1>4
<1>6. flash[0] = Blank => \A a \in Addr : a < SegSize /\ a # 0 => flash'[a] = flash[a]
  BY <1>1, <1>4
<1> QED
  BY <1>1, <1>3, <1>5, <1>6, FirstKept

\* At the start nothing is written.
LEMMA RoomStart == Init => RoomIInv
<1> SUFFICES ASSUME Init PROVE RoomIInv
  OBVIOUS
<1>0. StackSize # {}
  BY DEF Init
<1>1. SegSize \in Nat /\ flash \in [Addr -> Word]
  BY SizesAssumption DEF Init, Word
<1>2. TypeOK
  BY <1>1 DEF Init, TypeOK
<1>3. RoomInv
  BY <1>0, <1>1, Segments DEF Init, RoomInv, IsBlank, BlankFrom, Segment, FIRST_BUNDLE_SEG
<1> QED
  BY <1>2, <1>3 DEF RoomIInv

\* The sizes of the bundle being written.
LEMMA BundleSizes ==
    ASSUME TypeOK
    PROVE  /\ BundleSize \in Nat /\ BundleSize <= SegSize /\ BundleSize >= 3 /\ BundleSize = Registers + stack + GlobalSize + 2
           /\ SegSize \in Nat /\ Registers \in Nat /\ cursor \in Nat /\ stack \in Nat /\ GlobalSize \in Nat
           /\ Registers >= 1 /\ StackSize # {}
<1>1. stack \in StackSize /\ cursor \in 0..SegSize
  BY DEF TypeOK
<1> QED
  BY <1>1, Sizes DEF BundleSize

\* After a search, the first segment is marked or empty.
LEMMA FirstSuperseded ==
    ASSUME TypeOK, RoomInv, ~segment_is_empty(flash, 0)
    PROVE  segment_marked_erase(Cleared(flash, find_active_bundle(flash).zeros), 0)
<1> DEFINE f1 == Cleared(flash, find_active_bundle(flash).zeros)
           w == Walks(flash, Pri(flash))[Pri(flash)]
<1>1. FIRST_BUNDLE_SEG = 0 /\ flash \in [Addr -> Word] /\ StackSize # {} /\ 0 \in Segment
  BY DEF TypeOK, FIRST_BUNDLE_SEG, Segment
<1>2. /\ Pri(flash) \in Segment /\ WalkFound(flash, Pri(flash), Pri(flash)) /\ Marks(flash, f1)
      /\ w.abortive => segment_marked_erase(f1, Pri(flash))
      /\ w.candidate # NoBundle => segment_marked_erase(f1, 0)
  BY <1>1, FindIs
<1>3. CASE w.candidate = NoBundle /\ Pri(flash) = 0
  <2>1. flash[0] # Blank
    BY <1>1, NoFirst
  <2>2. w.abortive
    BY <1>2, <1>3, <2>1 DEF WalkFound
  <2> QED
    BY <1>2, <1>3, <2>2
<1>4. CASE w.candidate = NoBundle /\ Pri(flash) # 0
  <2>1. segment_marked_erase(flash, 0)
    BY <1>1, <1>4 DEF Pri
  <2> QED
    BY <1>1, <1>2, <2>1 DEF Marks
<1> QED
  BY <1>2, <1>3, <1>4

\* A checkpoint begins with a place in front of the end of a segment, or with
\* the first segment marked.
LEMMA RoomCheckpoint == RoomIInv /\ Checkpoint => RoomIInv'
<1> SUFFICES ASSUME TypeOK, RoomInv, Checkpoint PROVE RoomIInv'
  BY DEF RoomIInv
<1>1. PICK s \in StackSize :
         LET r == locate_next_bundle(flash, s)
         IN  /\ stack' = s /\ flash' = Cleared(flash, r.zeros) /\ baseaddr' = r.ret
             /\ mode' = IF r.ret = NoBundle THEN "makeRoom" ELSE "write"
  BY DEF Checkpoint
<1>2. flash \in [Addr -> Word] /\ StackSize # {} /\ cursor' = 0 /\ newest' = newest /\ whole' = whole
  BY DEF Checkpoint, TypeOK
<1>3. Marks(flash, flash') /\ LocatedAt(flash, s, baseaddr', flash')
  BY <1>1, <1>2, LocateIs
<1>4. /\ (flash[FIRST_BUNDLE_SEG] = Blank => IsBlank(FIRST_BUNDLE_SEG))'
      /\ flash' \in [Addr -> Word] /\ flash'[FIRST_BUNDLE_SEG] = flash[FIRST_BUNDLE_SEG]
  BY <1>3, FirstMarked
<1>5. /\ FIRST_BUNDLE_SEG = 0 /\ SECOND_BUNDLE_SEG = SegSize /\ SegSize \in Nat /\ SegSize >= 3 /\ 0 # SegSize
      /\ FlashEnd = SegSize + SegSize /\ Addr = 0..(FlashEnd - 1) /\ NoBundle \notin Addr
      /\ Registers + s + GlobalSize + 2 \in Nat /\ Registers + s + GlobalSize + 2 <= SegSize
      /\ Segment = {0, SegSize} /\ Other(0) = SegSize /\ Other(SegSize) = 0 /\ 0 \in Addr /\ SegSize \in Addr
  <2>1. /\ FIRST_BUNDLE_SEG = 0 /\ SECOND_BUNDLE_SEG = SegSize /\ SegSize \in Nat /\ SegSize >= 3 /\ 0 # SegSize
        /\ FlashEnd = SegSize + SegSize /\ Addr = 0..(FlashEnd - 1)
        /\ Registers + s + GlobalSize + 2 \in Nat /\ Registers + s + GlobalSize + 2 <= SegSize
    BY <1>2, Sizes
  <2>2. Segment = {0, SegSize} /\ Other(0) = SegSize /\ Other(SegSize) = 0 /\ SegSize >= 3
    BY <1>2, Segments
  <2>3. 0 \in Addr /\ SegSize \in Addr
    BY <1>2, <2>2, Segments
  <2> QED
    BY <2>1, <2>2, <2>3, Words
<1>6. \A a \in Addr : (a < SegSize /\ SegmentOf(a) = 0) \/ (a >= SegSize /\ SegmentOf(a) = SegSize)
  BY <1>2, Segments
<1> DEFINE active == find_active_bundle(flash)
           b == active.ret
           f1 == Cleared(flash, active.zeros)
           next == FirstBlank(f1, b + Size(f1[b]))
           size == Registers + s + GlobalSize + 2
<1>7. /\ Marks(flash, f1) /\ b \in Addr \cup {NoBundle}
      /\ ~segment_is_empty(flash, 0) => segment_marked_erase(f1, 0)
  BY <1>2, FindIs, FirstSuperseded
<1>8. ASSUME b # NoBundle
      PROVE  /\ b \in Addr /\ next \in Nat /\ next > b /\ (next <= FlashEnd => next \in Addr)
             /\ segment_is_empty(flash, 0) => b >= SegSize /\ SegmentOf(b) = SegSize
  <2>1. /\ b \in Addr /\ b \in Nat /\ b \in Pri(flash)..(Pri(flash) + SegSize - 1)
        /\ b + Size(f1[b]) \in Nat /\ b + Size(f1[b]) > b
        /\ next \in (b + Size(f1[b]))..(FlashEnd + 1) /\ next \in Nat
        /\ next <= FlashEnd => next \in Addr
    BY <1>2, <1>8, FoundEnds
  <2>2. next > b
    <3> HIDE DEF next, b, f1
    <3> QED
      BY <2>1
  <2>3. segment_is_empty(flash, 0) => b >= SegSize
    BY <1>5, <2>1 DEF Pri
  <2> HIDE DEF next, b, f1
  <2> QED
    BY <1>5, <1>6, <2>1, <2>2, <2>3
<1> HIDE DEF active, b, f1, next
<1>9. CASE baseaddr' = NoBundle
  <2>1. mode' = "makeRoom"
    BY <1>1, <1>9
  <2>2. segment_marked_erase(flash', 0)
    <3>1. CASE b = NoBundle
      <4>1. flash' = f1 /\ ~segment_is_empty(flash, 0)
        BY <1>3, <1>5, <1>9, <3>1 DEF LocatedAt, b, f1, active
      <4> QED
        BY <1>7, <3>1, <4>1
    <3>2. CASE b # NoBundle
      <4>1. PICK c \in {b, next} : /\ c \in Addr /\ segment_marked_erase(flash', Other(SegmentOf(c))) /\ Marks(f1, flash')
                                   /\ c = b \/ next <= FlashEnd
        BY <1>3, <1>5, <1>6, <1>8, <1>9, <3>2 DEF LocatedAt, b, f1, active, next
      <4>2. CASE segment_is_empty(flash, 0)
        <5>1. c >= SegSize
          BY <1>5, <1>8, <3>2, <4>1, <4>2
        <5>2. SegmentOf(c) = SegSize
          BY <1>5, <1>6, <4>1, <5>1
        <5> QED
          BY <1>5, <4>1, <5>2
      <4>3. CASE ~segment_is_empty(flash, 0)
        BY <1>5, <1>7, <3>2, <4>1, <4>3 DEF Marks
      <4> QED
        BY <4>2, <4>3
    <3> QED
      BY <3>1, <3>2
  <2>3. TypeOK'
    BY <1>1, <1>2, <1>4, <1>5, <1>9, <2>1 DEF TypeOK
  <2>4. RoomInv'
    BY <1>2, <1>4, <1>5, <2>1, <2>2 DEF RoomInv, marked
  <2> QED
    BY <2>3, <2>4 DEF RoomIInv
<1>10. CASE baseaddr' # NoBundle
  <2>1. mode' = "write"
    BY <1>1, <1>10
  <2>2. CASE baseaddr' \in Segment
    <3>1. baseaddr' \in Addr /\ (baseaddr' = 0 \/ baseaddr' = SegSize) /\ SegmentOf(baseaddr') = baseaddr'
      BY <1>2, <1>5, <2>2, Segments
    <3>2. BundleInSegment'
      BY <1>1, <1>5, <3>1 DEF BundleInSegment, BundleSize
    <3>3. TypeOK'
      BY <1>1, <1>2, <1>4, <1>5, <2>1, <3>1 DEF TypeOK
    <3>4. cursor' <= BundleSize'
      BY <1>1, <1>2, <1>5 DEF BundleSize
    <3>5. RoomInv'
      BY <1>2, <1>4, <1>5, <2>1, <3>1, <3>2, <3>4 DEF RoomInv
    <3> QED
      BY <3>3, <3>5 DEF RoomIInv
  <2>3. CASE baseaddr' \notin Segment
    <3>1. b # NoBundle /\ next <= FlashEnd /\ ~Overruns(next, size) /\ baseaddr' = next
      <4>1. b # NoBundle => Other(SegmentOf(b)) \in Segment
        BY <1>5, <1>6, <1>8
      <4>2. Other(SegmentOf(next)) \in Segment
        BY <1>5 DEF SegmentOf, Other, FIRST_BUNDLE_SEG, SECOND_BUNDLE_SEG
      <4> QED
        BY <1>3, <1>5, <1>10, <2>3, <4>1, <4>2 DEF LocatedAt, b, f1, active, next, size
    <3>2. baseaddr' \in Addr /\ baseaddr' \in Nat /\ b \in Nat
      BY <1>5, <1>8, <3>1
    <3>3. BundleInSegment'
      <4>1. ~(next + size > SegmentOf(next) + SegSize)
        BY <3>1 DEF Overruns
      <4>2. SegmentOf(next) \in Nat /\ size \in Nat /\ next \in Nat
        BY <1>5, <1>6, <3>1, <3>2
      <4>3. next + size <= SegmentOf(next) + SegSize
        <5> HIDE DEF size
        <5> QED
          BY <1>5, <4>1, <4>2
      <4>4. BundleSize' = size
        BY <1>1 DEF BundleSize
      <4>5. BundleInSegment' = (mode' = "write" => baseaddr' + BundleSize' <= SegmentOf(baseaddr') + SegSize)
        BY DEF BundleInSegment, SegmentOf, FIRST_BUNDLE_SEG, SECOND_BUNDLE_SEG
      <4> QED
        BY <3>1, <4>3, <4>4, <4>5
    <3>4. TypeOK'
      BY <1>1, <1>2, <1>4, <1>5, <2>1, <3>2 DEF TypeOK
    <3>5. cursor' <= BundleSize'
      BY <1>1, <1>2, <1>5 DEF BundleSize
    <3>6. flash'[0] = Blank => baseaddr' >= SegSize
      <4> SUFFICES ASSUME flash'[0] = Blank PROVE baseaddr' >= SegSize
        OBVIOUS
      <4>1. segment_is_empty(flash, 0)
        BY <1>4, <1>5, NoFirst
      <4> QED
        BY <1>5, <1>8, <3>1, <3>2, <4>1
    <3>7. RoomInv'
      BY <1>2, <1>4, <1>5, <2>1, <3>2, <3>3, <3>5, <3>6 DEF RoomInv
    <3> QED
      BY <3>4, <3>7 DEF RoomIInv
  <2> QED
    BY <2>2, <2>3
<1> QED
  BY <1>9, <1>10


\* The header programmed: what becomes of the word.
LEMMA HeaderWritten ==
    ASSUME TypeOK, RoomInv, WriteHeader
    PROVE  /\ flash' \in [Addr -> Word] /\ baseaddr \in Addr
           /\ \A c \in Addr : c # baseaddr => flash'[c] = flash[c]
           /\ flash'[baseaddr] # Blank \/ (cursor = 1 /\ flash' = flash)
<1>1. /\ flash \in [Addr -> Word] /\ baseaddr \in Addr /\ mode = "write" /\ stack \in StackSize
      /\ cursor = 0 \/ cursor = 1
  BY BundleSizes DEF TypeOK, RoomInv, WriteHeader
<1>2. /\ <<stack, TornSize>> \in Word /\ <<stack, GlobalSize>> \in Word
      /\ <<stack, TornSize>> # Blank /\ <<stack, GlobalSize>> # Blank
  BY <1>1, Words DEF Word, Header
<1>3. CASE cursor = 0
  <2>1. flash' = Program(flash, baseaddr, <<stack, TornSize>>)
    BY <1>3 DEF WriteHeader
  <2> QED
    BY <1>1, <1>2, <2>1, ProgramIs
<1>4. CASE cursor = 1 /\ flash[baseaddr] = <<stack, TornSize>>
  <2>1. flash' = [flash EXCEPT ![baseaddr] = <<stack, GlobalSize>>]
    BY <1>4 DEF WriteHeader
  <2> QED
    BY <1>1, <1>2, <2>1
<1>5. CASE cursor = 1 /\ flash[baseaddr] # <<stack, TornSize>>
  <2>1. flash' = flash
    BY <1>5 DEF WriteHeader
  <2> QED
    BY <1>1, <1>5, <2>1
<1> QED
  BY <1>1, <1>3, <1>4, <1>5

\* A word of the bundle programmed.
LEMMA WordWritten ==
    ASSUME TypeOK, RoomInv, mode = "write", NEW k \in 0..(BundleSize - 1), NEW w \in Word, w # Blank,
           flash' = Program(flash, baseaddr + k, w)
    PROVE  /\ baseaddr \in Addr /\ baseaddr + k \in Addr /\ SegmentOf(baseaddr + k) = SegmentOf(baseaddr)
           /\ flash' \in [Addr -> Word]
           /\ \A c \in Addr : c # baseaddr + k => flash'[c] = flash[c]
           /\ flash'[baseaddr + k] \in {w, Zero, Data} /\ flash'[baseaddr + k] # Blank
           /\ flash[baseaddr + k] = Blank => flash'[baseaddr + k] = w
<1>1. /\ flash \in [Addr -> Word] /\ baseaddr \in Addr /\ baseaddr + BundleSize <= SegmentOf(baseaddr) + SegSize
  BY DEF TypeOK, RoomInv, BundleInSegment
<1>2. baseaddr + k \in Addr /\ SegmentOf(baseaddr + k) = SegmentOf(baseaddr)
  <2>1. BundleSize \in Nat /\ SegSize \in Nat /\ StackSize # {}
    BY BundleSizes
  <2>2. /\ SegmentOf(baseaddr) \in Segment /\ baseaddr \in SegmentOf(baseaddr)..(SegmentOf(baseaddr) + SegSize - 1)
        /\ SegmentOf(baseaddr) \in Nat
    BY <1>1, <2>1, Segments
  <2>3. baseaddr + k \in SegmentOf(baseaddr)..(SegmentOf(baseaddr) + SegSize - 1)
    BY <1>1, <2>1, <2>2
  <2> QED
    BY <2>1, <2>2, <2>3, Segments
<1> QED
  BY <1>1, <1>2, ProgramIs

\* The room that was found is written.
LEMMA RoomWritten ==
    ASSUME RoomIInv, WriteHeader \/ WriteData \/ WriteMagic
    PROVE  RoomIInv'
<1>1. TypeOK /\ RoomInv /\ mode = "write"
  BY DEF RoomIInv, WriteHeader, WriteData, WriteMagic
<1>2. /\ BundleSize \in Nat /\ BundleSize <= SegSize /\ BundleSize >= 3 /\ BundleSize = Registers + stack + GlobalSize + 2
      /\ SegSize \in Nat /\ Registers \in Nat /\ cursor \in Nat /\ stack \in Nat /\ GlobalSize \in Nat
      /\ Registers >= 1 /\ StackSize # {}
  BY <1>1, BundleSizes
<1>3. FIRST_BUNDLE_SEG = 0 /\ SECOND_BUNDLE_SEG = SegSize /\ baseaddr \in Addr /\ baseaddr \in Nat /\ cursor <= BundleSize
  BY <1>1, <1>2 DEF RoomInv, FIRST_BUNDLE_SEG, SECOND_BUNDLE_SEG, Addr
\* A word after the header, unless the header is being written.
<1>4. ASSUME NEW k \in 0..(BundleSize - 1), k = 0 \/ cursor > 0,
             flash' \in [Addr -> Word], flash'[baseaddr + k] # Blank, baseaddr + k \in Addr,
             \A c \in Addr : c # baseaddr + k => flash'[c] = flash[c]
      PROVE  /\ (flash[FIRST_BUNDLE_SEG] = Blank => IsBlank(FIRST_BUNDLE_SEG))'
             /\ flash'[0] = Blank => flash[0] = Blank /\ baseaddr >= SegSize
  <2>1. k \in Nat
    BY <1>2
  <2> QED
    BY <1>1, <1>3, <1>4, <2>1, FirstWritten
<1>5. ASSUME stack' = stack, baseaddr' = baseaddr
      PROVE  /\ BundleSize' = BundleSize
             /\ mode' = mode => BundleInSegment'
  <2>1. BundleSize' = BundleSize
    BY <1>5 DEF BundleSize
  <2>2. SegmentOf(baseaddr') = SegmentOf(baseaddr)
    BY <1>5
  <2> QED
    BY <1>1, <1>5, <2>1, <2>2 DEF BundleInSegment, RoomInv, SegmentOf, FIRST_BUNDLE_SEG, SECOND_BUNDLE_SEG
<1>6. CASE WriteHeader
  <2>1. /\ flash' \in [Addr -> Word] /\ \A c \in Addr : c # baseaddr => flash'[c] = flash[c]
        /\ flash'[baseaddr] # Blank \/ (cursor = 1 /\ flash' = flash)
    BY <1>1, <1>6, HeaderWritten
  <2>2. /\ (flash[FIRST_BUNDLE_SEG] = Blank => IsBlank(FIRST_BUNDLE_SEG))'
        /\ flash'[0] = Blank => flash[0] = Blank /\ baseaddr >= SegSize
    <3>1. CASE flash'[baseaddr] # Blank
      <4>1. 0 \in 0..(BundleSize - 1) /\ baseaddr + 0 = baseaddr
        BY <1>2, <1>3
      <4> QED
        BY <1>3, <1>4, <2>1, <3>1, <4>1
    <3>2. CASE cursor = 1 /\ flash' = flash
      BY <1>1, <1>3, <3>2 DEF RoomInv, IsBlank, BlankFrom
    <3> QED
      BY <2>1, <3>1, <3>2
  <2>3. stack' = stack /\ baseaddr' = baseaddr /\ mode' = mode /\ cursor' = cursor + 1 /\ cursor < 2 /\ newest' = newest /\ whole' = whole
    BY <1>6 DEF WriteHeader
  <2>4. TypeOK'
    BY <1>1, <1>2, <2>1, <2>3 DEF TypeOK
  <2>5. RoomInv'
    BY <1>1, <1>2, <1>3, <1>5, <2>2, <2>3 DEF RoomInv
  <2> QED
    BY <2>4, <2>5 DEF RoomIInv
<1>7. CASE WriteData
  <2> DEFINE k == IF cursor <= Registers + 1 THEN Registers + 2 - cursor ELSE cursor - 1
  <2>1. /\ flash' = Program(flash, baseaddr + k, Data) /\ cursor \in 2..(BundleSize - 1)
        /\ stack' = stack /\ baseaddr' = baseaddr /\ mode' = mode /\ cursor' = cursor + 1 /\ newest' = newest /\ whole' = whole
    BY <1>7 DEF WriteData
  <2>2. k \in 0..(BundleSize - 1) /\ Data \in Word /\ Data # Blank
    BY <1>2, <2>1, Words DEF Word
  <2> HIDE DEF k
  <2>3. /\ flash' \in [Addr -> Word] /\ baseaddr + k \in Addr /\ flash'[baseaddr + k] # Blank
        /\ \A c \in Addr : c # baseaddr + k => flash'[c] = flash[c]
    BY <1>1, <2>1, <2>2, WordWritten
  <2>4. /\ (flash[FIRST_BUNDLE_SEG] = Blank => IsBlank(FIRST_BUNDLE_SEG))'
        /\ flash'[0] = Blank => flash[0] = Blank /\ baseaddr >= SegSize
    <3>1. cursor > 0
      BY <1>2, <2>1
    <3> QED
      BY <1>4, <2>2, <2>3, <3>1
  <2>5. TypeOK'
    BY <1>1, <1>2, <2>1, <2>3 DEF TypeOK
  <2>6. RoomInv'
    BY <1>1, <1>2, <1>3, <1>5, <2>1, <2>4 DEF RoomInv
  <2> QED
    BY <2>5, <2>6 DEF RoomIInv
<1>8. CASE WriteMagic
  <2>1. /\ flash' = Program(flash, baseaddr + BundleSize - 1, Magic) /\ cursor = BundleSize
        /\ stack' = stack /\ baseaddr' = baseaddr /\ cursor' = 0 /\ newest' = baseaddr /\ whole' = whole \cup {baseaddr}
        /\ mode' = IF baseaddr \in Segment /\ ~segment_is_empty(flash, Other(baseaddr)) THEN "supersede" ELSE "run"
    BY <1>8 DEF WriteMagic
  <2>2. BundleSize - 1 \in 0..(BundleSize - 1) /\ baseaddr + BundleSize - 1 = baseaddr + (BundleSize - 1) /\ Magic \in Word /\ Magic # Blank
    BY <1>2, <1>3, Words DEF Word
  <2>3. /\ flash' \in [Addr -> Word] /\ baseaddr + (BundleSize - 1) \in Addr /\ flash'[baseaddr + (BundleSize - 1)] # Blank
        /\ \A c \in Addr : c # baseaddr + (BundleSize - 1) => flash'[c] = flash[c]
    BY <1>1, <2>1, <2>2, WordWritten
  <2>4. /\ (flash[FIRST_BUNDLE_SEG] = Blank => IsBlank(FIRST_BUNDLE_SEG))'
        /\ flash'[0] = Blank => flash[0] = Blank /\ baseaddr >= SegSize
    <3>1. cursor > 0
      BY <1>2, <2>1
    <3> QED
      BY <1>4, <2>2, <2>3, <3>1
  <2>5. TypeOK'
    BY <1>1, <1>2, <1>3, <2>1, <2>3 DEF TypeOK
  <2>6. mode' = "supersede" /\ baseaddr = SegSize => flash'[0] # Blank
    <3> SUFFICES ASSUME mode' = "supersede", baseaddr = SegSize, flash[0] = Blank PROVE FALSE
      BY <2>4
    <3>1. segment_is_empty(flash, 0)
      BY <1>1, <1>3, NoFirst
    <3>2. Other(baseaddr) = 0
      BY <1>2, Segments
    <3> QED
      BY <2>1, <3>1, <3>2
  <2>7. mode' = "supersede" => baseaddr \in Segment
    BY <2>1
  <2>8. RoomInv'
    BY <1>1, <1>2, <1>3, <2>1, <2>4, <2>6, <2>7 DEF RoomInv, Segment
  <2> QED
    BY <2>5, <2>8 DEF RoomIInv
<1> QED
  BY <1>6, <1>7, <1>8

\* Superseding a segment marks it.
LEMMA SupersedeMarks ==
    ASSUME TypeOK, RoomInv, MarkSuperseded
    PROVE  /\ flash \in [Addr -> Word] /\ baseaddr \in Segment /\ Other(baseaddr) \in Segment /\ cursor \in 0..1
           /\ flash' \in [Addr -> Word]
           /\ \A a \in Addr : flash'[a] = IF a = (IF cursor = 0 THEN Other(baseaddr) + 1 ELSE Other(baseaddr) + SegSize - 1)
                                          THEN Zero ELSE flash[a]
<1>1. /\ flash \in [Addr -> Word] /\ baseaddr \in Segment /\ cursor \in 0..1 /\ StackSize # {} /\ mode = "supersede"
  BY DEF TypeOK, RoomInv, MarkSuperseded
<1>2. Other(baseaddr) \in Segment
  BY <1>1, Segments
<1> DEFINE seg == Other(baseaddr)
           a0 == IF cursor = 0 THEN seg + 1 ELSE seg + SegSize - 1
<1>3. a0 \in Addr
  BY <1>1, <1>2, Segments
<1>4. cursor = 0 \/ cursor = 1
  BY <1>1
<1>5. Mark(seg)[cursor + 1] = a0
  BY <1>1, <1>2, <1>4, MarkIs
<1>6. flash' = Program(flash, a0, Zero) /\ Zero \in Word /\ Zero # Blank
  BY <1>5, Words DEF MarkSuperseded, Word
<1> HIDE DEF a0
<1>7. flash' \in [Addr -> Word] /\ flash'[a0] = Zero /\ \A c \in Addr : c # a0 => flash'[c] = flash[c]
  BY <1>1, <1>3, <1>6, ProgramIs
<1>8. \A a \in Addr : flash'[a] = IF a = a0 THEN Zero ELSE flash[a]
  BY <1>7
<1> QED
  BY <1>1, <1>2, <1>7, <1>8 DEF a0

\* The other steps leave room.
LEMMA RoomStep == RoomIInv /\ [Next]_vars => RoomIInv'
<1> SUFFICES ASSUME TypeOK, RoomInv, [Next]_vars PROVE RoomIInv'
  BY DEF RoomIInv
<1>1. /\ StackSize # {} /\ flash \in [Addr -> Word] /\ SegSize \in Nat /\ NoBundle \notin Addr
      /\ FIRST_BUNDLE_SEG = 0 /\ SECOND_BUNDLE_SEG = SegSize /\ 0 \in Segment /\ SegSize \in Segment
  BY SizesAssumption, Words DEF TypeOK, FIRST_BUNDLE_SEG, SECOND_BUNDLE_SEG, Segment
<1>2. CASE Checkpoint
  BY <1>2, RoomCheckpoint DEF RoomIInv
<1>3. ASSUME NEW seg \in Segment, MakeRoom(seg) PROVE RoomIInv'
  <2>1. seg = 0 /\ cursor = 0
    BY <1>1, <1>3, Segments DEF RoomInv, marked, MakeRoom
  <2>2. /\ flash' = Erased(flash, 0) /\ baseaddr' = 0 /\ mode' = "write" /\ stack' = stack /\ cursor' = 0
        /\ whole' \subseteq whole /\ newest' = newest
    BY <1>3, <2>1 DEF MakeRoom, Forget
  <2>3. (flash[FIRST_BUNDLE_SEG] = Blank => IsBlank(FIRST_BUNDLE_SEG))' /\ flash' \in [Addr -> Word]
    BY <1>1, <2>2, FirstErased
  <2>4. 0 \in Addr /\ SegmentOf(0) = 0
    BY <1>1, Segments
  <2>5. TypeOK'
    BY <1>1, <2>2, <2>3, <2>4 DEF TypeOK
  <2>6. BundleInSegment' /\ BundleSize' \in Nat
    <3>1. BundleSize' = BundleSize /\ BundleSize \in Nat /\ BundleSize <= SegSize
      BY <2>2, BundleSizes DEF BundleSize
    <3> QED
      BY <1>1, <2>2, <3>1, <2>4 DEF BundleInSegment
  <2>7. RoomInv'
    BY <1>1, <2>2, <2>3, <2>4, <2>6 DEF RoomInv
  <2> QED
    BY <2>5, <2>7 DEF RoomIInv
<1>4. CASE WriteHeader \/ WriteData \/ WriteMagic
  BY <1>4, RoomWritten DEF RoomIInv
<1>5. CASE MarkSuperseded
  <2> DEFINE seg == Other(baseaddr)
             a0 == IF cursor = 0 THEN seg + 1 ELSE seg + SegSize - 1
  <2>1. /\ baseaddr \in Segment /\ seg \in Segment /\ cursor \in 0..1 /\ flash' \in [Addr -> Word]
        /\ \A a \in Addr : flash'[a] = IF a = a0 THEN Zero ELSE flash[a]
    BY <1>5, SupersedeMarks
  <2>2. /\ baseaddr' = baseaddr /\ stack' = stack /\ newest' = newest /\ whole' = whole /\ cursor' = (cursor + 1) % 2
        /\ mode = "supersede" /\ mode' = IF cursor = 1 THEN "run" ELSE mode
    BY <1>5 DEF MarkSuperseded
  <2>3. cursor' \in 0..1 /\ SegSize >= 3
    BY <1>1, <2>1, <2>2, Segments
  <2>4. a0 \in Addr /\ a0 # 0 /\ SegmentOf(a0) = seg
    <3>1. a0 = seg + 1 \/ a0 = seg + SegSize - 1
      OBVIOUS
    <3> HIDE DEF a0, seg
    <3> QED
      BY <1>1, <2>1, <2>3, <3>1, Segments
  <2>5. flash[0] = Blank => seg = SegSize
    BY <1>1, <2>1, <2>2, Segments DEF RoomInv
  <2>6. flash[0] = Blank => a0 >= SegSize
    BY <1>1, <2>4, <2>5, Segments
  <2> HIDE DEF a0, seg
  <2>7. flash'[0] = flash[0]
    BY <1>1, <2>1, <2>4, Segments
  <2>8. (flash[FIRST_BUNDLE_SEG] = Blank => IsBlank(FIRST_BUNDLE_SEG))'
    <3>1. flash[0] = Blank => \A a \in Addr : a < SegSize /\ a # 0 => flash'[a] = flash[a]
      <4> SUFFICES ASSUME flash[0] = Blank, NEW a \in Addr, a < SegSize PROVE flash'[a] = flash[a]
        OBVIOUS
      <4>1. SegmentOf(a) = 0
        BY DEF SegmentOf, FIRST_BUNDLE_SEG, SECOND_BUNDLE_SEG
      <4>2. SegmentOf(a) # SegmentOf(a0)
        BY <1>1, <2>4, <2>5, <4>1, Segments
      <4> QED
        BY <2>1, <4>2
    <3> QED
      BY <1>1, <2>1, <2>7, <3>1, FirstKept
  <2>9. TypeOK'
    BY <1>1, <2>1, <2>2, <2>3 DEF TypeOK
  <2>10. RoomInv'
    BY <1>1, <2>1, <2>2, <2>3, <2>7, <2>8 DEF RoomInv
  <2> QED
    BY <2>9, <2>10 DEF RoomIInv
<1>6. ASSUME NEW seg \in Segment, NEW now, NEW next, now \in {"off", "cleanSecond"}, next \in {"cleanSecond", "find"},
             Cleanup(seg, now, next)
      PROVE  RoomIInv'
  <2>1. mode' = next /\ baseaddr' = baseaddr /\ stack' = stack /\ cursor' = cursor /\ newest' = newest /\ whole' \subseteq whole
    BY <1>6 DEF Cleanup, Forget
  <2>2. flash' = flash \/ flash' = Erased(flash, seg)
    BY <1>6 DEF Cleanup
  <2>3. (flash[FIRST_BUNDLE_SEG] = Blank => IsBlank(FIRST_BUNDLE_SEG))' /\ flash' \in [Addr -> Word]
    <3>1. CASE flash' = flash
      BY <1>1, <3>1 DEF RoomInv, IsBlank, BlankFrom
    <3> QED
      BY <2>2, <3>1, FirstErased
  <2>4. TypeOK'
    BY <1>6, <2>1, <2>3 DEF TypeOK
  <2>5. RoomInv'
    BY <1>6, <2>1, <2>3 DEF RoomInv
  <2> QED
    BY <2>4, <2>5 DEF RoomIInv
<1>7. CASE CleanFirst
  BY <1>1, <1>6, <1>7 DEF CleanFirst
<1>8. CASE CleanSecond
  BY <1>1, <1>6, <1>8 DEF CleanSecond
<1>9. CASE Find
  <2>1. /\ flash' = Cleared(flash, find_active_bundle(flash).zeros) /\ baseaddr' = find_active_bundle(flash).ret
        /\ mode' = IF baseaddr' = NoBundle THEN "run" ELSE "restore"
        /\ stack' = stack /\ cursor' = cursor /\ newest' = newest /\ whole' = whole
    BY <1>9 DEF Find
  <2>2. Marks(flash, flash') /\ baseaddr' \in Addr \cup {NoBundle}
    BY <1>1, <2>1, FindIs
  <2>3. (flash[FIRST_BUNDLE_SEG] = Blank => IsBlank(FIRST_BUNDLE_SEG))' /\ flash' \in [Addr -> Word]
    BY <2>2, FirstMarked
  <2>4. TypeOK'
    BY <2>1, <2>2, <2>3 DEF TypeOK
  <2>5. RoomInv'
    BY <1>1, <2>1, <2>2, <2>3 DEF RoomInv
  <2> QED
    BY <2>4, <2>5 DEF RoomIInv
<1>10. CASE Restore
  <2>1. mode' = "run" /\ baseaddr' = baseaddr /\ stack' = stack /\ cursor' = cursor /\ newest' = newest /\ whole' \subseteq whole
    BY <1>10 DEF Restore, Forget
  <2>2. Other(SegmentOf(baseaddr)) \in Segment
    BY <1>1, Segments DEF Other, Segment
  <2>3. flash' = flash \/ flash' = Erased(flash, Other(SegmentOf(baseaddr)))
    BY <1>10 DEF Restore
  <2>4. (flash[FIRST_BUNDLE_SEG] = Blank => IsBlank(FIRST_BUNDLE_SEG))' /\ flash' \in [Addr -> Word]
    <3>1. CASE flash' = flash
      BY <1>1, <3>1 DEF RoomInv, IsBlank, BlankFrom
    <3> QED
      BY <2>2, <2>3, <3>1, FirstErased
  <2>5. TypeOK'
    BY <2>1, <2>4 DEF TypeOK
  <2>6. RoomInv'
    BY <2>1, <2>4 DEF RoomInv
  <2> QED
    BY <2>5, <2>6 DEF RoomIInv
<1>11. ASSUME PowerFail \/ TornSearch PROVE RoomIInv'
  <2>1. mode' = "off" /\ baseaddr' = NoBundle /\ cursor' = 0 /\ stack' = stack /\ newest' = newest /\ whole' = whole
    BY <1>11 DEF PowerFail, TornSearch, Off
  <2>2. (flash[FIRST_BUNDLE_SEG] = Blank => IsBlank(FIRST_BUNDLE_SEG))' /\ flash' \in [Addr -> Word]
    <3>1. CASE flash' = flash
      BY <1>1, <3>1 DEF RoomInv, IsBlank, BlankFrom
    <3>2. CASE flash' # flash
      <4>1. \E zeros \in MarkSeqs(flash) : TornBy(zeros)
        BY <1>1, <1>11, <3>2, LocateIs, FindIs DEF PowerFail, TornSearch
      <4>2. PICK zeros \in MarkSeqs(flash) : TornBy(zeros)
        BY <4>1
      <4>4. PICK n \in 1..(Len(zeros) - 1) : flash' = Cleared(flash, SubSeq(zeros, 1, n))
        BY <4>2 DEF TornBy
      <4>3. Marks(flash, flash')
        BY <1>1, <4>4, MarksPrefix, MarksAre
      <4> QED
        BY <4>3, FirstMarked
    <3> QED
      BY <3>1, <3>2
  <2>3. TypeOK'
    BY <1>1, <2>1, <2>2 DEF TypeOK
  <2>4. RoomInv'
    BY <2>1, <2>2 DEF RoomInv
  <2> QED
    BY <2>3, <2>4 DEF RoomIInv
<1>12. CASE UNCHANGED vars
  <2>1. TypeOK'
    BY <1>12 DEF vars, TypeOK
  <2>2. RoomInv'
    BY <1>12 DEF vars, RoomInv, IsBlank, BlankFrom, marked, BundleInSegment, BundleSize
  <2> QED
    BY <2>1, <2>2 DEF RoomIInv
<1> QED
  BY <1>2, <1>3, <1>4, <1>5, <1>7, <1>8, <1>9, <1>10, <1>11, <1>12 DEF Next

-----------------------------------------------------------------------------
(* The theorems about types and room.                                      *)

\* The inductive invariant about room holds.
LEMMA RoomHolds == Spec => []RoomIInv
<1>1. Init => RoomIInv
  BY RoomStart
<1>2. RoomIInv /\ [Next]_vars => RoomIInv'
  BY RoomStep
<1> QED
  BY <1>1, <1>2, PTL DEF Spec

\* Whatever the power does, what is programmed and marked are words of the
\* two segments.
THEOREM TypeCorrect == Spec => []TypeOK
<1>1. RoomIInv => TypeOK
  BY DEF RoomIInv
<1> QED
  BY <1>1, RoomHolds, PTL

\* write_bundle() never writes over the end of the segment that
\* locate_next_bundle() found the place in.
THEOREM BundlesStayInSegment == Spec => []BundleInSegment
<1>1. RoomIInv => BundleInSegment
  BY DEF RoomIInv, RoomInv, BundleInSegment
<1> QED
  BY <1>1, RoomHolds, PTL

\* When locate_next_bundle() finds no place, the segment that checkpoint()
\* looks for, one marked for erasure, is there.
THEOREM RoomIsMade == Spec => []RoomCanBeMade
<1>1. RoomIInv => RoomCanBeMade
  BY DEF RoomIInv, RoomInv, RoomCanBeMade, marked, Segment
<1> QED
  BY <1>1, RoomHolds, PTL

-----------------------------------------------------------------------------
(* Bundles that are whole.                                                 *)

\* The segments and their words.
LEMMA FlashIs ==
    ASSUME StackSize # {}
    PROVE  /\ FIRST_BUNDLE_SEG = 0 /\ SECOND_BUNDLE_SEG = SegSize /\ SegSize \in Nat /\ SegSize >= 3
           /\ FlashEnd = SegSize + SegSize /\ Addr = 0..(FlashEnd - 1) /\ NoBundle \notin Addr
           /\ Registers \in Nat /\ Registers >= 1 /\ Registers + 2 <= SegSize /\ STRIDE = Registers + 1
           /\ Segment = {0, SegSize} /\ Other(0) = SegSize /\ Other(SegSize) = 0
<1> PICK s \in StackSize : TRUE
  OBVIOUS
<1>1. /\ FIRST_BUNDLE_SEG = 0 /\ SECOND_BUNDLE_SEG = SegSize /\ SegSize \in Nat
      /\ FlashEnd = SegSize + SegSize /\ Addr = 0..(FlashEnd - 1)
      /\ Registers \in Nat /\ Registers >= 1 /\ Registers + 2 <= SegSize /\ STRIDE = Registers + 1
  BY Sizes
<1>2. NoBundle \notin Addr /\ Segment = {0, SegSize} /\ Other(0) = SegSize /\ Other(SegSize) = 0 /\ SegSize >= 3
  BY Words, Segments
<1> QED
  BY <1>1, <1>2

\* Where an address is.
LEMMA AddrIs ==
    ASSUME StackSize # {}, NEW a \in Addr
    PROVE  /\ a \in Nat /\ a < SegSize + SegSize
           /\ (a < SegSize /\ a \in 0..(SegSize - 1) /\ SegmentOf(a) = 0)
              \/ (a >= SegSize /\ a \in SegSize..(SegSize + SegSize - 1) /\ SegmentOf(a) = SegSize)
BY FlashIs DEF SegmentOf

\* A step that may clear the second word of seg, or mark it, and does
\* nothing else to it.
Keeps(seg) ==
    /\ marked(seg) => marked(seg)'
    /\ ~marked(seg)' => \A a \in Addr : SegmentOf(a) = seg /\ a # seg + 1 => flash'[a] = flash[a]
    /\ flash'[seg + 1] \in {flash[seg + 1], Zero}
    /\ segment_is_empty(flash, seg) => \A a \in Addr : SegmentOf(a) = seg => flash'[a] = flash[a]
    /\ segment_is_empty(flash', seg) => segment_is_empty(flash, seg)
    /\ \A b \in Addr : SegmentOf(b) = seg => (b \in whole' <=> b \in whole)

\* Marks keep the segments, when the bundles remain.
LEMMA MarksKeep ==
    ASSUME TypeOK, EndInv, Marks(flash, flash'), whole' = whole
    PROVE  EndInv' /\ \A seg \in Segment : Keeps(seg)
<1>1. \A seg \in Segment : SegmentOf(seg + 1) = seg /\ SegmentOf(seg + SegSize - 1) = seg /\ seg + 1 \in Addr /\ seg + SegSize - 1 \in Addr
  BY Segments DEF TypeOK
<1>2. ASSUME NEW seg \in Segment, flash'[seg + SegSize - 1] = Zero PROVE flash'[seg + 1] = Zero
  <2>1. flash[seg + SegSize - 1] = Zero \/ flash'[seg + 1] = Zero
    BY <1>2 DEF Marks
  <2>2. flash[seg + SegSize - 1] = Zero => flash[seg + 1] = Zero
    BY DEF EndInv
  <2>3. flash[seg + 1] = Zero => flash'[seg + 1] = Zero
    BY <1>1 DEF Marks
  <2> QED
    BY <2>1, <2>2, <2>3
<1>3. ASSUME NEW seg \in Segment PROVE Keeps(seg)
  <2>1. marked(seg) => marked(seg)'
    BY DEF Marks, marked, segment_marked_erase
  <2>2. ASSUME ~marked(seg)', NEW a \in Addr, SegmentOf(a) = seg, a # seg + 1 PROVE flash'[a] = flash[a]
    <3>1. a # seg + SegSize - 1 => flash'[a] = flash[a]
      BY <2>2 DEF Marks
    <3>2. flash'[seg + SegSize - 1] # Zero
      BY <1>2, <2>2 DEF marked, segment_marked_erase
    <3>3. flash'[a] = flash[a] \/ flash'[a] = Zero
      BY DEF Marks
    <3> QED
      BY <3>1, <3>2, <3>3
  <2>3. flash'[seg + 1] \in {flash[seg + 1], Zero}
    BY <1>1 DEF Marks
  <2>4. segment_is_empty(flash, seg) => \A a \in Addr : SegmentOf(a) = seg => flash'[a] = flash[a]
    BY DEF Marks
  <2>5. segment_is_empty(flash', seg) => segment_is_empty(flash, seg)
    BY DEF Marks
  <2> QED
    BY <2>1, <2>2, <2>3, <2>4, <2>5 DEF Keeps
<1> QED
  BY <1>2, <1>3 DEF EndInv

\* So does a step that leaves the segment as it is.
LEMMA SameKeeps ==
    ASSUME TypeOK, NEW seg \in Segment,
           \A a \in Addr : SegmentOf(a) = seg => flash'[a] = flash[a],
           \A b \in Addr : SegmentOf(b) = seg => (b \in whole' <=> b \in whole)
    PROVE  Keeps(seg)
<1>1. /\ seg + 1 \in Addr /\ seg + SegSize - 1 \in Addr
      /\ SegmentOf(seg + 1) = seg /\ SegmentOf(seg + SegSize - 1) = seg
      /\ \A k \in 0..(SegSize - 1) : seg + k \in Addr /\ SegmentOf(seg + k) = seg
  BY Segments DEF TypeOK
<1>2. segment_is_empty(flash', seg) => segment_is_empty(flash, seg)
  BY <1>1 DEF segment_is_empty
<1>3. marked(seg) => marked(seg)'
  BY <1>1 DEF marked, segment_marked_erase
<1> QED
  BY <1>1, <1>2, <1>3 DEF Keeps

\* The first segment is kept in order.
LEMMA FirstStays ==
    ASSUME TypeOK, FirstInv, Keeps(0), whole' \subseteq Addr
    PROVE  FirstInv'
<1>1. /\ StackSize # {} /\ FIRST_BUNDLE_SEG = 0 /\ SECOND_BUNDLE_SEG = SegSize /\ SegSize \in Nat /\ SegSize >= 3
      /\ 0 \in Addr /\ SegmentOf(0) = 0
  BY FlashIs, Segments DEF TypeOK
<1> SUFFICES ASSUME ~marked(0)'
             PROVE  LET h == flash'[0]
                    IN  /\ h \in {Blank} \cup Header
                        /\ h # Blank => \A a \in Size(h)..(0 + SegSize - 1) : flash'[a] = Blank
                        /\ h = Blank => \A b \in whole' : b >= SegSize
                        /\ 0 \notin whole' => \A a \in 0..(SegSize - 1) : flash'[a] # Magic
  BY <1>1 DEF FirstInv, BlankFrom
<1>2. ~marked(0)
  BY DEF Keeps
<1>3. \A a \in 0..(SegSize - 1) : a \in Addr /\ SegmentOf(a) = 0 /\ (a # 1 => flash'[a] = flash[a])
  <2>1. \A a \in 0..(SegSize - 1) : a \in Addr /\ SegmentOf(a) = 0
    BY <1>1, FlashIs DEF SegmentOf
  <2> QED
    BY <2>1 DEF Keeps
<1>4. flash'[0] = flash[0] /\ flash'[1] \in {flash[1], Zero}
  BY <1>1, <1>3 DEF Keeps
<1>5. flash'[0] \in {Blank} \cup Header
  BY <1>1, <1>2, <1>4 DEF FirstInv
<1>6. ASSUME flash'[0] # Blank PROVE \A a \in Size(flash'[0])..(0 + SegSize - 1) : flash'[a] = Blank
  <2>1. BlankFrom(Size(flash[0]), 0)
    BY <1>1, <1>2, <1>4, <1>6 DEF FirstInv
  <2>2. Size(flash[0]) \in Nat /\ Size(flash[0]) >= 3
    BY <1>1, SizeIs, FlashIs
  <2>3. \A b \in Size(flash[0])..(0 + SegSize - 1) : b \in 0..(SegSize - 1) /\ b # 1 /\ flash[b] = Blank
    BY <1>1, <2>1, <2>2 DEF BlankFrom
  <2>4. \A b \in Size(flash[0])..(0 + SegSize - 1) : flash'[b] = Blank
    BY <1>3, <2>3
  <2> QED
    BY <1>4, <2>4
<1>7. ASSUME flash'[0] = Blank, NEW b \in whole' PROVE b >= SegSize
  <2>1. b \in whole => b >= SegSize
    BY <1>1, <1>2, <1>4, <1>7 DEF FirstInv
  <2>2. b \in Addr
    OBVIOUS
  <2> QED
    BY <1>1, <2>1, <2>2, AddrIs DEF Keeps
<1>8. ASSUME 0 \notin whole', NEW a \in 0..(SegSize - 1) PROVE flash'[a] # Magic
  <2>1. 0 \notin whole
    BY <1>1, <1>8 DEF Keeps
  <2>2. flash[a] # Magic
    BY <1>1, <1>2, <2>1 DEF FirstInv
  <2>3. flash'[a] = flash[a] \/ flash'[a] = Zero
    BY <1>3, <1>4
  <2> QED
    BY <2>2, <2>3, Words
<1> QED
  BY <1>5, <1>6, <1>7, <1>8

\* So are the headers of the second.
LEMMA HeadersStay ==
    ASSUME TypeOK, SecondInv, Keeps(SegSize), ~marked(SegSize)'
    PROVE  /\ ~marked(SegSize) /\ flash'[SegSize] = flash[SegSize]
           /\ \A a \in SegSize..(SegSize + SegSize - 1) : a \in Addr /\ (a # SegSize + 1 => flash'[a] = flash[a])
           /\ flash[SegSize + 1] \notin Header /\ flash'[SegSize + 1] \notin Header
           /\ \A h : IsHeader(h)' <=> IsHeader(h)
           /\ \A h : IsHeader(h) => flash'[h] = flash[h] /\ h # SegSize + 1
           /\ IsBlank(SegSize) => IsBlank(SegSize)'
<1>1. /\ StackSize # {} /\ FIRST_BUNDLE_SEG = 0 /\ SECOND_BUNDLE_SEG = SegSize /\ SegSize \in Nat /\ SegSize >= 3
      /\ FlashEnd = SegSize + SegSize
  BY FlashIs DEF TypeOK
<1>2. ~marked(SegSize)
  BY DEF Keeps
<1>3. \A a \in SegSize..(SegSize + SegSize - 1) : a \in Addr /\ SegmentOf(a) = SegSize
  BY <1>1, FlashIs DEF SegmentOf
<1>4. \A a \in SegSize..(SegSize + SegSize - 1) : a # SegSize + 1 => flash'[a] = flash[a]
  BY <1>3 DEF Keeps
<1>5. flash[SegSize + 1] \notin Header /\ flash'[SegSize + 1] \notin Header
  BY <1>1, <1>2, Words DEF SecondInv, Keeps
<1>6. \A h : IsHeader(h)' <=> IsHeader(h)
  BY <1>1, <1>4, <1>5 DEF IsHeader
<1>7. \A h : IsHeader(h) => flash'[h] = flash[h] /\ h # SegSize + 1
  BY <1>1, <1>4, <1>5 DEF IsHeader
<1>8. flash'[SegSize] = flash[SegSize]
  BY <1>1, <1>4
<1>9. IsBlank(SegSize) => IsBlank(SegSize)'
  <2> SUFFICES ASSUME IsBlank(SegSize) PROVE IsBlank(SegSize)'
    OBVIOUS
  <2>1. \A a \in SegSize..(SegSize + SegSize - 1) : flash[a] = Blank
    BY DEF IsBlank, BlankFrom
  <2>2. segment_is_empty(flash, SegSize)
    BY <1>1, <2>1 DEF segment_is_empty
  <2>3. \A a \in SegSize..(SegSize + SegSize - 1) : flash'[a] = Blank
    BY <1>3, <2>1, <2>2 DEF Keeps
  <2> QED
    BY <2>3 DEF IsBlank, BlankFrom
<1> QED
  BY <1>2, <1>3, <1>4, <1>5, <1>6, <1>7, <1>8, <1>9

\* The second segment is kept in order.
LEMMA SecondStays ==
    ASSUME TypeOK, SecondInv, Keeps(SegSize), whole' \subseteq Addr
    PROVE  SecondInv'
<1>1. /\ StackSize # {} /\ FIRST_BUNDLE_SEG = 0 /\ SECOND_BUNDLE_SEG = SegSize /\ SegSize \in Nat /\ SegSize >= 3
      /\ FlashEnd = SegSize + SegSize
  BY FlashIs DEF TypeOK
<1> SUFFICES ASSUME ~marked(SegSize)'
             PROVE  /\ segment_is_empty(flash', SegSize) => IsBlank(SegSize)'
                    /\ flash'[SegSize] \in {Blank} \cup Header
                    /\ flash'[SegSize + 1] \notin Header
                    /\ \A b \in whole' : b >= SegSize => flash'[b] \in Header
                    /\ flash'[SegSize] # Blank =>
                         \A h \in SegSize..(FlashEnd - 1) : IsHeader(h)' =>
                           IF h \in whole' THEN Chained(h)' ELSE \A a \in h..(FlashEnd - 1) : flash'[a] # Magic
  BY <1>1 DEF SecondInv
<1>2. /\ ~marked(SegSize) /\ flash'[SegSize] = flash[SegSize]
      /\ \A a \in SegSize..(SegSize + SegSize - 1) : a \in Addr /\ (a # SegSize + 1 => flash'[a] = flash[a])
      /\ flash[SegSize + 1] \notin Header /\ flash'[SegSize + 1] \notin Header
      /\ \A h : IsHeader(h)' <=> IsHeader(h)
      /\ \A h : IsHeader(h) => flash'[h] = flash[h] /\ h # SegSize + 1
      /\ IsBlank(SegSize) => IsBlank(SegSize)'
  BY HeadersStay
<1>3. segment_is_empty(flash', SegSize) => IsBlank(SegSize)'
  BY <1>1, <1>2 DEF SecondInv, Keeps
<1>4. flash'[SegSize] \in {Blank} \cup Header
  BY <1>1, <1>2 DEF SecondInv
<1>5. \A b \in Addr : b >= SegSize => (b \in whole' <=> b \in whole)
  BY <1>1, AddrIs DEF Keeps
<1>6. ASSUME NEW b \in whole', b >= SegSize PROVE flash'[b] \in Header
  <2>1. b \in Addr /\ b \in whole /\ b \in SegSize..(SegSize + SegSize - 1)
    BY <1>1, <1>5, <1>6, AddrIs
  <2>2. flash[b] \in Header
    BY <1>1, <1>2, <1>6, <2>1 DEF SecondInv
  <2> QED
    BY <1>2, <2>1, <2>2
<1>7. ASSUME flash'[SegSize] # Blank, NEW h \in SegSize..(FlashEnd - 1), IsHeader(h)'
      PROVE  IF h \in whole' THEN Chained(h)' ELSE \A a \in h..(FlashEnd - 1) : flash'[a] # Magic
  <2>1. IsHeader(h) /\ flash'[h] = flash[h] /\ h \in Addr /\ (h \in whole' <=> h \in whole)
    BY <1>1, <1>2, <1>5, <1>7
  <2>2. IF h \in whole THEN Chained(h) ELSE \A a \in h..(FlashEnd - 1) : flash[a] # Magic
    BY <1>1, <1>2, <1>7, <2>1 DEF SecondInv
  <2>3. CASE h \in whole
    <3> DEFINE n == h + Size(flash[h])
    <3>1. Size(flash[h]) \in Nat /\ Size(flash[h]) >= 3
      BY <1>1, SizeIs, FlashIs
    <3>2. n \in Nat /\ n >= SegSize + 3
      BY <1>1, <1>7, <3>1
    <3>3. /\ n <= FlashEnd
          /\ n < FlashEnd => flash[n] \in Header \/ BlankFrom(n, SegSize)
          /\ \A g \in SegSize..(FlashEnd - 1) : g > h /\ IsHeader(g) => n <= g
      BY <1>1, <2>2, <2>3 DEF Chained
    <3> HIDE DEF n
    <3>4. n < FlashEnd => flash'[n] \in Header \/ \A b \in n..(SegSize + SegSize - 1) : flash'[b] = Blank
      <4> SUFFICES ASSUME n < FlashEnd
                   PROVE  flash'[n] \in Header \/ \A b \in n..(SegSize + SegSize - 1) : flash'[b] = Blank
        OBVIOUS
      <4>1. \A b \in n..(SegSize + SegSize - 1) : b \in SegSize..(SegSize + SegSize - 1) /\ b # SegSize + 1
        BY <1>1, <3>2
      <4>2. \A b \in n..(SegSize + SegSize - 1) : flash'[b] = flash[b]
        BY <1>2, <4>1
      <4>3. n \in n..(SegSize + SegSize - 1)
        BY <1>1, <3>2
      <4> QED
        BY <3>3, <4>2, <4>3 DEF BlankFrom
    <3>5. n = h + Size(flash'[h])
      BY <2>1 DEF n
    <3>6. Chained(h)'
      <4>1. \A g \in SegSize..(FlashEnd - 1) : g > h /\ IsHeader(g)' => n <= g
        BY <1>2, <3>3
      <4> QED
        BY <1>1, <3>3, <3>4, <3>5, <4>1 DEF Chained, BlankFrom
    <3> QED
      BY <2>1, <2>3, <3>6
  <2>4. CASE h \notin whole
    <3>1. ASSUME NEW a \in h..(FlashEnd - 1) PROVE flash'[a] # Magic
      <4>1. a \in SegSize..(SegSize + SegSize - 1)
        BY <1>1, <1>7
      <4>2. flash'[a] = flash[a] \/ flash'[a] = Zero
        BY <1>2, <4>1 DEF Keeps
      <4> QED
        BY <2>2, <2>4, <4>2, Words
    <3> QED
      BY <2>1, <2>4, <3>1
  <2> QED
    BY <2>3, <2>4
<1> QED
  BY <1>2, <1>3, <1>4, <1>6, <1>7

\* A segment that has been erased is in order.
LEMMA ErasedStays ==
    ASSUME TypeOK, NEW seg \in Segment, flash' = Erased(flash, seg), Forget(seg)
    PROVE  /\ seg = 0 => FirstInv'
           /\ seg = SegSize => SecondInv'
           /\ IsBlank(seg)' /\ ~marked(seg)' /\ flash'[seg] = Blank
           /\ Keeps(Other(seg))
           /\ EndInv => EndInv'
<1>1. /\ StackSize # {} /\ FIRST_BUNDLE_SEG = 0 /\ SECOND_BUNDLE_SEG = SegSize /\ SegSize \in Nat /\ SegSize >= 3
      /\ FlashEnd = SegSize + SegSize /\ whole \subseteq Addr
  BY FlashIs DEF TypeOK
<1>2. /\ \A a \in Addr : flash'[a] = IF SegmentOf(a) = seg THEN Blank ELSE flash[a]
      /\ ~marked(seg)'
      /\ \A a \in seg..(seg + SegSize - 1) : flash'[a] = Blank
  BY <1>1, ErasedIs DEF TypeOK, marked
<1>3. whole' = {b \in whole : SegmentOf(b) # seg}
  BY DEF Forget
<1>4. IsBlank(seg)' /\ flash'[seg] = Blank /\ flash'[seg + 1] = Blank /\ flash'[seg + SegSize - 1] = Blank
  BY <1>1, <1>2, Segments DEF IsBlank, BlankFrom
<1>5. Keeps(Other(seg))
  <2>1. Other(seg) \in Segment /\ Other(seg) # seg
    BY <1>1, FlashIs
  <2>2. \A a \in Addr : SegmentOf(a) = Other(seg) => flash'[a] = flash[a]
    BY <1>2, <2>1
  <2>3. \A b \in Addr : SegmentOf(b) = Other(seg) => (b \in whole' <=> b \in whole)
    BY <1>3, <2>1
  <2> QED
    BY <2>1, <2>2, <2>3, SameKeeps
<1>6. ASSUME seg = 0 PROVE FirstInv'
  <2>1. \A b \in whole' : b >= SegSize
    BY <1>1, <1>3, <1>6, AddrIs
  <2>2. \A a \in 0..(SegSize - 1) : flash'[a] = Blank
    BY <1>1, <1>2, <1>6
  <2> QED
    BY <1>1, <1>4, <1>6, <2>1, <2>2, Words DEF FirstInv
<1>7. ASSUME seg = SegSize PROVE SecondInv'
  <2>1. \A b \in whole' : ~(b >= SegSize)
    BY <1>1, <1>3, <1>7, AddrIs
  <2> QED
    BY <1>1, <1>4, <1>7, <2>1, Words DEF SecondInv
<1>8. ASSUME EndInv PROVE EndInv'
  <2>1. \A s \in Segment : s # seg => flash'[s + SegSize - 1] = flash[s + SegSize - 1] /\ flash'[s + 1] = flash[s + 1]
    BY <1>1, <1>2, Segments
  <2> QED
    BY <1>4, <1>8, <2>1, Words DEF EndInv
<1> QED
  BY <1>2, <1>4, <1>5, <1>6, <1>7, <1>8

\* In a second segment that is not marked, the walk finds bundles that are
\* whole, and stops at any other.
LEMMA SecondWalk ==
    ASSUME TypeOK, SecondInv, ~marked(SegSize), flash[SegSize] # Blank
    PROVE  \A b \in SegSize..(SegSize + SegSize - 1) : IsHeader(b) =>
              /\ Walks(flash, SegSize)[b].candidate \in whole \cup {NoBundle}
              /\ \A g : IsHeader(g) /\ g >= b /\ g \notin whole => Walks(flash, SegSize)[b].abortive
<1>1. /\ StackSize # {} /\ FIRST_BUNDLE_SEG = 0 /\ SECOND_BUNDLE_SEG = SegSize /\ SegSize \in Nat /\ SegSize >= 3
      /\ FlashEnd = SegSize + SegSize /\ Addr = 0..(FlashEnd - 1) /\ SegSize \in Segment
  BY FlashIs DEF TypeOK
<1> DEFINE end == SegSize + SegSize - 1
           W == Walks(flash, SegSize)
           P == {b \in SegSize..end : IsHeader(b) =>
                    /\ W[b].candidate \in whole \cup {NoBundle}
                    /\ \A g : IsHeader(g) /\ g >= b /\ g \notin whole => W[b].abortive}
<1>2. ASSUME NEW b \in SegSize..end, \A c \in (b + 1)..end : c \in P PROVE b \in P
  <2> SUFFICES ASSUME IsHeader(b)
               PROVE  /\ W[b].candidate \in whole \cup {NoBundle}
                      /\ \A g : IsHeader(g) /\ g >= b /\ g \notin whole => W[b].abortive
    OBVIOUS
  <2> DEFINE next == b + Size(flash[b])
  <2>1. next \in Nat /\ next > b /\ flash[b] # Blank /\ flash[b] \in Header
    BY <1>1, WalkSteps, Words DEF IsHeader
  <2>2. IF b \in whole THEN Chained(b) ELSE \A a \in b..(FlashEnd - 1) : flash[a] # Magic
    BY <1>1 DEF SecondInv
  <2>3. CASE ~IsValid(flash, b)
    BY <1>1, <2>1, <2>3, WalkSteps
  <2>4. CASE IsValid(flash, b)
    <3>1. b \in whole
      <4> SUFFICES ASSUME b \notin whole PROVE FALSE
        OBVIOUS
      <4>1. next - 1 \in Addr /\ flash[next - 1] = Magic
        <5>1. Memref(flash, b + Size(flash[b]) - 1) = Magic
          BY <2>4 DEF IsValid
        <5>2. \A a : Memref(flash, a) = Magic => a \in Addr /\ flash[a] = Magic
          BY Words DEF Memref
        <5>3. next - 1 = b + Size(flash[b]) - 1
          BY <1>1, SizeIs
        <5> HIDE DEF next
        <5> QED
          BY <5>1, <5>2, <5>3
      <4>2. next - 1 \in b..(FlashEnd - 1)
        <5> HIDE DEF next
        <5> QED
          BY <1>1, <2>1, <4>1
      <4> QED
        BY <2>2, <4>1, <4>2
    <3>2. /\ next < FlashEnd => flash[next] \in Header \/ BlankFrom(next, SegSize)
          /\ \A g : g > b /\ IsHeader(g) => next <= g
      BY <1>1, <2>2, <3>1 DEF Chained, IsHeader
    <3>3. \A g : IsHeader(g) => g \in SegSize..end
      BY <1>1 DEF IsHeader
    <3>4. CASE next >= SegSize + SegSize
      <4>1. W[b].candidate = b
        BY <1>1, <2>1, <2>4, <3>4, WalkSteps
      <4>2. ASSUME NEW g, IsHeader(g), g >= b, g \notin whole PROVE FALSE
        <5>1. g > b /\ g < SegSize + SegSize /\ g \in Nat
          BY <1>1, <3>1, <3>3, <4>2
        <5>2. next <= g
          BY <3>2, <4>2, <5>1
        <5> HIDE DEF next
        <5> QED
          BY <1>1, <2>1, <3>4, <5>1, <5>2
      <4> QED
        BY <3>1, <4>1, <4>2
    <3>5. CASE next < SegSize + SegSize
      <4>1. /\ next \in (b + 1)..end /\ W[b].abortive = W[next].abortive
            /\ W[b].candidate = IF W[next].candidate = NoBundle THEN b ELSE W[next].candidate
        BY <1>1, <2>1, <2>4, <3>5, WalkSteps
      <4>2. \A g : IsHeader(g) /\ g >= b /\ g \notin whole => g >= next /\ g \in SegSize..end
        BY <1>1, <3>1, <3>2, <3>3
      <4>3. next \in SegSize..end
        BY <1>1, <4>1
      <4>4. CASE flash[next] \in Header
        <5>1. IsHeader(next)
          BY <1>1, <4>3, <4>4 DEF IsHeader
        <5>2. next \in P
          BY <1>2, <4>1
        <5>3. /\ W[next].candidate \in whole \cup {NoBundle}
              /\ \A g : IsHeader(g) /\ g >= next /\ g \notin whole => W[next].abortive
          BY <5>1, <5>2
        <5> HIDE DEF next, W
        <5> QED
          BY <3>1, <4>1, <4>2, <5>3
      <4>5. CASE flash[next] \notin Header
        <5>1. BlankFrom(next, SegSize)
          BY <1>1, <3>2, <3>5, <4>5
        <5>2. \A g \in next..end : flash[g] = Blank
          BY <5>1 DEF BlankFrom
        <5>3. W[next].candidate = NoBundle
          BY <1>1, <4>3, <5>2, WalkSteps
        <5>4. \A g : IsHeader(g) /\ g >= b /\ g \notin whole => FALSE
          BY <4>2, <4>3, <5>2, Words DEF IsHeader
        <5> QED
          BY <3>1, <4>1, <5>3, <5>4
      <4> QED
        BY <4>4, <4>5
    <3> QED
      BY <1>1, <2>1, <3>4, <3>5
  <2> QED
    BY <2>3, <2>4
<1>3. \A b \in SegSize..end : b \in P
  <2>1. end \in Nat
    BY <1>1
  <2> HIDE DEF P, end
  <2> QED
    BY <1>1, <1>2, <2>1, DownInduction
<1> QED
  BY <1>3

\* What is found in the second segment.
LEMMA FoundSecond ==
    ASSUME TypeOK, SecondInv, ~marked(SegSize), Pri(flash) = SegSize
    PROVE  /\ find_active_bundle(flash).ret \in whole \cup {NoBundle}
           /\ \A g : IsHeader(g) /\ g \notin whole /\ flash[SegSize] # Blank =>
                segment_marked_erase(Cleared(flash, find_active_bundle(flash).zeros), SegSize)
<1>1. /\ StackSize # {} /\ SECOND_BUNDLE_SEG = SegSize /\ SegSize \in Nat /\ SegSize >= 3
      /\ FlashEnd = SegSize + SegSize /\ SegSize \in Segment /\ flash \in [Addr -> Word]
      /\ SegSize \in SegSize..(SegSize + SegSize - 1)
  BY FlashIs DEF TypeOK
<1>2. /\ find_active_bundle(flash).ret = Walks(flash, SegSize)[SegSize].candidate
      /\ Walks(flash, SegSize)[SegSize].abortive =>
           segment_marked_erase(Cleared(flash, find_active_bundle(flash).zeros), SegSize)
  BY <1>1, FindIs
<1>3. CASE flash[SegSize] = Blank
  BY <1>1, <1>2, <1>3, WalkSteps
<1>4. CASE flash[SegSize] # Blank
  <2>1. IsHeader(SegSize)
    BY <1>1, <1>4 DEF SecondInv, IsHeader
  <2>2. \A g : IsHeader(g) => g >= SegSize
    BY <1>1 DEF IsHeader
  <2> QED
    BY <1>1, <1>2, <1>4, <2>1, <2>2, SecondWalk
<1> QED
  BY <1>3, <1>4

\* What is found in the first.
LEMMA FoundFirst ==
    ASSUME TypeOK, RoomInv, FirstInv, TornFits, Pri(flash) = 0
    PROVE  /\ ~marked(0) /\ flash[0] \in Header /\ Size(flash[0]) <= SegSize
           /\ find_active_bundle(flash).ret # NoBundle => find_active_bundle(flash).ret = 0 /\ 0 \in whole
           /\ find_active_bundle(flash).ret = NoBundle =>
                segment_marked_erase(Cleared(flash, find_active_bundle(flash).zeros), 0)
<1>1. /\ StackSize # {} /\ FIRST_BUNDLE_SEG = 0 /\ SECOND_BUNDLE_SEG = SegSize /\ SegSize \in Nat /\ SegSize >= 3
      /\ FlashEnd = SegSize + SegSize /\ 0 \in Segment /\ flash \in [Addr -> Word] /\ Addr = 0..(FlashEnd - 1)
      /\ 0 \in 0..(0 + SegSize - 1)
  BY FlashIs DEF TypeOK
<1>2. ~marked(0) /\ ~segment_is_empty(flash, 0)
  BY <1>1 DEF Pri, marked
<1>3. flash[0] \in Header /\ flash[0] # Blank /\ BlankFrom(Size(flash[0]), 0)
  <2>1. flash[0] # Blank
    BY <1>1, <1>2, NoFirst
  <2> QED
    BY <1>1, <1>2, <2>1 DEF FirstInv
<1>4. Size(flash[0]) \in Nat /\ Size(flash[0]) >= 3 /\ Size(flash[0]) <= SegSize
  <2>1. /\ Size(flash[0]) \in Nat /\ Size(flash[0]) >= Registers + 2 /\ Registers >= 1 /\ Registers \in Nat
        /\ flash[0][1] \in StackSize /\ flash[0][2] \in {GlobalSize, TornSize}
        /\ Size(flash[0]) = Registers + flash[0][1] + flash[0][2] + 2
    BY <1>1, <1>3, SizeIs, FlashIs
  <2>2. Size(flash[0]) <= SegSize
    BY <2>1, SizesAssumption DEF TornFits
  <2> QED
    BY <2>1, <2>2
<1> DEFINE W == Walks(flash, 0)
           next == 0 + Size(flash[0])
<1>5. /\ find_active_bundle(flash).ret = W[0].candidate
      /\ W[0].abortive => segment_marked_erase(Cleared(flash, find_active_bundle(flash).zeros), 0)
      /\ W[0].candidate = NoBundle => W[0].abortive
  BY <1>1, <1>3, FindIs DEF WalkFound
<1>6. ASSUME W[0].candidate # NoBundle PROVE W[0].candidate = 0 /\ 0 \in whole
  <2>1. IsValid(flash, 0)
    BY <1>1, <1>3, <1>6, WalkSteps
  <2>2. W[0].candidate = 0
    <3>1. CASE next >= 0 + SegSize
      BY <1>1, <1>3, <2>1, <3>1, WalkSteps
    <3>2. CASE next < 0 + SegSize
      <4>1. W[0].candidate = IF W[next].candidate = NoBundle THEN 0 ELSE W[next].candidate
        BY <1>1, <1>3, <2>1, <3>2, WalkSteps
      <4>2. next \in 0..(0 + SegSize - 1) /\ next \in Size(flash[0])..(0 + SegSize - 1)
        BY <1>1, <1>4, <3>2
      <4>3. flash[next] = Blank
        BY <1>3, <4>2 DEF BlankFrom
      <4>4. W[next].candidate = NoBundle
        BY <1>1, <4>2, <4>3, WalkSteps
      <4> QED
        BY <4>1, <4>4
    <3> QED
      BY <1>1, <1>4, <3>1, <3>2
  <2>3. 0 \in whole
    <3>1. flash[Size(flash[0]) - 1] = Magic
      BY <1>4, <2>1, Words DEF IsValid, Memref
    <3>2. Size(flash[0]) - 1 \in 0..(SegSize - 1)
      BY <1>1, <1>4
    <3> QED
      BY <1>1, <1>2, <3>1, <3>2 DEF FirstInv
  <2> QED
    BY <2>2, <2>3
<1> QED
  BY <1>2, <1>3, <1>4, <1>5, <1>6

\* One or the other is searched.
LEMMA PriIs ==
    ASSUME TypeOK, RoomInv
    PROVE  /\ Pri(flash) = 0 \/ Pri(flash) = SegSize
           /\ Pri(flash) = 0 => ~marked(0)
           /\ Pri(flash) = SegSize => marked(0) \/ IsBlank(0)
<1>1. StackSize # {} /\ FIRST_BUNDLE_SEG = 0 /\ SECOND_BUNDLE_SEG = SegSize /\ 0 \in Segment /\ 0 # SegSize
  BY FlashIs DEF TypeOK
<1>2. segment_is_empty(flash, 0) => IsBlank(0)
  BY <1>1, InUse DEF RoomInv
<1> QED
  BY <1>1, <1>2 DEF Pri, marked

\* No bundle is cut short by a step that keeps the second segment.
LEMMA CutStays ==
    ASSUME TypeOK, SecondInv, Keeps(SegSize), ~marked(SegSize)', NoneCut,
           mode = "write" => baseaddr \in Nat /\ baseaddr < SegSize
    PROVE  NoneCut'
<1>1. /\ StackSize # {} /\ SECOND_BUNDLE_SEG = SegSize /\ SegSize \in Nat /\ FlashEnd = SegSize + SegSize
  BY FlashIs DEF TypeOK
<1>2. \A h : IsHeader(h)' <=> IsHeader(h)
  BY HeadersStay
<1> SUFFICES ASSUME NEW h \in SECOND_BUNDLE_SEG..(FlashEnd - 1), IsHeader(h)' PROVE h \in whole'
  BY DEF NoneCut
<1>3. h \in whole
  BY <1>1, <1>2 DEF NoneCut
<1>4. h \in Addr /\ SegmentOf(h) = SegSize
  BY <1>1, FlashIs DEF SegmentOf
<1> QED
  BY <1>3, <1>4 DEF Keeps

\* The words that a search clears, all or some of them, leave the segments in
\* order.
LEMMA SearchKeeps ==
    ASSUME TypeOK, EndInv, FirstInv, SecondInv, Marks(flash, flash'), whole' = whole
    PROVE  EndInv' /\ Keeps(0) /\ Keeps(SegSize) /\ FirstInv' /\ SecondInv' /\ flash'[0] = flash[0]
<1>1. StackSize # {} /\ 0 \in Segment /\ SegSize \in Segment /\ whole' \subseteq Addr
  BY FlashIs DEF TypeOK
<1>2. EndInv' /\ Keeps(0) /\ Keeps(SegSize)
  BY <1>1, MarksKeep
<1> QED
  BY <1>1, <1>2, FirstStays, SecondStays DEF Marks

\* The search at boot finds a bundle that is whole.
LEMMA WholeFind == TornFits /\ RoomIInv /\ WholeInv /\ Find => WholeInv'
<1> SUFFICES ASSUME TornFits, RoomIInv, WholeInv, Find PROVE WholeInv'
  OBVIOUS
<1>1. /\ StackSize # {} /\ FIRST_BUNDLE_SEG = 0 /\ SECOND_BUNDLE_SEG = SegSize /\ flash \in [Addr -> Word]
      /\ TypeOK /\ RoomInv /\ MarkInv /\ EndInv /\ FirstInv /\ SecondInv /\ CutInv
  BY FlashIs DEF RoomIInv, TypeOK, WholeInv, MarkInv
<1>2. /\ flash' = Cleared(flash, find_active_bundle(flash).zeros) /\ baseaddr' = find_active_bundle(flash).ret
      /\ mode = "find" /\ whole' = whole /\ mode' = IF baseaddr' = NoBundle THEN "run" ELSE "restore"
  BY DEF Find
<1>3. EndInv' /\ Keeps(0) /\ Keeps(SegSize) /\ FirstInv' /\ SecondInv' /\ flash'[0] = flash[0]
  BY <1>1, <1>2, FindIs, SearchKeeps
<1>4. ~marked(0) /\ ~marked(SegSize)
  BY <1>1, <1>2 DEF CutInv
<1>5. Pri(flash) = 0 \/ (Pri(flash) = SegSize /\ IsBlank(0))
  BY <1>1, <1>4, PriIs
<1>6. CutInv'
  <2> SUFFICES ASSUME ~marked(SegSize)', flash'[SegSize] # Blank PROVE NoneCut'
    BY <1>1, <1>2 DEF CutInv
  <2>1. flash[SegSize] # Blank
    BY <1>1, <1>3, HeadersStay
  <2>2. NoneCut
    <3> SUFFICES ASSUME ~NoneCut PROVE FALSE
      OBVIOUS
    <3>1. PICK g : IsHeader(g) /\ g \notin whole
      BY DEF NoneCut
    <3>2. IsBlank(0)
      BY <1>1, <1>4, <2>1 DEF CutInv
    <3>3. flash[0] = Blank
      BY <1>1, <3>2, Segments DEF IsBlank, BlankFrom, Segment
    <3>4. Pri(flash) = SegSize
      BY <1>1, <3>3, NoFirst
    <3>5. segment_marked_erase(flash', SegSize)
      BY <1>1, <1>2, <1>4, <2>1, <3>1, <3>4, FoundSecond
    <3> QED
      BY <3>5 DEF marked
  <2> QED
    BY <1>1, <1>2, <1>3, <2>2, CutStays
<1>7. SupersedeInv'
  <2> SUFFICES ASSUME mode' = "run", ~marked(0)', flash'[0] # Blank PROVE FALSE
    BY <1>1 DEF SupersedeInv
  <2>1. Pri(flash) = 0
    <3>1. ~IsBlank(0)
      BY <1>1, <1>3, Segments DEF IsBlank, BlankFrom, Segment
    <3> QED
      BY <1>5, <3>1
  <2>2. baseaddr' = NoBundle
    BY <1>2
  <2>3. segment_marked_erase(flash', 0)
    BY <1>1, <1>2, <2>1, <2>2, FoundFirst
  <2> QED
    BY <2>3 DEF marked
<1>8. FoundIsWhole'
  <2> SUFFICES ASSUME mode' = "restore" PROVE baseaddr' \in whole
    BY <1>2 DEF FoundIsWhole
  <2>1. baseaddr' # NoBundle
    BY <1>2
  <2> QED
    BY <1>1, <1>2, <1>4, <1>5, <2>1, FoundFirst, FoundSecond
<1>9. MarkInv' /\ WriteInv'
  BY <1>2, <1>3 DEF MarkInv, WriteInv
<1> QED
  BY <1>3, <1>6, <1>7, <1>8, <1>9 DEF WholeInv

\* Marking the segment that is superseded.
LEMMA WholeSuperseded == RoomIInv /\ WholeInv /\ MarkSuperseded => WholeInv'
<1> SUFFICES ASSUME RoomIInv, WholeInv, MarkSuperseded PROVE WholeInv'
  OBVIOUS
<1>1. /\ StackSize # {} /\ FIRST_BUNDLE_SEG = 0 /\ SECOND_BUNDLE_SEG = SegSize /\ flash \in [Addr -> Word]
      /\ TypeOK /\ RoomInv /\ MarkInv /\ EndInv /\ FirstInv /\ SecondInv /\ CutInv /\ whole \subseteq Addr
      /\ 0 \in Segment /\ SegSize \in Segment
  BY FlashIs DEF RoomIInv, TypeOK, WholeInv, MarkInv
<1> DEFINE seg == Other(baseaddr)
           a0 == IF cursor = 0 THEN seg + 1 ELSE seg + SegSize - 1
<1>2. /\ baseaddr \in Segment /\ seg \in Segment /\ cursor \in 0..1
      /\ flash' \in [Addr -> Word] /\ \A a \in Addr : flash'[a] = IF a = a0 THEN Zero ELSE flash[a]
  BY <1>1, SupersedeMarks
<1>3. /\ mode = "supersede" /\ mode' = IF cursor = 1 THEN "run" ELSE mode
      /\ cursor' = (cursor + 1) % 2 /\ baseaddr' = baseaddr /\ stack' = stack /\ newest' = newest /\ whole' = whole
  BY DEF MarkSuperseded
<1>4. /\ seg + 1 \in Addr /\ seg + SegSize - 1 \in Addr /\ SegmentOf(seg + 1) = seg /\ SegmentOf(seg + SegSize - 1) = seg
      /\ seg + 1 # seg + SegSize - 1 /\ Other(seg) \in Segment /\ Other(seg) = baseaddr
      /\ \A t \in Segment : t = seg \/ t = baseaddr
  BY <1>1, <1>2, Segments
<1>5. /\ ~segment_is_empty(flash, seg)
      /\ cursor = 1 => flash[seg + 1] = Zero
  BY <1>1, <1>3 DEF MarkInv
<1>6. /\ (cursor = 0 /\ cursor' = 1 /\ mode' = "supersede" /\ a0 = seg + 1)
         \/ (cursor = 1 /\ cursor' = 0 /\ mode' = "run" /\ a0 = seg + SegSize - 1)
  BY <1>2, <1>3
<1>7. flash'[seg + 1] = Zero /\ (cursor = 1 => marked(seg)')
  <2>1. flash'[seg + 1] = Zero
    BY <1>2, <1>4, <1>5, <1>6
  <2>2. cursor = 1 => flash'[seg + SegSize - 1] = Zero
    BY <1>2, <1>4, <1>6
  <2>3. (segment_marked_erase(flash, seg))' = (flash'[seg' + 1] = Zero /\ flash'[seg' + SegSize - 1] = Zero)
    BY DEF segment_marked_erase
  <2>4. seg' = seg
    BY <1>3 DEF Other
  <2> QED
    BY <2>1, <2>2, <2>3, <2>4 DEF marked
<1>8. Keeps(baseaddr)
  <2>1. \A a \in Addr : SegmentOf(a) = baseaddr => flash'[a] = flash[a]
    <3>1. SegmentOf(a0) # baseaddr
      BY <1>1, <1>2, <1>4, FlashIs DEF a0
    <3> QED
      BY <1>2, <3>1
  <2> QED
    BY <1>1, <1>2, <1>3, <2>1, SameKeeps
<1>9. ~segment_is_empty(flash', seg)
  <2>1. PICK k \in 0..(SegSize - 1) : k % STRIDE = 0 /\ flash[seg + k] # Blank
    BY <1>5 DEF segment_is_empty
  <2>2. seg + k \in Addr
    BY <1>1, <1>2, Segments
  <2>3. flash'[seg + k] # Blank
    BY <1>2, <2>1, <2>2, Words
  <2> QED
    BY <2>1, <2>3 DEF segment_is_empty
<1> HIDE DEF seg, a0
\* What is primed is the marked segment of the state after the step.
<1>10. marked(seg) => (cursor = 1 => marked(seg)')
  BY <1>7
<1>11. ASSUME NEW t \in Segment, t = seg PROVE Keeps(t)
  <2>1. cursor = 0 => flash'[t + SegSize - 1] = flash[t + SegSize - 1]
    BY <1>2, <1>4, <1>6, <1>11
  <2>2. flash'[t + 1] = Zero
    BY <1>7, <1>11
  <2>3. cursor = 1 => flash'[t + SegSize - 1] = Zero
    BY <1>2, <1>4, <1>6, <1>11
  <2>4. marked(t) => marked(t)'
    BY <1>6, <2>1, <2>2, <2>3 DEF marked, segment_marked_erase
  <2>5. ~marked(t)' => cursor = 0
    BY <1>6, <2>2, <2>3 DEF marked, segment_marked_erase
  <2>6. cursor = 0 => \A a \in Addr : a # t + 1 => flash'[a] = flash[a]
    BY <1>2, <1>6, <1>11
  <2> QED
    BY <1>3, <1>5, <1>9, <1>11, <2>2, <2>4, <2>5, <2>6 DEF Keeps
<1>12. Keeps(0) /\ Keeps(SegSize)
  BY <1>1, <1>4, <1>8, <1>11
<1>13. FirstInv' /\ SecondInv'
  BY <1>1, <1>3, <1>12, FirstStays, SecondStays
<1>14. MarkInv'
  <2>1. \A t \in Segment : flash'[t + SegSize - 1] = Zero => flash'[t + 1] = Zero
    <3>1. flash'[seg + 1] = Zero
      BY <1>7
    <3>2. baseaddr + 1 \in Addr /\ baseaddr + SegSize - 1 \in Addr /\ SegmentOf(baseaddr + 1) = baseaddr
          /\ SegmentOf(baseaddr + SegSize - 1) = baseaddr
      BY <1>1, <1>2, Segments
    <3>3. flash'[baseaddr + 1] = flash[baseaddr + 1] /\ flash'[baseaddr + SegSize - 1] = flash[baseaddr + SegSize - 1]
      <4>1. a0 # baseaddr + 1 /\ a0 # baseaddr + SegSize - 1
        BY <1>1, <1>2, <1>4, <1>6, <3>2, FlashIs
      <4> QED
        BY <1>2, <3>2, <4>1
    <3> QED
      BY <1>1, <1>2, <1>4, <3>1, <3>3 DEF EndInv
  <2>2. EndInv'
    BY <2>1 DEF EndInv, Segment, FIRST_BUNDLE_SEG, SECOND_BUNDLE_SEG
  <2>3. Other(baseaddr') = seg
    BY <1>3 DEF seg
  <2>4. mode' = "supersede" => ~segment_is_empty(flash', Other(baseaddr')) /\ (cursor' = 1 => flash'[Other(baseaddr') + 1] = Zero)
    BY <1>7, <1>9, <2>3
  <2> QED
    BY <2>2, <2>4 DEF MarkInv
<1>15. CutInv'
  <2> SUFFICES ASSUME ~marked(SegSize)', flash'[SegSize] # Blank PROVE NoneCut'
    BY <1>1, <1>6 DEF CutInv
  <2>1. flash[SegSize] # Blank /\ ~marked(SegSize)
    BY <1>1, <1>12, HeadersStay
  <2>2. NoneCut
    BY <1>1, <1>3, <2>1 DEF CutInv, Running
  <2> QED
    BY <1>1, <1>3, <1>12, <2>2, CutStays
<1>16. SupersedeInv'
  <2> SUFFICES ASSUME mode' = "run", ~marked(0)', flash'[0] # Blank PROVE marked(SegSize)'
    BY <1>1 DEF SupersedeInv
  <2>1. cursor = 1
    BY <1>6
  <2>2. seg # 0 => seg = SegSize
    BY <1>2, FlashIs, <1>1
  <2>3. flash'[seg + 1] = Zero /\ flash'[seg + SegSize - 1] = Zero
    BY <1>2, <1>4, <1>6, <1>7, <2>1
  <2>4. seg # 0
    BY <2>3 DEF marked, segment_marked_erase
  <2> QED
    BY <2>2, <2>3, <2>4 DEF marked, segment_marked_erase
<1>17. WriteInv' /\ FoundIsWhole'
  BY <1>6 DEF WriteInv, FoundIsWhole
<1> QED
  BY <1>13, <1>14, <1>15, <1>16, <1>17 DEF WholeInv

\* What the steps that follow assume.
WholeIInv == RoomIInv /\ WholeInv

\* It names the parts of the invariant, and what the constants are.
LEMMA WholeFacts ==
    ASSUME WholeIInv
    PROVE  /\ StackSize # {} /\ FIRST_BUNDLE_SEG = 0 /\ SECOND_BUNDLE_SEG = SegSize /\ SegSize \in Nat /\ SegSize >= 3 /\ 0 # SegSize
           /\ flash \in [Addr -> Word] /\ whole \subseteq Addr /\ 0 \in Segment /\ SegSize \in Segment
           /\ Other(0) = SegSize /\ Other(SegSize) = 0 /\ Segment = {0, SegSize}
           /\ TypeOK /\ RoomInv /\ MarkInv /\ EndInv /\ FirstInv /\ SecondInv /\ WriteInv /\ CutInv /\ SupersedeInv /\ FoundIsWhole
BY FlashIs DEF WholeIInv, RoomIInv, TypeOK, WholeInv, MarkInv

\* Room is made for the bundle of a checkpoint.
LEMMA WholeRoom ==
    ASSUME WholeIInv, NEW seg \in Segment, MakeRoom(seg)
    PROVE  WholeInv'
<1>1. /\ StackSize # {} /\ FIRST_BUNDLE_SEG = 0 /\ SECOND_BUNDLE_SEG = SegSize /\ SegSize \in Nat /\ 0 # SegSize
      /\ 0 \in Segment /\ SegSize \in Segment /\ Other(0) = SegSize /\ whole \subseteq Addr
      /\ TypeOK /\ RoomInv /\ EndInv /\ FirstInv /\ SecondInv /\ CutInv
  BY WholeFacts
<1>2. seg = 0 /\ cursor = 0 /\ mode = "makeRoom"
  BY <1>1, Segments DEF RoomInv, marked, MakeRoom
<1>3. /\ flash' = Erased(flash, 0) /\ baseaddr' = 0 /\ mode' = "write" /\ stack' = stack /\ cursor' = 0
      /\ Forget(0) /\ whole' = {b \in whole : SegmentOf(b) # 0}
  BY <1>2 DEF MakeRoom, Forget
<1>4. FirstInv' /\ IsBlank(0)' /\ Keeps(SegSize) /\ EndInv'
  BY <1>1, <1>3, ErasedStays
<1>5. SecondInv'
  BY <1>1, <1>3, <1>4, SecondStays
<1>6. WriteInv'
  <2>1. SegmentOf(0) = 0 /\ SegmentOf(baseaddr') = 0
    BY <1>1, <1>3, Segments
  <2>2. 0 \notin whole'
    BY <1>3, <2>1
  <2>3. \A b \in 0..(0 + SegSize - 1) : flash'[b] = Blank
    BY <1>4 DEF IsBlank, BlankFrom
  <2>4. Underway(0)'
    BY <1>1, <1>3, <2>2, <2>3 DEF Underway, BlankFrom
  <2>5. (SegmentOf(baseaddr))' = 0
    BY <1>1, <1>3 DEF SegmentOf
  <2> QED
    BY <1>1, <2>4, <2>5 DEF WriteInv
<1>7. CutInv'
  <2> SUFFICES ASSUME ~marked(SegSize)', flash'[SegSize] # Blank PROVE NoneCut'
    BY <1>1, <1>3 DEF CutInv
  <2>1. ~marked(SegSize) /\ flash[SegSize] # Blank
    BY <1>1, <1>4, HeadersStay
  <2> QED
    BY <1>1, <1>2, <1>4, <2>1, CutStays DEF CutInv, Running
<1>8. MarkInv' /\ SupersedeInv' /\ FoundIsWhole'
  BY <1>3, <1>4 DEF MarkInv, SupersedeInv, FoundIsWhole
<1> QED
  BY <1>4, <1>5, <1>6, <1>7, <1>8 DEF WholeInv

\* The clean-up at boot erases what is marked.
LEMMA WholeCleanup ==
    ASSUME WholeIInv, CleanFirst \/ CleanSecond
    PROVE  WholeInv'
<1>1. /\ StackSize # {} /\ FIRST_BUNDLE_SEG = 0 /\ SECOND_BUNDLE_SEG = SegSize /\ SegSize \in Nat /\ 0 # SegSize
      /\ 0 \in Segment /\ SegSize \in Segment /\ Other(0) = SegSize /\ Other(SegSize) = 0 /\ whole \subseteq Addr /\ Segment = {0, SegSize}
      /\ TypeOK /\ RoomInv /\ EndInv /\ FirstInv /\ SecondInv /\ CutInv
  BY WholeFacts
<1>2. PICK seg \in Segment : /\ (seg = 0 /\ mode = "off" /\ mode' = "cleanSecond") \/ (seg = SegSize /\ mode = "cleanSecond" /\ mode' = "find")
                             /\ Cleanup(seg, mode, mode')
  <2>1. CASE CleanFirst
    <3>1. Cleanup(0, mode, mode') /\ mode = "off" /\ mode' = "cleanSecond"
      BY <1>1, <2>1 DEF CleanFirst, Cleanup
    <3> QED
      BY <1>1, <3>1
  <2>2. CASE CleanSecond
    <3>1. Cleanup(SegSize, mode, mode') /\ mode = "cleanSecond" /\ mode' = "find"
      BY <1>1, <2>2 DEF CleanSecond, Cleanup
    <3> QED
      BY <1>1, <3>1
  <2> QED
    BY <2>1, <2>2
<1>3. /\ baseaddr' = baseaddr /\ stack' = stack /\ cursor' = cursor
      /\ (marked(seg) /\ flash' = Erased(flash, seg) /\ Forget(seg)) \/ (~marked(seg) /\ flash' = flash /\ whole' = whole)
  BY <1>2 DEF Cleanup, marked
<1>4. ~marked(seg)' /\ EndInv'
  <2>1. CASE flash' = flash
    BY <1>1, <1>3, <2>1, ErasedStays DEF marked, segment_marked_erase, EndInv
  <2> QED
    BY <1>1, <1>3, <2>1, ErasedStays
<1>5. Keeps(Other(seg)) /\ Other(seg) \in Segment /\ Other(seg) # seg
  <2>1. Other(seg) \in Segment /\ Other(seg) # seg
    BY <1>1
  <2>2. CASE flash' = flash /\ whole' = whole
    BY <1>1, <2>1, <2>2, SameKeeps
  <2> QED
    BY <1>1, <1>3, <2>1, <2>2, ErasedStays
<1>6. \A t \in Segment : Keeps(t) \/ (t = seg /\ flash' = Erased(flash, seg) /\ Forget(seg))
  <2>1. CASE flash' = flash /\ whole' = whole
    BY <1>1, <2>1, SameKeeps
  <2> QED
    BY <1>1, <1>3, <1>5, <2>1
<1>7. whole' \subseteq Addr
  BY <1>1, <1>3 DEF Forget
<1>8. FirstInv'
  BY <1>1, <1>6, <1>7, FirstStays, ErasedStays
<1>9. SecondInv'
  BY <1>1, <1>6, <1>7, SecondStays, ErasedStays
<1>10. CutInv'
  <2>1. mode' \in {"cleanSecond", "find"} => ~marked(0)'
    <3>1. CASE seg = 0
      BY <1>4, <3>1
    <3>2. CASE seg = SegSize
      <4>1. ~marked(0)
        BY <1>1, <1>2, <3>2 DEF CutInv
      <4>2. \A a \in Addr : SegmentOf(a) = 0 => flash'[a] = flash[a]
        <5>1. CASE flash' = flash
          BY <5>1
        <5>2. CASE flash' # flash
          BY <1>1, <1>3, <3>2, <5>2, ErasedIs DEF TypeOK
        <5> QED
          BY <5>1, <5>2
      <4>3. flash'[0 + 1] = flash[0 + 1] /\ flash'[0 + SegSize - 1] = flash[0 + SegSize - 1]
        <5>1. /\ 0 + 1 \in Addr /\ 0 + SegSize - 1 \in Addr
              /\ 0 + 1 \in 0..(0 + SegSize - 1) /\ 0 + SegSize - 1 \in 0..(0 + SegSize - 1)
          BY <1>1, Segments
        <5> QED
          BY <1>1, <4>2, <5>1, Segments
      <4> QED
        BY <4>1, <4>3 DEF marked, segment_marked_erase
    <3> QED
      BY <1>2, <3>1, <3>2
  <2>2. mode' = "find" => ~marked(SegSize)'
    BY <1>2, <1>4
  <2>3. ASSUME ~marked(SegSize)', flash'[SegSize] # Blank PROVE NoneCut' \/ IsBlank(0)' \/ marked(0)'
    <3>1. Keeps(SegSize)
      BY <1>1, <1>6, <2>3, ErasedStays
    <3>2. ~marked(SegSize) /\ flash[SegSize] # Blank
      BY <1>1, <2>3, <3>1, HeadersStay
    <3>3. NoneCut \/ marked(0) \/ IsBlank(0)
      BY <1>1, <3>2 DEF CutInv
    <3>4. NoneCut => NoneCut'
      BY <1>1, <1>2, <2>3, <3>1, CutStays
    <3>5. marked(0) => IsBlank(0)' \/ marked(0)'
      <4>1. CASE seg = 0
        BY <1>1, <1>3, <4>1, ErasedStays
      <4>2. CASE seg # 0
        BY <1>5, <1>6, <4>2, <1>1 DEF Keeps
      <4> QED
        BY <4>1, <4>2
    <3>6. IsBlank(0) => IsBlank(0)'
      <4> SUFFICES ASSUME IsBlank(0) PROVE IsBlank(0)'
        OBVIOUS
      <4>1. \A a \in 0..(0 + SegSize - 1) : a \in Addr /\ flash[a] = Blank
        BY <1>1, Segments DEF IsBlank, BlankFrom
      <4>2. \A a \in Addr : flash[a] = Blank => flash'[a] = Blank
        BY <1>1, <1>3, ErasedIs DEF TypeOK
      <4> QED
        BY <4>1, <4>2 DEF IsBlank, BlankFrom
    <3> QED
      BY <3>3, <3>4, <3>5, <3>6
  <2> QED
    BY <1>1, <1>2, <2>1, <2>2, <2>3 DEF CutInv, Running
<1>11. MarkInv' /\ WriteInv' /\ SupersedeInv' /\ FoundIsWhole'
  BY <1>2, <1>4 DEF MarkInv, WriteInv, SupersedeInv, FoundIsWhole
<1> QED
  BY <1>8, <1>9, <1>10, <1>11 DEF WholeInv

\* After a bundle has been restored, the other segment is empty.
LEMMA WholeRestore ==
    ASSUME WholeIInv, Restore
    PROVE  WholeInv'
<1>1. /\ StackSize # {} /\ FIRST_BUNDLE_SEG = 0 /\ SECOND_BUNDLE_SEG = SegSize /\ SegSize \in Nat /\ 0 # SegSize
      /\ 0 \in Segment /\ SegSize \in Segment /\ Other(0) = SegSize /\ Other(SegSize) = 0 /\ whole \subseteq Addr /\ Segment = {0, SegSize}
      /\ TypeOK /\ RoomInv /\ EndInv /\ FirstInv /\ SecondInv /\ CutInv
  BY WholeFacts
<1> DEFINE seg == Other(SegmentOf(baseaddr))
<1>2. /\ mode = "restore" /\ mode' = "run" /\ baseaddr' = baseaddr /\ stack' = stack /\ cursor' = cursor
      /\ (segment_is_empty(flash, seg) /\ flash' = flash /\ whole' = whole) \/ (flash' = Erased(flash, seg) /\ Forget(seg))
  BY DEF Restore
<1>3. seg \in Segment
  BY <1>1 DEF SegmentOf
<1> HIDE DEF seg
<1>4. EndInv'
  <2>1. CASE flash' = flash
    BY <1>1, <2>1 DEF EndInv
  <2> QED
    BY <1>1, <1>2, <1>3, <2>1, ErasedStays
<1>5. \A t \in Segment : Keeps(t) \/ (t = seg /\ flash' = Erased(flash, seg) /\ Forget(seg))
  <2>1. CASE flash' = flash /\ whole' = whole
    BY <1>1, <2>1, SameKeeps
  <2>2. CASE flash' = Erased(flash, seg) /\ Forget(seg)
    <3>1. Keeps(Other(seg)) /\ \A t \in Segment : t = seg \/ t = Other(seg)
      BY <1>1, <1>3, <2>2, ErasedStays
    <3> QED
      BY <2>2, <3>1
  <2> QED
    BY <1>2, <2>1, <2>2
<1>6. whole' \subseteq Addr
  BY <1>1, <1>2 DEF Forget
<1>7. FirstInv'
  BY <1>1, <1>5, <1>6, FirstStays, ErasedStays
<1>8. SecondInv'
  BY <1>1, <1>5, <1>6, SecondStays, ErasedStays
<1>9. CutInv'
  <2> SUFFICES ASSUME ~marked(SegSize)', flash'[SegSize] # Blank PROVE NoneCut'
    BY <1>1, <1>2 DEF CutInv
  <2>1. Keeps(SegSize)
    BY <1>1, <1>5, ErasedStays
  <2>2. ~marked(SegSize) /\ flash[SegSize] # Blank
    BY <1>1, <2>1, HeadersStay
  <2>3. NoneCut
    BY <1>1, <1>2, <2>2 DEF CutInv, Running
  <2> QED
    BY <1>1, <1>2, <2>1, <2>3, CutStays
<1>10. SupersedeInv'
  <2> SUFFICES ASSUME ~marked(0)', flash'[0] # Blank, ~marked(SegSize)' PROVE IsBlank(SegSize)'
    BY <1>1 DEF SupersedeInv
  <2>1. CASE seg = 0
    <3>1. segment_is_empty(flash, 0) /\ flash' = flash
      BY <1>1, <1>2, <2>1, ErasedStays
    <3> QED
      BY <1>1, <3>1, InUse
  <2>2. CASE seg = SegSize
    <3>1. CASE flash' = Erased(flash, seg) /\ Forget(seg)
      BY <1>1, <2>2, <3>1, ErasedStays
    <3>2. CASE segment_is_empty(flash, seg) /\ flash' = flash
      <4>1. ~marked(SegSize)
        BY <3>2 DEF marked
      <4>2. IsBlank(SegSize)
        BY <1>1, <2>2, <3>2, <4>1 DEF SecondInv
      <4> QED
        BY <3>2, <4>2 DEF IsBlank, BlankFrom
    <3> QED
      BY <1>2, <3>1, <3>2
  <2> QED
    BY <1>1, <1>3, <2>1, <2>2
<1>11. MarkInv' /\ WriteInv' /\ FoundIsWhole'
  BY <1>2, <1>4 DEF MarkInv, WriteInv, FoundIsWhole
<1> QED
  BY <1>7, <1>8, <1>9, <1>10, <1>11 DEF WholeInv

\* The power fails, between two steps or during a search.
LEMMA WholePower ==
    ASSUME WholeIInv, PowerFail \/ TornSearch
    PROVE  WholeInv'
<1>1. /\ StackSize # {} /\ FIRST_BUNDLE_SEG = 0 /\ SECOND_BUNDLE_SEG = SegSize /\ SegSize \in Nat /\ 0 # SegSize
      /\ 0 \in Segment /\ SegSize \in Segment /\ Segment = {0, SegSize} /\ flash \in [Addr -> Word]
      /\ TypeOK /\ RoomInv /\ EndInv /\ FirstInv /\ SecondInv /\ WriteInv /\ CutInv
  BY WholeFacts
<1>2. mode' = "off" /\ whole' = whole /\ Off
  BY DEF PowerFail, TornSearch, Off
<1>3. Marks(flash, flash') /\ (flash' = flash \/ mode \in {"run", "find"})
  <2>1. CASE PowerFail
    <3>1. flash' = flash
      BY <2>1 DEF PowerFail
    <3>2. Cleared(flash, <<>>) = flash
      BY <1>1 DEF Cleared
    <3> QED
      BY <1>1, <3>1, <3>2, MarkIs, MarksAre
  <2>2. CASE TornSearch
    <3>1. mode \in {"run", "find"} /\ \E zeros \in MarkSeqs(flash) : TornBy(zeros)
      BY <1>1, <2>2, LocateIs, FindIs DEF TornSearch
    <3>2. PICK zeros \in MarkSeqs(flash) : TornBy(zeros)
      BY <3>1
    <3>3. PICK n \in 1..(Len(zeros) - 1) : flash' = Cleared(flash, SubSeq(zeros, 1, n))
      BY <3>2 DEF TornBy
    <3> QED
      BY <1>1, <3>1, <3>3, MarksPrefix, MarksAre
  <2> QED
    BY <2>1, <2>2
<1>4. EndInv' /\ Keeps(0) /\ Keeps(SegSize) /\ FirstInv' /\ SecondInv'
  BY <1>1, <1>2, <1>3, SearchKeeps
<1>5. CutInv'
  <2> SUFFICES ASSUME ~marked(SegSize)', flash'[SegSize] # Blank PROVE NoneCut' \/ marked(0)' \/ IsBlank(0)'
    BY <1>1, <1>2 DEF CutInv, Running
  <2>1. ~marked(SegSize) /\ flash[SegSize] # Blank
    BY <1>1, <1>4, HeadersStay
  <2>2. NoneCut \/ marked(0) \/ IsBlank(0)
    BY <1>1, <2>1 DEF CutInv
  <2>3. marked(0) => marked(0)'
    BY <1>4 DEF Keeps
  <2>4. IsBlank(0) => IsBlank(0)'
    <3> SUFFICES ASSUME IsBlank(0) PROVE IsBlank(0)'
      OBVIOUS
    <3>1. \A a \in 0..(0 + SegSize - 1) : a \in Addr /\ SegmentOf(a) = 0 /\ flash[a] = Blank
      BY <1>1, Segments DEF IsBlank, BlankFrom
    <3>2. segment_is_empty(flash, 0)
      BY <1>1, <3>1 DEF segment_is_empty
    <3> QED
      BY <1>1, <1>3, <3>1, <3>2 DEF Marks, IsBlank, BlankFrom
  <2>5. CASE mode = "write" /\ baseaddr >= SegSize
    <3>1. SegmentOf(baseaddr) = SegSize
      BY <1>1, <2>5, AddrIs DEF RoomInv
    <3> QED
      BY <1>1, <2>3, <2>4, <2>5, <3>1 DEF WriteInv
  <2>6. CASE mode = "write" => ~(baseaddr >= SegSize)
    <3>1. mode = "write" => baseaddr \in Nat /\ baseaddr < SegSize
      BY <1>1, <2>6, AddrIs DEF RoomInv
    <3>2. NoneCut => NoneCut'
      BY <1>1, <1>4, <3>1, CutStays
    <3> QED
      BY <2>2, <2>3, <2>4, <3>2
  <2> QED
    BY <2>5, <2>6
<1>6. MarkInv' /\ WriteInv' /\ SupersedeInv' /\ FoundIsWhole'
  BY <1>2, <1>4 DEF MarkInv, WriteInv, SupersedeInv, FoundIsWhole
<1> QED
  BY <1>4, <1>5, <1>6 DEF WholeInv

\* The start of a segment that is empty is a place for a bundle.
LEMMA PlaceAtStart ==
    ASSUME WholeIInv, NEW seg \in Segment, Keeps(seg), segment_is_empty(flash, seg), ~marked(seg)'
    PROVE  /\ seg \notin whole
           /\ \A c \in seg..(seg + SegSize - 1) : flash'[c] = Blank
<1>1. /\ StackSize # {} /\ FIRST_BUNDLE_SEG = 0 /\ SECOND_BUNDLE_SEG = SegSize /\ SegSize \in Nat /\ 0 # SegSize /\ SegSize >= 3
      /\ Segment = {0, SegSize} /\ TypeOK /\ RoomInv /\ FirstInv /\ SecondInv
  BY WholeFacts
<1>2. ~marked(seg) /\ flash[seg] = Blank
  BY <1>1, InUse DEF Keeps
<1>3. IsBlank(seg) /\ seg \notin whole
  <2>1. CASE seg = 0
    BY <1>1, <1>2, <2>1 DEF RoomInv, FirstInv
  <2>2. CASE seg = SegSize
    BY <1>1, <1>2, <2>2, Words DEF SecondInv
  <2> QED
    BY <1>1, <2>1, <2>2
<1>4. \A c \in seg..(seg + SegSize - 1) : c \in Addr /\ SegmentOf(c) = seg
  BY <1>1, Segments
<1> QED
  BY <1>3, <1>4 DEF Keeps, IsBlank, BlankFrom

\* The place behind the bundle of the first segment, which is in the second.
LEMMA PlaceBehindFirst ==
    ASSUME WholeIInv, TornFits, mode = "run", Pri(flash) = 0,
           flash' = Cleared(flash, find_active_bundle(flash).zeros),
           find_active_bundle(flash).ret # NoBundle,
           Keeps(SegSize), ~marked(SegSize)',
           NEW next, next = FirstBlank(flash', 0 + Size(flash'[0])), next \in Addr, next >= SegSize
    PROVE  next \in {SegSize, SegSize + STRIDE} /\ IsBlank(SegSize)' /\ next \notin whole
<1>1. /\ StackSize # {} /\ FIRST_BUNDLE_SEG = 0 /\ SECOND_BUNDLE_SEG = SegSize /\ SegSize \in Nat /\ 0 # SegSize /\ SegSize >= 3
      /\ 0 \in Segment /\ flash \in [Addr -> Word] /\ TypeOK /\ RoomInv /\ FirstInv /\ SecondInv /\ SupersedeInv
  BY WholeFacts
<1>2. /\ FlashEnd = SegSize + SegSize /\ Addr = 0..(FlashEnd - 1)
      /\ Registers \in Nat /\ Registers >= 1 /\ Registers + 2 <= SegSize /\ STRIDE = Registers + 1
  BY <1>1, FlashIs
<1>3. ~marked(0) /\ flash[0] \in Header /\ flash[0] # Blank /\ Size(flash[0]) <= SegSize
  BY <1>1, FoundFirst, Words
<1>4. ~marked(SegSize) /\ IsBlank(SegSize) /\ IsBlank(SegSize)'
  BY <1>1, <1>3, HeadersStay DEF SupersedeInv
<1>5. /\ \A c \in SegSize..(SegSize + SegSize - 1) : flash[c] = Blank /\ flash'[c] = Blank /\ c \notin whole
  <2>1. \A c \in SegSize..(SegSize + SegSize - 1) : flash[c] = Blank /\ flash'[c] = Blank
    BY <1>4 DEF IsBlank, BlankFrom
  <2>2. \A c \in SegSize..(SegSize + SegSize - 1) : c >= SegSize
    BY <1>1
  <2> QED
    BY <1>1, <1>4, <2>1, <2>2, Words DEF SecondInv
<1>6. Marks(flash, flash')
  BY <1>1, FindIs
<1> DEFINE n == Size(flash[0])
<1>7. n \in Nat /\ n >= 3 /\ n <= SegSize /\ n = 0 + Size(flash'[0])
  <2>1. flash'[0] = flash[0]
    BY <1>1, <1>6 DEF Marks
  <2>2. Size(flash[0]) \in Nat /\ Size(flash[0]) >= Registers + 2
    BY <1>1, SizeIs
  <2> QED
    BY <1>2, <1>3, <2>1, <2>2
<1> HIDE DEF n
<1>8. next = FirstBlank(flash', n)
  BY <1>7
<1>9. CASE n = SegSize
  <2>1. SegSize \in Addr /\ SegSize \in 0..(FlashEnd + 1) /\ flash'[SegSize] = Blank
    BY <1>1, <1>2, <1>5
  <2>2. next = SegSize
    BY <1>1, <1>8, <1>9, <2>1, BlankFound
  <2> QED
    BY <1>1, <1>4, <1>5, <2>2
<1>10. CASE n < SegSize
  <2>1. n \in Addr /\ n \in 0..(FlashEnd + 1) /\ SegmentOf(n) = 0
    BY <1>1, <1>2, <1>7, <1>10 DEF SegmentOf
  <2>2. flash'[n] # Blank
    <3> SUFFICES ASSUME flash'[n] = Blank PROVE FALSE
      OBVIOUS
    <3>1. next = n
      BY <1>1, <1>8, <2>1, BlankFound
    <3> QED
      BY <1>1, <1>7, <1>10, <3>1
  <2>3. flash[n] = Blank
    <3>1. BlankFrom(n, 0)
      BY <1>1, <1>3 DEF FirstInv, n
    <3>2. n \in n..(0 + SegSize - 1)
      BY <1>1, <1>7, <1>10
    <3> QED
      BY <3>1, <3>2 DEF BlankFrom
  <2>4. flash'[n] = Zero /\ n \in {0 + 1, 0 + SegSize - 1}
    BY <1>1, <1>6, <2>1, <2>2, <2>3 DEF Marks
  <2>5. n = SegSize - 1
    BY <1>1, <1>7, <2>4
  <2>6. Size(flash'[n]) = Registers + 2
    BY <1>1, <2>4, SizeIs
  <2>7. /\ n + Size(flash'[n]) = SegSize + STRIDE /\ SegSize + STRIDE \in Addr /\ SegSize + STRIDE <= FlashEnd
        /\ SegSize + STRIDE \in SegSize..(SegSize + SegSize - 1) /\ SegSize + STRIDE \in 0..(FlashEnd + 1)
    BY <1>1, <1>2, <2>5, <2>6
  <2>8. next = FirstBlank(flash', SegSize + STRIDE)
    BY <1>1, <1>8, <2>1, <2>2, <2>7, BlankFound
  <2>9. next = SegSize + STRIDE
    BY <1>1, <1>5, <2>7, <2>8, BlankFound
  <2> QED
    BY <1>4, <1>5, <2>7, <2>9
<1> QED
  BY <1>1, <1>7, <1>9, <1>10

\* The place behind the last bundle of the second segment.
LEMMA PlaceBehindSecond ==
    ASSUME WholeIInv, mode = "run", Pri(flash) = SegSize,
           flash' = Cleared(flash, find_active_bundle(flash).zeros),
           NEW b, b = find_active_bundle(flash).ret, b # NoBundle,
           Keeps(SegSize), ~marked(SegSize)',
           NEW next, next = FirstBlank(flash', b + Size(flash'[b])), next \in Addr
    PROVE  /\ next >= SegSize + STRIDE /\ flash'[SegSize] # Blank /\ next \notin whole
           /\ \A c \in next..(SegSize + SegSize - 1) : flash'[c] = Blank
           /\ \A h : IsHeader(h)' => h + Size(flash'[h]) = next \/ IsHeader(h + Size(flash[h]))
<1>1. /\ StackSize # {} /\ FIRST_BUNDLE_SEG = 0 /\ SECOND_BUNDLE_SEG = SegSize /\ SegSize \in Nat /\ 0 # SegSize /\ SegSize >= 3
      /\ SegSize \in Segment /\ flash \in [Addr -> Word] /\ TypeOK /\ RoomInv /\ SecondInv /\ CutInv /\ whole \subseteq Addr
  BY WholeFacts
<1>2. /\ FlashEnd = SegSize + SegSize /\ Addr = 0..(FlashEnd - 1) /\ NoBundle \notin Addr
      /\ Registers \in Nat /\ Registers >= 1 /\ STRIDE = Registers + 1
  BY <1>1, FlashIs
<1>3. /\ ~marked(SegSize) /\ flash'[SegSize] = flash[SegSize]
      /\ \A a \in SegSize..(SegSize + SegSize - 1) : a \in Addr /\ (a # SegSize + 1 => flash'[a] = flash[a])
      /\ \A h : IsHeader(h)' <=> IsHeader(h)
      /\ \A h : IsHeader(h) => flash'[h] = flash[h]
  BY <1>1, HeadersStay
<1>4. b \in Addr /\ b \in Nat /\ b \in SegSize..(SegSize + SegSize - 1) /\ flash[SegSize] # Blank
  BY <1>1, FoundEnds
<1>5. b \in whole
  BY <1>1, <1>3, FoundSecond
<1>6. IsHeader(b)
  BY <1>1, <1>2, <1>3, <1>4, <1>5 DEF SecondInv, IsHeader
<1>7. NoneCut
  BY <1>1, <1>3, <1>4 DEF CutInv, Running
\* What a header is chained to.
<1>8. ASSUME NEW h, IsHeader(h)
      PROVE  /\ h \in SegSize..(FlashEnd - 1) /\ h \in Nat /\ h + Size(flash[h]) \in Nat /\ h + Size(flash[h]) <= FlashEnd
             /\ h + Size(flash[h]) >= h + Registers + 2
             /\ h + Size(flash[h]) < FlashEnd => IsHeader(h + Size(flash[h])) \/ BlankFrom(h + Size(flash[h]), SegSize)
             /\ \A g : g > h /\ IsHeader(g) => h + Size(flash[h]) <= g
  <2>1. h \in SegSize..(FlashEnd - 1) /\ h \in Nat
    BY <1>1, <1>2, <1>8 DEF IsHeader
  <2>2. h \in whole
    BY <1>1, <1>7, <1>8, <2>1 DEF NoneCut
  <2>3. Chained(h)
    BY <1>1, <1>3, <1>4, <1>8, <2>1, <2>2 DEF SecondInv
  <2>4. Size(flash[h]) \in Nat /\ Size(flash[h]) >= Registers + 2
    BY <1>1, SizeIs
  <2> DEFINE n == h + Size(flash[h])
  <2>5. n \in Nat /\ n >= h + Registers + 2
    BY <1>2, <2>1, <2>4
  <2>6. /\ n <= FlashEnd
        /\ n < FlashEnd => flash[n] \in Header \/ BlankFrom(n, SegSize)
        /\ \A g \in SegSize..(FlashEnd - 1) : g > h /\ IsHeader(g) => n <= g
    BY <1>1, <2>3 DEF Chained
  <2> HIDE DEF n
  <2>7. n < FlashEnd => n \in SegSize..(FlashEnd - 1)
    BY <1>1, <1>2, <2>1, <2>5
  <2>8. n < FlashEnd => IsHeader(n) \/ BlankFrom(n, SegSize)
    BY <1>1, <2>6, <2>7 DEF IsHeader
  <2>9. \A g : g > h /\ IsHeader(g) => n <= g
    BY <1>1, <2>6 DEF IsHeader
  <2> QED
    BY <2>1, <2>5, <2>6, <2>8, <2>9 DEF n
<1> DEFINE n == b + Size(flash[b])
<1>9. n \in Nat /\ n <= FlashEnd /\ n >= b + Registers + 2 /\ n = b + Size(flash'[b])
  BY <1>3, <1>6, <1>8
<1>10. n < FlashEnd
  <2> SUFFICES ASSUME n = FlashEnd PROVE FALSE
    <3> HIDE DEF n
    <3> QED
      BY <1>1, <1>2, <1>9
  <2>1. FlashEnd \in 0..(FlashEnd + 1) /\ FlashEnd + 1 \notin Addr
    BY <1>1, <1>2
  <2>2. next = FlashEnd + 1
    BY <1>1, <1>9, <2>1, BlankFound
  <2> QED
    BY <2>1, <2>2
<1>11. flash[n] = Blank
  <2>1. /\ b = Walks(flash, SegSize)[SegSize].candidate /\ WalkFound(flash, SegSize, SegSize)
        /\ Walks(flash, SegSize)[SegSize].abortive => segment_marked_erase(flash', SegSize)
    BY <1>1, FindIs
  <2>2. ~Walks(flash, SegSize)[SegSize].abortive
    BY <2>1 DEF marked
  <2>3. n < SegSize + SegSize
    BY <1>2, <1>10
  <2> QED
    BY <2>1, <2>2, <2>3 DEF WalkFound
<1>12. BlankFrom(n, SegSize)
  <2>1. ~IsHeader(n)
    BY <1>11, Words DEF IsHeader
  <2> QED
    BY <1>6, <1>8, <1>10, <2>1
<1> HIDE DEF n
<1>13. \A c \in n..(SegSize + SegSize - 1) : flash[c] = Blank /\ flash'[c] = Blank
  <2>1. \A c \in n..(SegSize + SegSize - 1) : c \in SegSize..(SegSize + SegSize - 1) /\ c # SegSize + 1
    BY <1>1, <1>2, <1>4, <1>9
  <2> QED
    BY <1>3, <1>12, <2>1 DEF BlankFrom
<1>14. next = n
  <2>1. n \in Addr /\ n \in 0..(FlashEnd + 1) /\ n \in n..(SegSize + SegSize - 1)
    BY <1>1, <1>2, <1>9, <1>10
  <2> QED
    BY <1>1, <1>9, <1>13, <2>1, BlankFound
<1>15. n \notin whole
  <2>1. n >= SegSize
    BY <1>1, <1>2, <1>4, <1>9
  <2> QED
    BY <1>1, <1>3, <1>11, <2>1, Words DEF SecondInv
<1>16. ASSUME NEW h, IsHeader(h)' PROVE h + Size(flash'[h]) = n \/ IsHeader(h + Size(flash[h]))
  <2> DEFINE m == h + Size(flash[h])
  <2>1. IsHeader(h) /\ m = h + Size(flash'[h])
    BY <1>3, <1>16
  <2>2. /\ h \in SegSize..(FlashEnd - 1) /\ h \in Nat /\ m \in Nat /\ m <= FlashEnd /\ m >= h + Registers + 2
        /\ m < FlashEnd => IsHeader(m) \/ BlankFrom(m, SegSize)
        /\ \A g : g > h /\ IsHeader(g) => m <= g
    BY <1>8, <2>1
  <2>3. h = b => m = n
    BY DEF n
  <2> HIDE DEF m
  <2>4. CASE h > b
    <3>1. h \in n..(SegSize + SegSize - 1)
      <4>1. n <= h
        BY <1>6, <1>8, <2>1, <2>4 DEF n
      <4> QED
        BY <1>1, <1>2, <1>9, <2>2, <4>1
    <3> QED
      BY <1>13, <2>1, <3>1, Words DEF IsHeader
  <2>5. CASE h < b
    <3>1. m <= b
      BY <1>6, <2>2, <1>4, <2>5
    <3>2. m < FlashEnd /\ b \in m..(SegSize + SegSize - 1)
      BY <1>1, <1>2, <1>4, <2>2, <3>1
    <3>3. ~BlankFrom(m, SegSize)
      BY <1>6, <3>2, Words DEF BlankFrom, IsHeader
    <3> QED
      BY <2>1, <2>2, <3>2, <3>3 DEF m
  <2> QED
    BY <1>4, <2>1, <2>2, <2>3, <2>4, <2>5
<1> QED
  BY <1>1, <1>2, <1>3, <1>4, <1>9, <1>13, <1>14, <1>15, <1>16

\* A checkpoint begins behind what is whole.
LEMMA WholeCheckpoint ==
    ASSUME WholeIInv, TornFits, Checkpoint
    PROVE  WholeInv'
<1>1. /\ StackSize # {} /\ FIRST_BUNDLE_SEG = 0 /\ SECOND_BUNDLE_SEG = SegSize /\ SegSize \in Nat /\ 0 # SegSize /\ SegSize >= 3
      /\ 0 \in Segment /\ SegSize \in Segment /\ Segment = {0, SegSize} /\ Other(0) = SegSize /\ Other(SegSize) = 0
      /\ flash \in [Addr -> Word] /\ whole \subseteq Addr
      /\ TypeOK /\ RoomInv /\ EndInv /\ FirstInv /\ SecondInv /\ CutInv
  BY WholeFacts
<1>2. mode = "run" /\ cursor' = 0 /\ newest' = newest /\ whole' = whole
  BY DEF Checkpoint
<1>3. PICK s \in StackSize :
         LET r == locate_next_bundle(flash, s)
         IN  /\ stack' = s /\ flash' = Cleared(flash, r.zeros) /\ baseaddr' = r.ret
             /\ mode' = IF r.ret = NoBundle THEN "makeRoom" ELSE "write"
  BY DEF Checkpoint
<1>4. Marks(flash, flash') /\ LocatedAt(flash, s, baseaddr', flash') /\ mode' = IF baseaddr' = NoBundle THEN "makeRoom" ELSE "write"
  BY <1>1, <1>3, LocateIs
<1>5. EndInv' /\ Keeps(0) /\ Keeps(SegSize) /\ FirstInv' /\ SecondInv' /\ flash'[0] = flash[0]
  BY <1>1, <1>2, <1>4, SearchKeeps
<1>6. CutInv'
  <2> SUFFICES ASSUME ~marked(SegSize)', flash'[SegSize] # Blank PROVE NoneCut'
    BY <1>1, <1>4 DEF CutInv
  <2>1. ~marked(SegSize) /\ flash[SegSize] # Blank
    BY <1>1, <1>5, HeadersStay
  <2>2. NoneCut
    BY <1>1, <1>2, <2>1 DEF CutInv, Running
  <2> QED
    BY <1>1, <1>2, <1>5, <2>2, CutStays
<1>7. MarkInv' /\ SupersedeInv' /\ FoundIsWhole'
  BY <1>4, <1>5 DEF MarkInv, SupersedeInv, FoundIsWhole
<1> DEFINE active == find_active_bundle(flash)
           b == active.ret
           f1 == Cleared(flash, active.zeros)
           next == FirstBlank(f1, b + Size(f1[b]))
<1>8. ASSUME baseaddr' # NoBundle PROVE WriteInv'
  <2>1. \/ baseaddr' \in Segment /\ segment_is_empty(flash, baseaddr') /\ flash' = f1
        \/ baseaddr' \notin Segment /\ b # NoBundle /\ next <= FlashEnd /\ baseaddr' = next /\ flash' = f1
        \/ baseaddr' \in Segment /\ b # NoBundle /\ next <= FlashEnd /\ baseaddr' = next /\ flash' = f1
    <3> DEFINE c == baseaddr'
    <3>1. LocatedAt(flash, s, c, flash') /\ c # NoBundle
      BY <1>4, <1>8
    <3>2. b # NoBundle => Other(SegmentOf(b)) \in Segment
      BY <1>1 DEF SegmentOf
    <3>3. Other(SegmentOf(next)) \in Segment
      BY <1>1 DEF SegmentOf
    <3> HIDE DEF c, next, f1, b, active
    <3>4. \/ c \in Segment /\ segment_is_empty(flash, c) /\ flash' = f1
          \/ b # NoBundle /\ next <= FlashEnd /\ c = next /\ flash' = f1
      BY <1>1, <3>1, <3>2, <3>3 DEF LocatedAt, b, f1, active, next
    <3> QED
      BY <3>4 DEF c
  <2>2. flash' = f1
    BY <2>1
  <2>3. marked(0)' \/ IsBlank(0)'
    <3>1. CASE segment_is_empty(flash, 0)
      <4>1. IsBlank(0)
        BY <1>1, <3>1, InUse DEF RoomInv
      <4>2. \A c \in 0..(0 + SegSize - 1) : c \in Addr /\ SegmentOf(c) = 0
        BY <1>1, Segments
      <4>3. IsBlank(0)'
        BY <1>5, <3>1, <4>1, <4>2 DEF Keeps, IsBlank, BlankFrom
      <4> QED
        BY <4>3
    <3>2. CASE ~segment_is_empty(flash, 0)
      <4>1. segment_marked_erase(flash', 0)
        BY <1>1, <2>2, <3>2, FirstSuperseded
      <4> QED
        BY <4>1 DEF marked
    <3> QED
      BY <3>1, <3>2
  <2>4. PICK c \in Addr : c = baseaddr'
    <3>1. b # NoBundle /\ next <= FlashEnd => next \in Addr
      BY <1>1, FoundEnds
    <3> HIDE DEF next, b, f1
    <3> QED
      BY <1>1, <2>1, <3>1, Segments
  <2> DEFINE seg == SegmentOf(c)
  <2>5. seg \in Segment /\ seg = SegmentOf(baseaddr') /\ (seg = 0 \/ seg = SegSize)
    BY <1>1, <2>4, AddrIs
  <2>6. ASSUME ~marked(seg)'
        PROVE  /\ c \notin whole /\ \A a \in c..(seg + SegSize - 1) : flash'[a] = Blank
               /\ seg = 0 => c = 0
               /\ seg = SegSize =>
                    \/ c = seg
                    \/ c = seg + STRIDE /\ IsBlank(seg)'
                    \/ c >= seg + STRIDE /\ flash'[seg] # Blank
                       /\ \A h : IsHeader(h)' => LET m == h + Size(flash'[h])
                                                 IN  m = c \/ (m \in SegSize..(FlashEnd - 1) /\ flash'[m] \in Header)
    <3>1. CASE c \in Segment /\ segment_is_empty(flash, c)
      <4>1. seg = c
        BY <1>1, <3>1, Segments
      <4> QED
        BY <1>1, <1>5, <2>6, <3>1, <4>1, PlaceAtStart
    <3>2. CASE ~(c \in Segment /\ segment_is_empty(flash, c))
      <4>1. b # NoBundle /\ next <= FlashEnd /\ c = next /\ next = FirstBlank(flash', b + Size(flash'[b]))
        BY <2>1, <2>2, <2>4, <3>2
      <4>2. CASE Pri(flash) = 0
        <5>1. b = 0 /\ flash[0] # Blank
          BY <1>1, <4>1, <4>2, FoundFirst, Words
        <5>2. marked(0)'
          <6>1. ~IsBlank(0)'
            BY <1>1, <1>5, <5>1, Segments DEF IsBlank, BlankFrom
          <6> QED
            BY <2>3, <6>1
        <5>3. seg = SegSize /\ c >= SegSize
          BY <1>1, <2>5, <2>6, <5>2, AddrIs
        <5>4. c \in {SegSize, SegSize + STRIDE} /\ IsBlank(SegSize)' /\ c \notin whole
          <6>1. c = FirstBlank(flash', 0 + Size(flash'[0])) /\ b # NoBundle
            BY <4>1, <5>1
          <6> HIDE DEF next, seg
          <6> QED
            BY <1>2, <1>5, <2>2, <2>6, <4>2, <5>3, <6>1, PlaceBehindFirst
        <5>5. \A a \in c..(SegSize + SegSize - 1) : a \in SegSize..(SegSize + SegSize - 1)
          <6>1. c \in Nat
            BY <1>1, AddrIs
          <6> HIDE DEF seg
          <6> QED
            BY <1>1, <5>3, <6>1
        <5>6. \A a \in c..(SegSize + SegSize - 1) : flash'[a] = Blank
          BY <5>4, <5>5 DEF IsBlank, BlankFrom
        <5> HIDE DEF seg
        <5> QED
          BY <1>1, <5>3, <5>4, <5>6
      <4>3. CASE Pri(flash) # 0
        <5>1. Pri(flash) = SegSize
          BY <1>1, <4>3, PriIs
        <5>2. seg = SegSize
          <6>1. b \in SegSize..(SegSize + SegSize - 1) /\ b + Size(f1[b]) > b /\ b + Size(f1[b]) \in Nat /\ next \in (b + Size(f1[b]))..(FlashEnd + 1)
            BY <1>1, <4>1, <5>1, FoundEnds
          <6> HIDE DEF next, b, f1
          <6>2. c >= SegSize
            BY <1>1, <4>1, <6>1
          <6> QED
            BY <1>1, <6>2, AddrIs
        <5>3. /\ c >= SegSize + STRIDE /\ flash'[SegSize] # Blank /\ c \notin whole
              /\ \A a \in c..(SegSize + SegSize - 1) : flash'[a] = Blank
              /\ \A h : IsHeader(h)' => h + Size(flash'[h]) = c \/ IsHeader(h + Size(flash[h]))
          <6> HIDE DEF next, seg
          <6> QED
            BY <1>2, <1>5, <2>2, <2>6, <4>1, <5>1, <5>2, PlaceBehindSecond
        <5>4. ASSUME NEW h, IsHeader(h)', h + Size(flash'[h]) # c
              PROVE  h + Size(flash'[h]) \in SegSize..(FlashEnd - 1) /\ flash'[h + Size(flash'[h])] \in Header
          <6>1. /\ \A g : IsHeader(g)' <=> IsHeader(g)
                /\ \A g : IsHeader(g) => flash'[g] = flash[g]
            BY <1>1, <1>5, <2>6, <5>2, HeadersStay
          <6>2. IsHeader(h + Size(flash[h])) /\ flash'[h] = flash[h]
            BY <5>3, <5>4, <6>1
          <6> DEFINE m == h + Size(flash[h])
          <6>3. m = h + Size(flash'[h]) /\ IsHeader(m)
            BY <6>2
          <6> HIDE DEF m
          <6>4. m \in SegSize..(FlashEnd - 1) /\ flash'[m] \in Header
            BY <1>1, <6>1, <6>3 DEF IsHeader
          <6> QED
            BY <6>3, <6>4
        <5> HIDE DEF seg
        <5> QED
          BY <1>1, <5>2, <5>3, <5>4
      <4> QED
        BY <4>2, <4>3
    <3> QED
      BY <3>1, <3>2
  <2>7. (SegmentOf(baseaddr))' = seg
    BY <1>1, <2>4 DEF SegmentOf
  <2> HIDE DEF seg, next, b, f1, active
  <2>8. ASSUME ~marked(seg)' PROVE Underway(seg)'
    <3>1. BlankFrom(baseaddr, seg)'
      BY <2>4, <2>6, <2>8 DEF BlankFrom
    <3>2. seg = SegSize => (baseaddr' = seg \/ (baseaddr' = seg + STRIDE /\ IsBlank(seg)')
                            \/ (baseaddr' >= seg + STRIDE /\ flash'[seg] # Blank /\ EndsAt(baseaddr)'))
      <4>1. ASSUME NEW h, IsHeader(h)' => LET m == h + Size(flash'[h])
                                           IN  m = c \/ (m \in SegSize..(FlashEnd - 1) /\ flash'[m] \in Header)
            PROVE  IsHeader(h)' => h + Size(flash'[h]) = c \/ IsHeader(h + Size(flash[h]))'
        BY <1>1, <4>1 DEF IsHeader
      <4> QED
        BY <2>4, <2>6, <2>8, <4>1 DEF EndsAt
    <3> QED
      BY <1>1, <1>2, <2>4, <2>6, <2>8, <3>1, <3>2 DEF Underway
  <2> QED
    BY <1>1, <2>3, <2>5, <2>7, <2>8 DEF WriteInv
<1>9. baseaddr' = NoBundle => WriteInv'
  BY <1>4 DEF WriteInv
<1> QED
  BY <1>5, <1>6, <1>7, <1>8, <1>9 DEF WholeInv

\* Programming a word that is not zero clears no word.
LEMMA ProgramZero ==
    ASSUME NEW f \in [Addr -> Word], NEW a \in Addr, NEW w \in Word, w # Blank, w # Zero
    PROVE  /\ Program(f, a, w)[a] = Zero <=> f[a] = Zero
           /\ f[a] \in {Blank, Data} => Program(f, a, w)[a] \in {w, Data}
<1>1. Program(f, a, w) = [f EXCEPT ![a] = IF f[a] \in {Blank, w} THEN w ELSE IF Zero \in {f[a], w} THEN Zero ELSE Data]
  BY DEF Program
<1> QED
  BY <1>1, Words

\* What a step of write_bundle() programs: one word of the bundle.
LEMMA Written ==
    ASSUME WholeIInv, WriteHeader \/ WriteData \/ WriteMagic
    PROVE  /\ mode = "write" /\ baseaddr \in Addr /\ stack' = stack /\ baseaddr' = baseaddr /\ flash' \in [Addr -> Word]
           /\ (whole' = whole \/ whole' = whole \cup {baseaddr})
           /\ \E a \in Addr : /\ SegmentOf(a) = SegmentOf(baseaddr)
                              /\ \A c \in Addr : c # a => flash'[c] = flash[c]
                              /\ (flash'[a] = Zero <=> flash[a] = Zero)
                              /\ \/ /\ a = baseaddr /\ cursor \in 0..1 /\ cursor' = cursor + 1 /\ mode' = mode /\ whole' = whole
                                    /\ (cursor = 0 /\ flash[a] = Blank => flash'[a] = <<stack, TornSize>>)
                                    /\ (cursor = 1 /\ flash[a] = <<stack, TornSize>> => flash'[a] = <<stack, GlobalSize>>)
                                 \/ /\ a \in (baseaddr + 1)..(baseaddr + BundleSize - 1)
                                    /\ cursor > 1 /\ cursor' = cursor + 1 /\ mode' = mode /\ whole' = whole
                                    /\ (flash[a] \in {Blank, Data} => flash'[a] = Data)
                                 \/ /\ a \in (baseaddr + 1)..(baseaddr + BundleSize - 1)
                                    /\ cursor > 1 /\ cursor' = 0 /\ whole' = whole \cup {baseaddr}
                                    /\ mode' = (IF baseaddr \in Segment /\ ~segment_is_empty(flash, Other(baseaddr)) THEN "supersede" ELSE "run")
                                    /\ (flash[a] \in {Blank, Data} => flash'[a] \in {Magic, Data})
<1>1. /\ TypeOK /\ RoomInv /\ flash \in [Addr -> Word] /\ mode = "write" /\ stack \in StackSize /\ baseaddr \in Addr
      /\ stack' = stack /\ baseaddr' = baseaddr /\ baseaddr \in Nat
  BY WholeFacts, AddrIs DEF TypeOK, RoomInv, WriteHeader, WriteData, WriteMagic
<1>2. /\ BundleSize \in Nat /\ BundleSize >= 3 /\ Registers \in Nat /\ cursor \in Nat /\ Registers >= 1
      /\ BundleSize = Registers + stack + GlobalSize + 2 /\ stack \in Nat /\ GlobalSize \in Nat
  BY <1>1, BundleSizes
<1>3. CASE WriteHeader
  <2>1. /\ <<stack, TornSize>> \in Word /\ <<stack, GlobalSize>> \in Word
        /\ <<stack, TornSize>> \notin {Blank, Zero} /\ <<stack, GlobalSize>> \notin {Blank, Zero}
    BY <1>1, Words DEF Word, Header
  <2>2. /\ cursor \in 0..1 /\ cursor' = cursor + 1 /\ mode' = mode /\ whole' = whole
        /\ flash' = IF cursor = 0 THEN Program(flash, baseaddr, <<stack, TornSize>>)
                    ELSE IF flash[baseaddr] = <<stack, TornSize>>
                    THEN [flash EXCEPT ![baseaddr] = <<stack, GlobalSize>>] ELSE flash
    BY <1>2, <1>3 DEF WriteHeader
  <2>3. flash' \in [Addr -> Word] /\ \A c \in Addr : c # baseaddr => flash'[c] = flash[c]
    BY <1>1, <1>3, HeaderWritten
  <2>4. /\ flash'[baseaddr] = Zero <=> flash[baseaddr] = Zero
        /\ cursor = 0 /\ flash[baseaddr] = Blank => flash'[baseaddr] = <<stack, TornSize>>
        /\ cursor = 1 /\ flash[baseaddr] = <<stack, TornSize>> => flash'[baseaddr] = <<stack, GlobalSize>>
    <3>1. CASE cursor = 0
      BY <1>1, <2>1, <2>2, <3>1, ProgramIs, ProgramZero
    <3>2. CASE cursor = 1
      BY <1>1, <2>1, <2>2, <3>2
    <3> QED
      BY <2>2, <3>1, <3>2
  <2> QED
    BY <1>1, <2>2, <2>3, <2>4
<1>4. CASE WriteData
  <2> DEFINE k == IF cursor <= Registers + 1 THEN Registers + 2 - cursor ELSE cursor - 1
  <2>1. /\ flash' = Program(flash, baseaddr + k, Data) /\ cursor \in 2..(BundleSize - 1)
        /\ mode' = mode /\ cursor' = cursor + 1 /\ whole' = whole
    BY <1>4 DEF WriteData
  <2>2. k \in 0..(BundleSize - 1) /\ k \in 1..(BundleSize - 1) /\ Data \in Word /\ Data # Blank /\ Data # Zero
    BY <1>2, <2>1, Words DEF Word
  <2> HIDE DEF k
  <2>3. /\ flash' \in [Addr -> Word] /\ baseaddr + k \in Addr /\ SegmentOf(baseaddr + k) = SegmentOf(baseaddr)
        /\ \A c \in Addr : c # baseaddr + k => flash'[c] = flash[c]
    BY <1>1, <2>1, <2>2, WordWritten
  <2>4. /\ flash'[baseaddr + k] = Zero <=> flash[baseaddr + k] = Zero
        /\ flash[baseaddr + k] \in {Blank, Data} => flash'[baseaddr + k] = Data
    BY <1>1, <2>1, <2>2, <2>3, ProgramZero
  <2>5. baseaddr + k \in (baseaddr + 1)..(baseaddr + BundleSize - 1) /\ cursor > 1
    BY <1>1, <1>2, <2>1, <2>2
  <2> QED
    BY <1>1, <2>1, <2>3, <2>4, <2>5
<1>5. CASE WriteMagic
  <2> DEFINE k == BundleSize - 1
  <2>1. /\ flash' = Program(flash, baseaddr + BundleSize - 1, Magic) /\ cursor = BundleSize
        /\ cursor' = 0 /\ whole' = whole \cup {baseaddr}
        /\ mode' = IF baseaddr \in Segment /\ ~segment_is_empty(flash, Other(baseaddr)) THEN "supersede" ELSE "run"
    BY <1>5 DEF WriteMagic
  <2>2. /\ k \in 0..(BundleSize - 1) /\ k \in 1..(BundleSize - 1) /\ baseaddr + BundleSize - 1 = baseaddr + k
        /\ Magic \in Word /\ Magic # Blank /\ Magic # Zero
    BY <1>1, <1>2, Words DEF Word
  <2> HIDE DEF k
  <2>3. /\ flash' \in [Addr -> Word] /\ baseaddr + k \in Addr /\ SegmentOf(baseaddr + k) = SegmentOf(baseaddr)
        /\ \A c \in Addr : c # baseaddr + k => flash'[c] = flash[c]
    BY <1>1, <2>1, <2>2, WordWritten
  <2>4. /\ flash'[baseaddr + k] = Zero <=> flash[baseaddr + k] = Zero
        /\ flash[baseaddr + k] \in {Blank, Data} => flash'[baseaddr + k] \in {Magic, Data}
    BY <1>1, <2>1, <2>2, <2>3, ProgramZero
  <2>5. baseaddr + k \in (baseaddr + 1)..(baseaddr + BundleSize - 1) /\ cursor > 1
    BY <1>1, <1>2, <2>1, <2>2
  <2> QED
    BY <1>1, <2>1, <2>3, <2>4, <2>5
<1> QED
  BY <1>3, <1>4, <1>5

\* No mark comes or goes, and the other segment stays as it is.
LEMMA WrittenMarks ==
    ASSUME WholeIInv, WriteHeader \/ WriteData \/ WriteMagic
    PROVE  /\ \A seg \in Segment : marked(seg)' <=> marked(seg)
           /\ EndInv'
           /\ \A c \in Addr : SegmentOf(c) # SegmentOf(baseaddr) => flash'[c] = flash[c]
           /\ \A seg \in Segment : seg # SegmentOf(baseaddr) => Keeps(seg)
           /\ whole' \subseteq Addr
<1>1. /\ StackSize # {} /\ TypeOK /\ EndInv /\ whole \subseteq Addr
  BY WholeFacts
<1>2. /\ baseaddr \in Addr /\ (whole' = whole \/ whole' = whole \cup {baseaddr})
  BY Written
<1>3. PICK a \in Addr : /\ SegmentOf(a) = SegmentOf(baseaddr)
                        /\ \A c \in Addr : c # a => flash'[c] = flash[c]
                        /\ (flash'[a] = Zero <=> flash[a] = Zero)
  BY Written
<1>4. \A c \in Addr : flash'[c] = Zero <=> flash[c] = Zero
  BY <1>3
<1>5. \A seg \in Segment : seg + 1 \in Addr /\ seg + SegSize - 1 \in Addr
  BY <1>1, Segments
<1>6. \A c \in Addr : SegmentOf(c) # SegmentOf(baseaddr) => flash'[c] = flash[c]
  BY <1>3
<1>7. \A seg \in Segment : marked(seg)' <=> marked(seg)
  BY <1>4, <1>5 DEF marked, segment_marked_erase
<1>8. EndInv'
  BY <1>1, <1>4, <1>5 DEF EndInv, Segment, FIRST_BUNDLE_SEG, SECOND_BUNDLE_SEG
<1>9. ASSUME NEW seg \in Segment, seg # SegmentOf(baseaddr) PROVE Keeps(seg)
  <2>1. \A c \in Addr : SegmentOf(c) = seg => flash'[c] = flash[c]
    BY <1>6, <1>9
  <2>2. \A c \in Addr : SegmentOf(c) = seg => (c \in whole' <=> c \in whole)
    BY <1>2, <1>9
  <2> QED
    BY <1>1, <2>1, <2>2, SameKeeps
<1>10. whole' \subseteq Addr
  BY <1>1, <1>2
<1> QED
  BY <1>6, <1>7, <1>8, <1>9, <1>10

\* A bundle written to the first segment.
LEMMA WrittenFirst ==
    ASSUME WholeIInv, WriteHeader \/ WriteData \/ WriteMagic, SegmentOf(baseaddr) = 0
    PROVE  FirstInv' /\ (mode' = "write" /\ ~marked(0)' => Underway(0)')
<1>1. /\ StackSize # {} /\ FIRST_BUNDLE_SEG = 0 /\ SECOND_BUNDLE_SEG = SegSize /\ SegSize \in Nat /\ 0 # SegSize /\ SegSize >= 3
      /\ 0 \in Segment /\ flash \in [Addr -> Word] /\ TypeOK /\ RoomInv /\ FirstInv /\ WriteInv
      /\ stack \in StackSize
  BY WholeFacts DEF TypeOK
<1> SUFFICES ASSUME ~marked(0)' PROVE FirstInv' /\ (mode' = "write" => Underway(0)')
  BY <1>1 DEF FirstInv
<1>2. ~marked(0) /\ mode = "write" /\ stack' = stack /\ baseaddr' = baseaddr
  BY <1>1, Written, WrittenMarks
<1>3. Underway(0) /\ baseaddr = 0 /\ 0 \notin whole
  BY <1>1, <1>2 DEF WriteInv, Underway
<1>4. /\ BundleSize \in Nat /\ BundleSize >= 3 /\ BundleSize <= SegSize /\ cursor \in Nat
      /\ BundleSize = Registers + stack + GlobalSize + 2 /\ BundleSize' = BundleSize
  BY <1>1, <1>2, BundleSizes DEF BundleSize
<1>5. /\ \A c \in 0..(0 + SegSize - 1) : c \in Addr
      /\ <<stack, TornSize>> \in Header /\ <<stack, GlobalSize>> \in Header
      /\ Size(<<stack, GlobalSize>>) = BundleSize
      /\ Size(<<stack, TornSize>>) \in Nat /\ Size(<<stack, TornSize>>) >= 3
  <2>1. \A c \in 0..(0 + SegSize - 1) : c \in Addr
    BY <1>1, Segments
  <2>2. <<stack, TornSize>> \in Header /\ <<stack, GlobalSize>> \in Header
    BY <1>1 DEF Header
  <2>3. Size(<<stack, GlobalSize>>) = Registers + stack + GlobalSize + 2
    <3>1. Size(<<stack, GlobalSize>>) = Registers + <<stack, GlobalSize>>[1] + <<stack, GlobalSize>>[2] + 2
      BY <1>1, <2>2, SizeIs
    <3> QED
      BY <3>1
  <2>4. Size(<<stack, TornSize>>) \in Nat /\ Size(<<stack, TornSize>>) >= Registers + 2 /\ Registers \in Nat /\ Registers >= 1
    BY <1>1, SizeIs, FlashIs
  <2> QED
    BY <1>4, <2>1, <2>2, <2>3, <2>4
\* It is enough to look at the words of the segment.
<1>6. ASSUME flash'[0] \in Header, \A c \in Size(flash'[0])..(0 + SegSize - 1) : flash'[c] = Blank,
             0 \in whole' \/ \A c \in 0..(SegSize - 1) : flash'[c] # Magic
      PROVE  FirstInv'
  BY <1>1, <1>6, Words DEF FirstInv, BlankFrom
<1>7. PICK a \in Addr : /\ \A c \in Addr : c # a => flash'[c] = flash[c]
                        /\ \/ /\ a = baseaddr /\ cursor \in 0..1 /\ cursor' = cursor + 1 /\ mode' = mode /\ whole' = whole
                              /\ (cursor = 0 /\ flash[a] = Blank => flash'[a] = <<stack, TornSize>>)
                              /\ (cursor = 1 /\ flash[a] = <<stack, TornSize>> => flash'[a] = <<stack, GlobalSize>>)
                           \/ /\ a \in (baseaddr + 1)..(baseaddr + BundleSize - 1)
                              /\ cursor > 1 /\ cursor' = cursor + 1 /\ mode' = mode /\ whole' = whole
                              /\ (flash[a] \in {Blank, Data} => flash'[a] = Data)
                           \/ /\ a \in (baseaddr + 1)..(baseaddr + BundleSize - 1)
                              /\ cursor > 1 /\ cursor' = 0 /\ whole' = whole \cup {baseaddr}
                              /\ mode' = (IF baseaddr \in Segment /\ ~segment_is_empty(flash, Other(baseaddr)) THEN "supersede" ELSE "run")
                              /\ (flash[a] \in {Blank, Data} => flash'[a] \in {Magic, Data})
  BY Written
<1>8. CASE cursor = 0
  <2>1. a = 0 /\ mode' = mode /\ whole' = whole /\ cursor' = 1
    BY <1>3, <1>7, <1>8
  <2>2. \A c \in 0..(0 + SegSize - 1) : flash[c] = Blank
    BY <1>3, <1>8 DEF Underway, BlankFrom
  <2>3. flash'[0] = <<stack, TornSize>>
    BY <1>1, <1>3, <1>7, <1>8, <2>1, <2>2
  <2>4. \A c \in 1..(0 + SegSize - 1) : flash'[c] = Blank
    BY <1>1, <1>5, <1>7, <2>1, <2>2
  <2>5. FirstInv'
    <3>1. \A c \in Size(flash'[0])..(0 + SegSize - 1) : flash'[c] = Blank
      BY <1>1, <1>5, <2>3, <2>4
    <3>2. \A c \in 0..(SegSize - 1) : flash'[c] # Magic
      BY <1>1, <1>5, <2>3, <2>4, Words
    <3> QED
      BY <1>5, <1>6, <2>3, <3>1, <3>2
  <2>6. Underway(0)'
    BY <1>1, <1>2, <1>3, <2>1, <2>3, <2>4 DEF Underway, BlankFrom
  <2> QED
    BY <2>5, <2>6
<1>9. CASE cursor = 1
  <2>1. a = 0 /\ mode' = mode /\ whole' = whole /\ cursor' = 2
    BY <1>3, <1>7, <1>9
  <2>2. flash[0] = <<stack, TornSize>> /\ \A c \in 1..(0 + SegSize - 1) : flash[c] = Blank
    BY <1>3, <1>9 DEF Underway, BlankFrom
  <2>3. flash'[0] = <<stack, GlobalSize>>
    BY <1>1, <1>3, <1>7, <1>9, <2>1, <2>2
  <2>4. \A c \in 1..(0 + SegSize - 1) : flash'[c] = Blank
    BY <1>1, <1>5, <1>7, <2>1, <2>2
  <2>5. FirstInv'
    <3>1. \A c \in Size(flash'[0])..(0 + SegSize - 1) : flash'[c] = Blank
      BY <1>1, <1>4, <1>5, <2>3, <2>4
    <3>2. \A c \in 0..(SegSize - 1) : flash'[c] # Magic
      BY <1>1, <1>5, <2>3, <2>4, Words
    <3> QED
      BY <1>5, <1>6, <2>3, <3>1, <3>2
  <2>6. \A c \in BundleSize..(0 + SegSize - 1) : flash'[c] = Blank
    BY <1>1, <1>4, <2>4
  <2>7. Underway(0)'
    BY <1>1, <1>2, <1>3, <1>4, <2>1, <2>3, <2>4, <2>6 DEF Underway, BlankFrom
  <2> QED
    BY <2>5, <2>7
<1>10. CASE cursor > 1
  <2>1. a \in 1..(BundleSize - 1) /\ a # 0
    BY <1>1, <1>3, <1>4, <1>7, <1>10
  <2>2. /\ flash[0] = <<stack, GlobalSize>>
        /\ \A c \in BundleSize..(0 + SegSize - 1) : flash[c] = Blank
        /\ \A c \in 1..(0 + SegSize - 1) : flash[c] \in {Blank, Data}
    BY <1>1, <1>3, <1>4, <1>10 DEF Underway, BlankFrom
  <2>3. flash'[0] = <<stack, GlobalSize>>
    BY <1>1, <1>7, <2>1, <2>2, Segments
  <2>4. \A c \in BundleSize..(0 + SegSize - 1) : flash'[c] = Blank
    <3>1. \A c \in BundleSize..(0 + SegSize - 1) : c \in Addr /\ c # a
      BY <1>1, <1>4, <1>5, <2>1
    <3> QED
      BY <1>7, <2>2, <3>1
  <2>5. flash[a] \in {Blank, Data}
    BY <1>1, <1>4, <2>1, <2>2
  <2>6. \A c \in Size(flash'[0])..(0 + SegSize - 1) : flash'[c] = Blank
    BY <1>5, <2>3, <2>4
  <2>7. CASE whole' = whole \cup {baseaddr} /\ mode' # "write"
    BY <1>3, <1>5, <1>6, <2>3, <2>6, <2>7
  <2>8. CASE cursor' = cursor + 1 /\ mode' = mode /\ whole' = whole /\ flash'[a] = Data
    <3>1. \A c \in 1..(0 + SegSize - 1) : flash'[c] \in {Blank, Data}
      BY <1>1, <1>5, <1>7, <2>2, <2>8
    <3>2. \A c \in 0..(SegSize - 1) : flash'[c] # Magic
      BY <1>1, <1>5, <2>3, <3>1, Words
    <3>3. FirstInv'
      BY <1>5, <1>6, <2>3, <2>6, <3>2
    <3>4. Underway(0)'
      BY <1>1, <1>2, <1>3, <1>4, <1>10, <2>3, <2>4, <2>8, <3>1 DEF Underway, BlankFrom
    <3> QED
      BY <3>3, <3>4
  <2> QED
    BY <1>7, <1>10, <2>5, <2>7, <2>8
<1> QED
  BY <1>4, <1>8, <1>9, <1>10


\* What the second segment holds while a bundle is written to it: whole
\* bundles, each of which ends where the next one begins, and the bundle
\* underway behind them.
LEMMA SecondWas ==
    ASSUME WholeIInv, mode = "write", SegmentOf(baseaddr) = SegSize, ~marked(SegSize)
    PROVE  /\ baseaddr \in SegSize..(FlashEnd - 1) /\ baseaddr \notin whole
           /\ baseaddr = SegSize \/ baseaddr = SegSize + STRIDE \/ (baseaddr >= SegSize + STRIDE /\ flash[SegSize] # Blank)
           /\ Underway(SegSize)
           /\ \A c \in SegSize..(FlashEnd - 1) : c > baseaddr => flash[c] \in {Blank, Data}
           /\ \A h : IsHeader(h) => h <= baseaddr
           /\ flash[SegSize] # Blank =>
                 \A h : IsHeader(h) /\ h < baseaddr =>
                    /\ h \in whole /\ h + Size(flash[h]) \in Nat /\ h + Size(flash[h]) <= baseaddr
                    /\ h + Size(flash[h]) = baseaddr \/ IsHeader(h + Size(flash[h]))
                    /\ \A g : IsHeader(g) /\ g > h => h + Size(flash[h]) <= g
<1>1. /\ StackSize # {} /\ SECOND_BUNDLE_SEG = SegSize /\ SegSize \in Nat /\ SegSize >= 3 /\ 0 # SegSize
      /\ FlashEnd = SegSize + SegSize /\ STRIDE = Registers + 1 /\ Registers \in Nat /\ Registers >= 1
      /\ SegSize \in Segment /\ flash \in [Addr -> Word] /\ TypeOK /\ RoomInv /\ SecondInv /\ WriteInv /\ CutInv
  BY WholeFacts, FlashIs
<1>2. baseaddr \in Addr /\ baseaddr \in SegSize..(FlashEnd - 1) /\ baseaddr \in Nat
  BY <1>1, AddrIs DEF RoomInv
<1>3. Underway(SegSize)
  BY <1>1 DEF WriteInv
<1>4. /\ BundleSize \in Nat /\ BundleSize >= 3 /\ cursor \in Nat
  BY <1>1, BundleSizes
<1>5. \A c \in SegSize..(FlashEnd - 1) : c > baseaddr => flash[c] \in {Blank, Data}
  <2> SUFFICES ASSUME NEW c \in SegSize..(FlashEnd - 1), c > baseaddr PROVE flash[c] \in {Blank, Data}
    OBVIOUS
  <2>1. c \in baseaddr..(SegSize + SegSize - 1) /\ c \in (baseaddr + 1)..(SegSize + SegSize - 1)
    BY <1>1, <1>2
  <2>2. cursor = 0 \/ cursor = 1 \/ cursor > 1
    BY <1>4
  <2> QED
    BY <1>3, <2>1, <2>2 DEF Underway, BlankFrom
<1>6. ASSUME NEW h, IsHeader(h) PROVE h <= baseaddr /\ h \in Nat
  <2>1. h \in SegSize..(FlashEnd - 1) /\ flash[h] \notin {Blank, Data}
    BY <1>1, <1>6, Words DEF IsHeader
  <2> QED
    BY <1>1, <1>2, <1>5, <2>1
<1>7. baseaddr = SegSize \/ baseaddr = SegSize + STRIDE \/ (baseaddr >= SegSize + STRIDE /\ flash[SegSize] # Blank)
  BY <1>1, <1>3 DEF Underway
<1>8. ASSUME flash[SegSize] # Blank, NEW h, IsHeader(h), h < baseaddr
      PROVE  /\ h \in whole /\ h + Size(flash[h]) \in Nat /\ h + Size(flash[h]) <= baseaddr
             /\ h + Size(flash[h]) = baseaddr \/ IsHeader(h + Size(flash[h]))
             /\ \A g : IsHeader(g) /\ g > h => h + Size(flash[h]) <= g
  <2>1. NoneCut
    BY <1>1, <1>8 DEF CutInv, Running
  <2>2. h \in SegSize..(FlashEnd - 1) /\ h \in Nat /\ h # baseaddr
    BY <1>1, <1>2, <1>6, <1>8 DEF IsHeader
  <2>3. h \in whole
    BY <1>1, <1>8, <2>1, <2>2 DEF NoneCut
  <2>4. Chained(h)
    BY <1>1, <1>8, <2>2, <2>3 DEF SecondInv
  <2> DEFINE n == h + Size(flash[h])
  <2>5. n \in Nat /\ n > h
    BY <1>1, <2>2, SizeIs
  <2>6. /\ n < FlashEnd => flash[n] \in Header \/ BlankFrom(n, SegSize)
        /\ \A g : IsHeader(g) /\ g > h => n <= g
    <3>1. /\ n < FlashEnd => flash[n] \in Header \/ BlankFrom(n, SegSize)
          /\ \A g \in SegSize..(FlashEnd - 1) : g > h /\ IsHeader(g) => n <= g
      BY <1>1, <2>4 DEF Chained
    <3>2. \A g : IsHeader(g) => g \in SegSize..(FlashEnd - 1)
      BY <1>1 DEF IsHeader
    <3> HIDE DEF n
    <3> QED
      BY <3>1, <3>2
  <2> HIDE DEF n
  <2>7. n <= baseaddr /\ (n = baseaddr \/ IsHeader(n))
    <3>1. CASE cursor = 0
      <4>1. baseaddr # SegSize
        BY <1>1, <1>2, <1>8, <2>2
      <4>2. ~IsBlank(SegSize)
        BY <1>1, <1>8 DEF IsBlank, BlankFrom
      <4>3. EndsAt(baseaddr)
        BY <1>1, <1>3, <3>1, <4>1, <4>2 DEF Underway
      <4>4. n = baseaddr \/ IsHeader(n)
        BY <1>1, <1>8, <2>2, <4>3 DEF EndsAt, n
      <4> QED
        BY <1>2, <1>6, <2>5, <4>4
    <3>2. CASE cursor # 0
      <4>1. flash[baseaddr] \in Header /\ IsHeader(baseaddr)
        <5>1. flash[baseaddr] \in {<<stack, TornSize>>, <<stack, GlobalSize>>}
          BY <1>3, <1>4, <3>2 DEF Underway
        <5>2. stack \in StackSize
          BY <1>1 DEF TypeOK
        <5> QED
          BY <1>1, <1>2, <5>1, <5>2 DEF IsHeader, Header
      <4>2. n <= baseaddr
        BY <1>8, <2>6, <4>1
      <4>3. ASSUME n # baseaddr PROVE IsHeader(n)
        <5>1. n < baseaddr /\ n < FlashEnd /\ n \in SegSize..(FlashEnd - 1) /\ baseaddr \in n..(SegSize + SegSize - 1)
          BY <1>1, <1>2, <2>2, <2>5, <4>2, <4>3
        <5>2. ~BlankFrom(n, SegSize)
          BY <4>1, <5>1, Words DEF BlankFrom
        <5> QED
          BY <1>1, <2>6, <5>1, <5>2 DEF IsHeader
      <4> QED
        BY <4>2, <4>3
    <3> QED
      BY <3>1, <3>2
  <2> QED
    BY <2>3, <2>5, <2>6, <2>7 DEF n
<1> QED
  BY <1>2, <1>3, <1>5, <1>6, <1>7, <1>8 DEF Underway

\* What a step of write_bundle() makes of the second segment.
LEMMA SecondWritten ==
    ASSUME WholeIInv, WriteHeader \/ WriteData \/ WriteMagic, SegmentOf(baseaddr) = SegSize, ~marked(SegSize)
    PROVE  /\ baseaddr' = baseaddr
           /\ \A c \in SegSize..(FlashEnd - 1) : c < baseaddr => flash'[c] = flash[c]
           /\ flash'[baseaddr] \in Header
           /\ \A c \in SegSize..(FlashEnd - 1) : c > baseaddr => flash'[c] \notin Header
           /\ \/ /\ whole' = whole /\ mode' = "write"
                 /\ \A c \in SegSize..(FlashEnd - 1) : c >= baseaddr => flash'[c] # Magic
                 /\ Underway(SegSize)'
              \/ /\ whole' = whole \cup {baseaddr} /\ mode' \in {"run", "supersede"}
                 /\ Size(flash'[baseaddr]) = BundleSize
                 /\ \A c \in (baseaddr + BundleSize)..(FlashEnd - 1) : flash'[c] = Blank
<1>1. /\ StackSize # {} /\ SECOND_BUNDLE_SEG = SegSize /\ SegSize \in Nat /\ SegSize >= 3 /\ 0 # SegSize
      /\ FlashEnd = SegSize + SegSize /\ FIRST_BUNDLE_SEG = 0
      /\ SegSize \in Segment /\ flash \in [Addr -> Word] /\ TypeOK /\ stack \in StackSize
      /\ STRIDE \in Nat /\ STRIDE >= 2
  BY WholeFacts, FlashIs DEF TypeOK
<1>2. mode = "write" /\ stack' = stack /\ baseaddr' = baseaddr
  BY Written
<1>3. /\ baseaddr \in SegSize..(FlashEnd - 1) /\ baseaddr \notin whole /\ baseaddr \in Nat
      /\ baseaddr = SegSize \/ baseaddr = SegSize + STRIDE \/ (baseaddr >= SegSize + STRIDE /\ flash[SegSize] # Blank)
      /\ Underway(SegSize)
      /\ \A c \in SegSize..(FlashEnd - 1) : c > baseaddr => flash[c] \in {Blank, Data}
  BY <1>1, <1>2, SecondWas
<1>4. /\ BundleSize \in Nat /\ BundleSize >= 3 /\ cursor \in Nat /\ BundleSize' = BundleSize
      /\ BundleSize = Registers + stack + GlobalSize + 2
      /\ baseaddr + BundleSize <= FlashEnd
  BY <1>1, <1>2, <1>3, BundleSizes, WholeFacts DEF BundleSize, RoomInv, BundleInSegment
<1>5. /\ \A c \in SegSize..(FlashEnd - 1) : c \in Addr
      /\ <<stack, TornSize>> \in Header /\ <<stack, GlobalSize>> \in Header
      /\ Size(<<stack, GlobalSize>>) = BundleSize
  <2>1. \A c \in SegSize..(FlashEnd - 1) : c \in Addr
    BY <1>1, Segments
  <2>2. <<stack, TornSize>> \in Header /\ <<stack, GlobalSize>> \in Header
    BY <1>1 DEF Header
  <2>3. Size(<<stack, GlobalSize>>) = Registers + <<stack, GlobalSize>>[1] + <<stack, GlobalSize>>[2] + 2
    BY <1>1, <2>2, SizeIs
  <2>4. Size(<<stack, GlobalSize>>) = Registers + stack + GlobalSize + 2
    BY <2>3
  <2> QED
    BY <1>4, <2>1, <2>2, <2>4
<1>6. PICK a \in Addr : /\ \A c \in Addr : c # a => flash'[c] = flash[c]
                        /\ \/ /\ a = baseaddr /\ cursor \in 0..1 /\ cursor' = cursor + 1 /\ mode' = mode /\ whole' = whole
                              /\ (cursor = 0 /\ flash[a] = Blank => flash'[a] = <<stack, TornSize>>)
                              /\ (cursor = 1 /\ flash[a] = <<stack, TornSize>> => flash'[a] = <<stack, GlobalSize>>)
                           \/ /\ a \in (baseaddr + 1)..(baseaddr + BundleSize - 1)
                              /\ cursor > 1 /\ cursor' = cursor + 1 /\ mode' = mode /\ whole' = whole
                              /\ (flash[a] \in {Blank, Data} => flash'[a] = Data)
                           \/ /\ a \in (baseaddr + 1)..(baseaddr + BundleSize - 1)
                              /\ cursor > 1 /\ cursor' = 0 /\ whole' = whole \cup {baseaddr}
                              /\ mode' = (IF baseaddr \in Segment /\ ~segment_is_empty(flash, Other(baseaddr)) THEN "supersede" ELSE "run")
                              /\ (flash[a] \in {Blank, Data} => flash'[a] \in {Magic, Data})
  BY Written
<1>7. a \in Nat /\ a >= baseaddr
  BY <1>1, <1>3, <1>4, <1>6
<1>8. \A c \in SegSize..(FlashEnd - 1) : c < baseaddr => flash'[c] = flash[c]
  <2> SUFFICES ASSUME NEW c \in SegSize..(FlashEnd - 1), c < baseaddr PROVE flash'[c] = flash[c]
    OBVIOUS
  <2>1. c # a /\ c \in Addr
    BY <1>1, <1>3, <1>5, <1>7
  <2> QED
    BY <1>6, <2>1
\* Where the bundle lies in the segment does not change.
<1>9. /\ \/ baseaddr' = SegSize
         \/ baseaddr' = SegSize + STRIDE
         \/ baseaddr' >= SegSize + STRIDE /\ flash'[SegSize] # Blank
      /\ baseaddr' \notin whole
  <2>1. SegSize \in SegSize..(FlashEnd - 1) /\ (baseaddr >= SegSize + STRIDE => SegSize < baseaddr)
    BY <1>1, <1>3
  <2> QED
    BY <1>2, <1>3, <1>8, <2>1
<1>10. CASE cursor = 0
  <2>1. a = baseaddr /\ mode' = "write" /\ whole' = whole /\ cursor' = 1
    BY <1>2, <1>6, <1>10
  <2>2. \A c \in baseaddr..(SegSize + SegSize - 1) : flash[c] = Blank
    BY <1>3, <1>10 DEF Underway, BlankFrom
  <2>3. flash'[baseaddr] = <<stack, TornSize>>
    BY <1>1, <1>3, <1>6, <1>10, <2>1, <2>2
  <2>4. \A c \in (baseaddr + 1)..(SegSize + SegSize - 1) : flash'[c] = Blank
    <3>1. \A c \in (baseaddr + 1)..(SegSize + SegSize - 1) : c \in baseaddr..(SegSize + SegSize - 1) /\ c # baseaddr /\ c \in Addr
      BY <1>1, <1>3, <1>5
    <3> QED
      BY <1>6, <2>1, <2>2, <3>1
  <2>5. \A c \in SegSize..(FlashEnd - 1) : c > baseaddr => flash'[c] = Blank
    BY <1>1, <1>3, <2>4
  <2>6. Underway(SegSize)'
    BY <1>1, <1>2, <1>9, <2>1, <2>3, <2>4 DEF Underway, BlankFrom
  <2>7. \A c \in SegSize..(FlashEnd - 1) : c >= baseaddr => c = baseaddr \/ c > baseaddr
    BY <1>1, <1>3
  <2> QED
    BY <1>2, <1>5, <1>8, <2>1, <2>3, <2>5, <2>6, <2>7, Words
<1>11. CASE cursor = 1
  <2>1. a = baseaddr /\ mode' = "write" /\ whole' = whole /\ cursor' = 2
    BY <1>2, <1>6, <1>11
  <2>2. /\ flash[baseaddr] = <<stack, TornSize>>
        /\ \A c \in (baseaddr + 1)..(SegSize + SegSize - 1) : flash[c] = Blank
    BY <1>3, <1>11 DEF Underway, BlankFrom
  <2>3. flash'[baseaddr] = <<stack, GlobalSize>>
    BY <1>1, <1>6, <1>11, <2>1, <2>2
  <2>4. \A c \in (baseaddr + 1)..(SegSize + SegSize - 1) : flash'[c] = Blank
    <3>1. \A c \in (baseaddr + 1)..(SegSize + SegSize - 1) : c # baseaddr /\ c \in Addr
      BY <1>1, <1>3, <1>5
    <3> QED
      BY <1>6, <2>1, <2>2, <3>1
  <2>5. \A c \in SegSize..(FlashEnd - 1) : c > baseaddr => flash'[c] = Blank
    BY <1>1, <1>3, <2>4
  <2>6. Underway(SegSize)'
    <3>1. \A c \in (baseaddr + BundleSize)..(SegSize + SegSize - 1) : flash'[c] = Blank
      BY <1>1, <1>3, <1>4, <2>4
    <3> QED
      BY <1>1, <1>2, <1>4, <1>9, <2>1, <2>3, <2>4, <3>1 DEF Underway, BlankFrom
  <2>7. \A c \in SegSize..(FlashEnd - 1) : c >= baseaddr => c = baseaddr \/ c > baseaddr
    BY <1>1, <1>3
  <2> QED
    BY <1>2, <1>5, <1>8, <2>1, <2>3, <2>5, <2>6, <2>7, Words
<1>12. CASE cursor > 1
  <2>1. a \in (baseaddr + 1)..(baseaddr + BundleSize - 1) /\ a # baseaddr /\ a \in SegSize..(FlashEnd - 1) /\ a > baseaddr
    BY <1>1, <1>3, <1>4, <1>6, <1>12
  <2>2. /\ flash[baseaddr] = <<stack, GlobalSize>>
        /\ \A c \in (baseaddr + BundleSize)..(SegSize + SegSize - 1) : flash[c] = Blank
    BY <1>3, <1>4, <1>12 DEF Underway, BlankFrom
  <2>3. flash'[baseaddr] = <<stack, GlobalSize>>
    BY <1>3, <1>5, <1>6, <2>1, <2>2
  <2>4. \A c \in (baseaddr + BundleSize)..(SegSize + SegSize - 1) : flash'[c] = Blank
    <3>1. \A c \in (baseaddr + BundleSize)..(SegSize + SegSize - 1) : c \in Addr /\ c # a
      BY <1>1, <1>3, <1>4, <1>5, <2>1
    <3> QED
      BY <1>6, <2>2, <3>1
  <2>5. flash[a] \in {Blank, Data}
    BY <1>3, <2>1
  <2>6. \A c \in SegSize..(FlashEnd - 1) : c > baseaddr => c = a \/ flash'[c] \in {Blank, Data}
    BY <1>3, <1>5, <1>6
  <2>7. CASE whole' = whole \cup {baseaddr} /\ mode' \in {"run", "supersede"} /\ flash'[a] \in {Magic, Data}
    <3>1. \A c \in SegSize..(FlashEnd - 1) : c > baseaddr => flash'[c] \notin Header
      BY <2>6, <2>7, Words
    <3>2. \A c \in (baseaddr + BundleSize)..(FlashEnd - 1) : flash'[c] = Blank
      BY <1>1, <2>4
    <3> QED
      BY <1>2, <1>5, <1>8, <2>3, <2>7, <3>1, <3>2
  <2>8. CASE cursor' = cursor + 1 /\ mode' = mode /\ whole' = whole /\ flash'[a] = Data
    <3>1. \A c \in SegSize..(FlashEnd - 1) : c > baseaddr => flash'[c] \in {Blank, Data}
      BY <2>6, <2>8
    <3>2. \A c \in (baseaddr + 1)..(SegSize + SegSize - 1) : flash'[c] \in {Blank, Data}
      BY <1>1, <1>3, <3>1
    <3>3. Underway(SegSize)'
      BY <1>1, <1>2, <1>4, <1>9, <1>12, <2>3, <2>4, <2>8, <3>2 DEF Underway, BlankFrom
    <3>4. \A c \in SegSize..(FlashEnd - 1) : c >= baseaddr => c = baseaddr \/ c > baseaddr
      BY <1>1, <1>3
    <3> QED
      BY <1>2, <1>5, <1>8, <2>3, <2>8, <3>1, <3>3, <3>4, Words
  <2> QED
    BY <1>6, <1>12, <2>5, <2>7, <2>8
<1> QED
  BY <1>4, <1>10, <1>11, <1>12

\* A bundle written to the second segment.
LEMMA WrittenSecond ==
    ASSUME WholeIInv, WriteHeader \/ WriteData \/ WriteMagic, SegmentOf(baseaddr) = SegSize, ~marked(SegSize)
    PROVE  /\ SecondInv'
           /\ mode' = "write" => Underway(SegSize)'
           /\ flash'[SegSize] # Blank => NoneCut'
<1>1. /\ StackSize # {} /\ SECOND_BUNDLE_SEG = SegSize /\ SegSize \in Nat /\ SegSize >= 3 /\ 0 # SegSize
      /\ FlashEnd = SegSize + SegSize /\ SegSize \in Segment /\ SecondInv /\ STRIDE \in Nat /\ STRIDE >= 2
  BY WholeFacts, FlashIs
<1>2. mode = "write" /\ whole \subseteq Addr
  BY Written, WholeFacts
<1>3. /\ baseaddr \in SegSize..(FlashEnd - 1) /\ baseaddr \notin whole /\ baseaddr \in Nat
      /\ baseaddr = SegSize \/ baseaddr = SegSize + STRIDE \/ (baseaddr >= SegSize + STRIDE /\ flash[SegSize] # Blank)
  BY <1>1, <1>2, SecondWas
<1>4. \A h : IsHeader(h) => h <= baseaddr
  BY <1>2, SecondWas
<1>5. flash[SegSize] # Blank =>
         \A h : IsHeader(h) /\ h < baseaddr =>
            /\ h \in whole /\ h + Size(flash[h]) \in Nat /\ h + Size(flash[h]) <= baseaddr
            /\ h + Size(flash[h]) = baseaddr \/ IsHeader(h + Size(flash[h]))
            /\ \A g : IsHeader(g) /\ g > h => h + Size(flash[h]) <= g
  BY <1>2, SecondWas
<1>6. /\ baseaddr' = baseaddr
      /\ \A c \in SegSize..(FlashEnd - 1) : c < baseaddr => flash'[c] = flash[c]
      /\ flash'[baseaddr] \in Header
      /\ \A c \in SegSize..(FlashEnd - 1) : c > baseaddr => flash'[c] \notin Header
      /\ \/ /\ whole' = whole /\ mode' = "write"
            /\ \A c \in SegSize..(FlashEnd - 1) : c >= baseaddr => flash'[c] # Magic
            /\ Underway(SegSize)'
         \/ /\ whole' = whole \cup {baseaddr} /\ mode' \in {"run", "supersede"}
            /\ Size(flash'[baseaddr]) = BundleSize
            /\ \A c \in (baseaddr + BundleSize)..(FlashEnd - 1) : flash'[c] = Blank
  BY SecondWritten
<1>7. BundleSize \in Nat /\ BundleSize >= 3 /\ baseaddr + BundleSize <= FlashEnd
  BY <1>1, <1>2, <1>3, BundleSizes, WholeFacts DEF RoomInv, BundleInSegment
\* The headers there are now.
<1>8. ASSUME NEW h \in SegSize..(FlashEnd - 1), flash'[h] \in Header
      PROVE  h = baseaddr \/ (h < baseaddr /\ IsHeader(h) /\ flash'[h] = flash[h])
  BY <1>1, <1>3, <1>6, <1>8 DEF IsHeader
<1>9. SegSize < baseaddr => flash'[SegSize] = flash[SegSize]
  BY <1>1, <1>3, <1>6
<1>10. ~segment_is_empty(flash', SegSize)
  <2>1. CASE baseaddr = SegSize
    BY <1>1, <1>6, <2>1, InUse, Words
  <2>2. CASE baseaddr = SegSize + STRIDE
    <3>1. STRIDE \in 0..(SegSize - 1) /\ STRIDE % STRIDE = 0
      BY <1>1, <1>3, <2>2
    <3> QED
      BY <1>6, <2>2, <3>1, Words DEF segment_is_empty
  <2>3. CASE baseaddr >= SegSize + STRIDE /\ flash[SegSize] # Blank
    BY <1>1, <1>3, <1>9, <2>3, InUse
  <2> QED
    BY <1>3, <2>1, <2>2, <2>3
<1>11. /\ flash'[SegSize] \in {Blank} \cup Header
       /\ flash'[SegSize + 1] \notin Header
  <2>1. flash[SegSize] \in {Blank} \cup Header /\ flash[SegSize + 1] \notin Header
    BY <1>1 DEF SecondInv
  <2>2. SegSize + 1 \in SegSize..(FlashEnd - 1)
    BY <1>1
  <2>3. CASE baseaddr = SegSize
    BY <1>1, <1>6, <2>2, <2>3
  <2>4. CASE baseaddr >= SegSize + STRIDE
    BY <1>1, <1>3, <1>6, <1>9, <2>1, <2>2, <2>4
  <2> QED
    BY <1>1, <1>3, <2>3, <2>4
<1>12. \A b \in whole' : b >= SegSize => flash'[b] \in Header
  <2> SUFFICES ASSUME NEW b \in whole, b >= SegSize, b # baseaddr PROVE flash'[b] \in Header
    BY <1>6
  <2>1. flash[b] \in Header /\ b \in SegSize..(FlashEnd - 1)
    BY <1>1, <1>2, FlashIs DEF SecondInv
  <2>2. b < baseaddr
    BY <1>1, <1>3, <1>4, <2>1 DEF IsHeader
  <2> QED
    BY <1>6, <2>1, <2>2
\* The bundles before the one underway.
<1>13. ASSUME NEW h \in SegSize..(FlashEnd - 1), IsHeader(h), h < baseaddr, flash'[h] = flash[h]
       PROVE  flash[SegSize] # Blank \/ flash'[SegSize] = Blank
  BY <1>1, <1>3, <1>9, <1>13
<1>14. ASSUME flash'[SegSize] # Blank, NEW h \in SegSize..(FlashEnd - 1), IsHeader(h), h < baseaddr, flash'[h] = flash[h]
       PROVE  h \in whole /\ Chained(h)'
  <2> DEFINE n == h + Size(flash[h])
  <2>1. /\ h \in whole /\ n \in Nat /\ n <= baseaddr /\ (n = baseaddr \/ IsHeader(n))
        /\ \A g : IsHeader(g) /\ g > h => n <= g
    BY <1>5, <1>13, <1>14
  <2>2. n = h + Size(flash'[h])
    BY <1>14
  <2> HIDE DEF n
  <2>3. n <= FlashEnd
    BY <1>1, <1>3, <2>1
  <2>4. flash'[n] \in Header
    <3>1. CASE n = baseaddr
      BY <1>6, <3>1
    <3>2. CASE n # baseaddr
      <4>1. IsHeader(n) /\ n < baseaddr /\ n \in SegSize..(FlashEnd - 1) /\ flash[n] \in Header
        BY <1>1, <1>3, <2>1, <3>2 DEF IsHeader
      <4> QED
        BY <1>6, <4>1
    <3> QED
      BY <3>1, <3>2
  <2>5. ASSUME NEW g \in SegSize..(FlashEnd - 1), g > h, flash'[g] \in Header PROVE n <= g
    BY <1>8, <2>1, <2>5
  <2> QED
    BY <1>1, <2>1, <2>2, <2>3, <2>4, <2>5 DEF Chained, IsHeader
\* The bundle underway.
<1>15. CASE baseaddr \in whole'
  <2>1. /\ Size(flash'[baseaddr]) = BundleSize
        /\ \A c \in (baseaddr + BundleSize)..(FlashEnd - 1) : flash'[c] = Blank
        /\ whole' = whole \cup {baseaddr} /\ mode' # "write"
    BY <1>3, <1>6, <1>15
  <2> DEFINE n == baseaddr + BundleSize
  <2>2. n \in Nat /\ n <= FlashEnd /\ n = baseaddr + Size(flash'[baseaddr])
    BY <1>3, <1>7, <2>1
  <2>3. \A c \in n..(SegSize + SegSize - 1) : flash'[c] = Blank
    BY <1>1, <2>1
  <2> HIDE DEF n
  <2>4. ASSUME NEW h, h = baseaddr PROVE Chained(h)'
    <3>1. n = h + Size(flash'[h])
      BY <2>2, <2>4
    <3>2. \A g \in SegSize..(FlashEnd - 1) : ~(g > h /\ flash'[g] \in Header)
      BY <1>6, <2>4
    <3> QED
      BY <1>1, <2>2, <2>3, <3>1, <3>2 DEF Chained, IsHeader, BlankFrom
  <2>5. SecondInv'
    <3>1. ASSUME flash'[SegSize] # Blank, NEW h \in SegSize..(FlashEnd - 1), flash'[h] \in Header
          PROVE  h \in whole' /\ Chained(h)'
      BY <1>8, <1>14, <2>1, <2>4, <3>1
    <3> QED
      BY <1>1, <1>10, <1>11, <1>12, <3>1 DEF SecondInv, IsHeader
  <2>6. flash'[SegSize] # Blank => NoneCut'
    BY <1>1, <1>8, <1>14, <2>1 DEF NoneCut, IsHeader
  <2> QED
    BY <2>1, <2>5, <2>6
<1>16. CASE baseaddr \notin whole'
  <2>1. /\ \A c \in SegSize..(FlashEnd - 1) : c >= baseaddr => flash'[c] # Magic
        /\ whole' = whole /\ mode' = "write" /\ Underway(SegSize)'
    BY <1>6, <1>16
  <2>2. SecondInv'
    <3>1. ASSUME flash'[SegSize] # Blank, NEW h \in SegSize..(FlashEnd - 1), flash'[h] \in Header, h \in whole'
          PROVE  Chained(h)'
      BY <1>8, <1>14, <1>16, <3>1
    <3>2. ASSUME flash'[SegSize] # Blank, NEW h \in SegSize..(FlashEnd - 1), flash'[h] \in Header, h \notin whole'
          PROVE  \A a \in h..(FlashEnd - 1) : flash'[a] # Magic
      <4>1. h = baseaddr
        BY <1>8, <1>14, <2>1, <3>2
      <4>2. \A a \in baseaddr..(FlashEnd - 1) : a \in SegSize..(FlashEnd - 1) /\ a >= baseaddr
        BY <1>1, <1>3
      <4> QED
        BY <2>1, <4>1, <4>2
    <3> QED
      BY <1>1, <1>10, <1>11, <1>12, <3>1, <3>2 DEF SecondInv, IsHeader
  <2>3. flash'[SegSize] # Blank => NoneCut'
    BY <1>1, <1>6, <1>8, <1>14, <2>1 DEF NoneCut, IsHeader
  <2> QED
    BY <2>1, <2>2, <2>3
<1> QED
  BY <1>15, <1>16

\* Writing a bundle.
LEMMA WholeWritten ==
    ASSUME WholeIInv, WriteHeader \/ WriteData \/ WriteMagic
    PROVE  WholeInv'
<1>1. /\ StackSize # {} /\ FIRST_BUNDLE_SEG = 0 /\ SECOND_BUNDLE_SEG = SegSize /\ SegSize \in Nat /\ SegSize >= 3 /\ 0 # SegSize
      /\ 0 \in Segment /\ SegSize \in Segment /\ Segment = {0, SegSize} /\ Other(0) = SegSize /\ Other(SegSize) = 0
      /\ flash \in [Addr -> Word] /\ whole \subseteq Addr
      /\ TypeOK /\ RoomInv /\ FirstInv /\ SecondInv /\ WriteInv /\ CutInv
  BY WholeFacts
<1>2. mode = "write" /\ baseaddr \in Addr /\ baseaddr' = baseaddr
  BY Written
<1>3. \/ mode' = "write"
      \/ /\ cursor' = 0
         /\ mode' = (IF baseaddr \in Segment /\ ~segment_is_empty(flash, Other(baseaddr)) THEN "supersede" ELSE "run")
  BY <1>2, Written
<1>4. /\ \A seg \in Segment : marked(seg)' <=> marked(seg)
      /\ EndInv'
      /\ \A c \in Addr : SegmentOf(c) # SegmentOf(baseaddr) => flash'[c] = flash[c]
      /\ \A seg \in Segment : seg # SegmentOf(baseaddr) => Keeps(seg)
      /\ whole' \subseteq Addr
  BY WrittenMarks
<1>5. (SegmentOf(baseaddr) = 0 \/ SegmentOf(baseaddr) = SegSize) /\ (SegmentOf(baseaddr))' = SegmentOf(baseaddr)
  BY <1>1, <1>2, AddrIs DEF SegmentOf
<1>6. FoundIsWhole' /\ mode' \in {"write", "supersede", "run"}
  BY <1>3 DEF FoundIsWhole
<1>7. MarkInv'
  <2> SUFFICES ASSUME mode' = "supersede" PROVE ~segment_is_empty(flash', Other(baseaddr)) /\ cursor' # 1
    BY <1>2, <1>4 DEF MarkInv, Other
  <2>1. cursor' = 0 /\ baseaddr \in Segment /\ ~segment_is_empty(flash, Other(baseaddr))
    BY <1>3
  <2>2. Other(baseaddr) \in Segment /\ Other(baseaddr) # SegmentOf(baseaddr)
    <3>1. SegmentOf(baseaddr) = baseaddr /\ (baseaddr = 0 \/ baseaddr = SegSize)
      BY <1>1, <2>1, Segments
    <3> QED
      BY <1>1, <3>1
  <2>3. segment_is_empty(flash', Other(baseaddr)) => segment_is_empty(flash, Other(baseaddr))
    BY <1>4, <2>2 DEF Keeps
  <2> QED
    BY <2>1, <2>3
<1>8. CASE SegmentOf(baseaddr) = 0
  <2>1. FirstInv' /\ (mode' = "write" /\ ~marked(0)' => Underway(0)')
    BY <1>8, WrittenFirst
  <2>2. Keeps(SegSize) /\ SecondInv'
    BY <1>1, <1>4, <1>8, SecondStays
  <2>3. WriteInv'
    BY <1>1, <1>5, <1>8, <2>1 DEF WriteInv
  <2>4. \A c \in SegSize..(SegSize + SegSize - 1) : c \in Addr /\ flash'[c] = flash[c]
    <3>1. \A c \in SegSize..(SegSize + SegSize - 1) : c \in Addr /\ SegmentOf(c) = SegSize
      BY <1>1, Segments
    <3> QED
      BY <1>1, <1>4, <1>8, <3>1
  <2>5. CutInv'
    <3> SUFFICES ASSUME ~marked(SegSize)', flash'[SegSize] # Blank PROVE NoneCut'
      BY <1>1, <1>6 DEF CutInv
    <3>1. ~marked(SegSize) /\ flash[SegSize] # Blank
      BY <1>1, <1>4, <2>4
    <3>2. NoneCut
      BY <1>1, <1>2, <3>1 DEF CutInv, Running
    <3>3. baseaddr \in Nat /\ baseaddr < SegSize
      BY <1>1, <1>2, <1>8, AddrIs
    <3> QED
      BY <1>1, <2>2, <3>2, <3>3, CutStays
  <2>6. SupersedeInv'
    <3> SUFFICES ASSUME mode' = "run", ~marked(0)', ~marked(SegSize)' PROVE IsBlank(SegSize)'
      BY <1>1 DEF SupersedeInv
    <3>1. baseaddr = 0
      BY <1>1, <1>2, <1>4, <1>8 DEF WriteInv, Underway
    <3>2. segment_is_empty(flash, SegSize) /\ ~marked(SegSize)
      BY <1>1, <1>3, <1>4, <3>1
    <3>3. IsBlank(SegSize)
      BY <1>1, <3>2 DEF SecondInv
    <3> QED
      BY <2>4, <3>3 DEF IsBlank, BlankFrom
  <2> QED
    BY <1>6, <1>7, <2>1, <2>2, <2>3, <2>5, <2>6 DEF WholeInv
<1>9. CASE SegmentOf(baseaddr) = SegSize
  <2>1. Keeps(0) /\ FirstInv'
    BY <1>1, <1>4, <1>9, FirstStays
  <2>2. ASSUME ~marked(SegSize)'
        PROVE  /\ SecondInv'
               /\ mode' = "write" => Underway(SegSize)'
               /\ flash'[SegSize] # Blank => NoneCut'
    BY <1>1, <1>4, <1>9, <2>2, WrittenSecond
  <2>3. SecondInv'
    BY <1>1, <2>2 DEF SecondInv
  <2>4. marked(0)' \/ IsBlank(0)'
    <3>1. marked(0) \/ IsBlank(0)
      BY <1>1, <1>2, <1>9 DEF WriteInv
    <3>2. \A c \in 0..(0 + SegSize - 1) : flash'[c] = flash[c]
      <4>1. \A c \in 0..(0 + SegSize - 1) : c \in Addr /\ SegmentOf(c) = 0
        BY <1>1, Segments
      <4> QED
        BY <1>1, <1>4, <1>9, <4>1
    <3> QED
      BY <1>1, <1>4, <3>1, <3>2 DEF IsBlank, BlankFrom
  <2>5. WriteInv'
    BY <1>1, <1>5, <1>9, <2>2, <2>4 DEF WriteInv
  <2>6. CutInv'
    BY <1>1, <1>6, <2>2 DEF CutInv
  <2>7. SupersedeInv'
    <3>1. IsBlank(0)' => flash'[0] = Blank
      BY <1>1 DEF IsBlank, BlankFrom
    <3> QED
      BY <1>1, <2>4, <3>1 DEF SupersedeInv
  <2> QED
    BY <1>6, <1>7, <2>1, <2>3, <2>5, <2>6, <2>7 DEF WholeInv
<1> QED
  BY <1>5, <1>8, <1>9

\* In the beginning there is no bundle.
LEMMA WholeStart == Init => WholeInv
<1> SUFFICES ASSUME Init PROVE WholeInv
  OBVIOUS
<1>1. /\ flash = [a \in Addr |-> Blank] /\ mode = "off" /\ whole = {} /\ StackSize # {}
  BY DEF Init
<1>2. /\ FIRST_BUNDLE_SEG = 0 /\ SECOND_BUNDLE_SEG = SegSize /\ SegSize \in Nat /\ SegSize >= 3
      /\ FlashEnd = SegSize + SegSize
  BY <1>1, FlashIs
<1>3. \A a \in Addr : flash[a] = Blank
  BY <1>1
<1>4. \A seg \in Segment : /\ seg + 1 \in Addr /\ seg + SegSize - 1 \in Addr
                           /\ \A c \in seg..(seg + SegSize - 1) : c \in Addr
  BY <1>1, Segments
<1>5. \A seg \in Segment : ~marked(seg) /\ IsBlank(seg)
  BY <1>3, <1>4, Words DEF marked, segment_marked_erase, IsBlank, BlankFrom
<1>6. MarkInv
  BY <1>1, <1>3, <1>4, Words DEF MarkInv, EndInv
<1>7. FirstInv
  <2>1. \A a \in 0..(SegSize - 1) : a \in Addr
    BY <1>2, FlashIs, <1>1
  <2> QED
    BY <1>1, <1>2, <1>3, <2>1, Words DEF FirstInv
<1>8. SecondInv
  <2>1. SegSize \in Addr /\ SegSize + 1 \in Addr /\ SegSize \in Segment
    BY <1>1, <1>2, Segments
  <2> QED
    BY <1>1, <1>2, <1>3, <1>5, <2>1, Words DEF SecondInv
<1>9. WriteInv /\ SupersedeInv /\ FoundIsWhole
  BY <1>1 DEF WriteInv, SupersedeInv, FoundIsWhole
<1>10. CutInv
  <2>1. SegSize \in Addr
    BY <1>1, <1>2, Segments
  <2> QED
    BY <1>1, <1>2, <1>3, <2>1 DEF CutInv
<1> QED
  BY <1>6, <1>7, <1>8, <1>9, <1>10 DEF WholeInv

\* Every step keeps what is known of the bundles.
LEMMA WholeStep == TornFits /\ WholeIInv /\ [Next]_vars => WholeIInv'
<1> SUFFICES ASSUME TornFits, WholeIInv, [Next]_vars PROVE WholeIInv'
  OBVIOUS
<1>1. RoomIInv /\ WholeInv
  BY DEF WholeIInv
<1>2. RoomIInv'
  BY <1>1, RoomStep
<1>3. WholeInv'
  <2>1. CASE Checkpoint
    BY <2>1, WholeCheckpoint
  <2>2. ASSUME NEW seg \in Segment, MakeRoom(seg) PROVE WholeInv'
    BY <2>2, WholeRoom
  <2>3. CASE WriteHeader \/ WriteData \/ WriteMagic
    BY <2>3, WholeWritten
  <2>4. CASE MarkSuperseded
    BY <1>1, <2>4, WholeSuperseded
  <2>5. CASE CleanFirst \/ CleanSecond
    BY <2>5, WholeCleanup
  <2>6. CASE Find
    BY <1>1, <2>6, WholeFind
  <2>7. CASE Restore
    BY <2>7, WholeRestore
  <2>8. CASE PowerFail \/ TornSearch
    BY <2>8, WholePower
  <2>9. CASE UNCHANGED vars
    <3>1. /\ flash' = flash /\ mode' = mode /\ baseaddr' = baseaddr /\ stack' = stack /\ cursor' = cursor /\ whole' = whole
      BY <2>9 DEF vars
    <3>2. /\ MarkInv' /\ FirstInv' /\ FoundIsWhole' /\ SupersedeInv'
      BY <1>1, <3>1 DEF WholeInv, MarkInv, EndInv, FirstInv, FoundIsWhole, SupersedeInv, marked, IsBlank, BlankFrom
    <3>3. SecondInv'
      BY <1>1, <3>1 DEF WholeInv, SecondInv, marked, IsBlank, BlankFrom, IsHeader, Chained
    <3>4. WriteInv'
      BY <1>1, <3>1 DEF WholeInv, WriteInv, marked, IsBlank, BlankFrom, Underway, IsHeader, EndsAt, BundleSize
    <3>5. CutInv'
      BY <1>1, <3>1 DEF WholeInv, CutInv, marked, IsBlank, BlankFrom, NoneCut, IsHeader, Running
    <3> QED
      BY <3>2, <3>3, <3>4, <3>5 DEF WholeInv
  <2> QED
    BY <2>1, <2>2, <2>3, <2>4, <2>5, <2>6, <2>7, <2>8, <2>9 DEF Next
<1> QED
  BY <1>2, <1>3 DEF WholeIInv

\* What is restored at boot is a bundle that was completed, whatever the power
\* failures have left half-written: FoundIsWhole.  Only the size a header shows
\* half-way must not reach over the end of a segment, which mementos_flash.c
\* does not check.
THEOREM FoundBundlesAreWhole == TornFits => (Spec => []FoundIsWhole)
<1> SUFFICES ASSUME TornFits PROVE Spec => []FoundIsWhole
  OBVIOUS
<1>1. Init => WholeIInv
  BY RoomStart, WholeStart DEF WholeIInv
<1>2. WholeIInv /\ [Next]_vars => WholeIInv'
  BY WholeStep
<1>3. WholeIInv => FoundIsWhole
  BY DEF WholeIInv, WholeInv
<1> QED
  BY <1>1, <1>2, <1>3, PTL DEF Spec
=============================================================================
