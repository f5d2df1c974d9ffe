-------------------------------- MODULE Dino --------------------------------
(***************************************************************************)
(* An application on DINO: code between task boundaries, each of which is  *)
(* a checkpoint of the volatile state, under power failures between any    *)
(* two stores to non-volatile memory.  After a failure the program goes on *)
(* from its last boundary (MementosFram shows that), with the volatile     *)
(* state as it was but the non-volatile memory as the failure left it.     *)
(* Variables that are read before they are written need copies, taken      *)
(* before the boundary and put back after it when there has been a         *)
(* failure.  Which ones have copies is for the programmer to get right.    *)
(***************************************************************************)
EXTENDS Naturals, SequencesExt

CONSTANTS
    Program,                \* the programs of an instance
    Start(_),               \* a program's state before its first boundary: at, vol, nv
    Segment(_, _, _, _, _), \* what a program does from a boundary on, with its locals,
                            \* memory and a random number: the stores it makes, the
                            \* locals at the next boundary, and which one that is
    Versioned(_, _, _),     \* the variables with copies at a boundary, given the locals
    Unrestored(_),          \* the boundaries not followed by a DINO_MANUAL_RESTORE_...
    Random(_, _)            \* the random numbers a segment may draw

VARIABLES
    program,
    at,         \* the last boundary
    vol,        \* the checkpointed locals
    nv,         \* the non-volatile memory
    copies,     \* the copies taken before the boundary, in the checkpoint too
    restored,   \* __mementos_restored, the recovery bit
    attempt,    \* what is left of the attempt at the segment
    begun       \* the non-volatile memory at the boundary, for the properties

vars == <<program, at, vol, nv, copies, restored, attempt, begun>>

\* Memory m after stores <<variable, value>>.
Stored(m, store) == [m EXCEPT ![store[1]] = store[2]]
Apply(m, stores) == FoldLeft(Stored, m, stores)

\* The stores that put the copies c of the variables vs back.
Reverts(vs, c) == LET order == SetToSeq(vs) IN [i \in DOMAIN order |-> <<order[i], c[order[i]]>>]

\* An attempt that starts with memory m.
Attempts(p, b, locals, m) == {Segment(p, b, locals, m, r) : r \in Random(p, b)}

\* (Bug) The copies stay where they are.
Restarts_Unreverted(p, b, locals, m, c) == Attempts(p, b, locals, m)

\* The same when the recovery bit is set: the macros put the copies c back
\* before anything else.
Restarts(p, b, locals, m, c) ==
    LET reverts == IF b \in Unrestored(p) THEN <<>> ELSE Reverts(Versioned(p, b, locals), c)
    IN  {[a EXCEPT !.stores = reverts \o @] : a \in Attempts(p, b, locals, Apply(m, reverts))}

Init == /\ program \in Program
        /\ at = Start(program).at
        /\ vol = Start(program).vol
        /\ nv = Start(program).nv
        /\ copies = <<>>
        /\ restored = FALSE
        /\ attempt \in Attempts(program, at, vol, nv)
        /\ begun = nv

Store == /\ attempt.stores # <<>>
         /\ nv' = Stored(nv, Head(attempt.stores))
         /\ attempt' = [attempt EXCEPT !.stores = Tail(@)]
         /\ UNCHANGED <<program, at, vol, copies, restored, begun>>

AttemptEnds == attempt.stores = <<>>
Finished == AttemptEnds /\ attempt.next = "exit"

\* DINO_MANUAL_VERSION_... and DINO_TASK_BOUNDARY: the copies are taken, and
\* the checkpoint is, which takes effect as a whole.  The recovery bit, if it
\* is set, is cleared by the first macro that looks at it.
Boundary ==
    /\ AttemptEnds /\ ~Finished
    /\ at' = attempt.next
    /\ vol' = attempt.vol
    /\ copies' = [v \in Versioned(program, at', vol') |-> nv[v]]
    /\ restored' = (restored /\ at \in Unrestored(program))
    /\ attempt' \in IF restored' THEN Restarts(program, at', vol', nv, copies')
                    ELSE Attempts(program, at', vol', nv)
    /\ begun' = nv
    /\ UNCHANGED <<program, nv>>

\* A power failure, and DINO_RESTORE_CHECK at the next boot, which finds the
\* checkpoint of the last boundary and sets the recovery bit or, before the
\* first one, does neither.
PowerFail ==
    /\ restored' = (at # Start(program).at)
    /\ attempt' \in IF restored' THEN Restarts(program, at, vol, nv, copies)
                    ELSE Attempts(program, at, vol, nv)
    /\ UNCHANGED <<program, at, vol, nv, copies, begun>>

Next == Store \/ Boundary \/ PowerFail

Spec == Init /\ [][Next]_vars
-----------------------------------------------------------------------------
\* What an uninterrupted attempt may make of memory m.
Outcomes(m) ==
    {<<Apply(m, a.stores), a.vol, a.next>> : a \in Attempts(program, at, vol, m)}

\* However often it starts over, code between boundaries has the effect of one
\* attempt from the memory the boundary left.
SegmentIsAtomic == AttemptEnds => <<nv, attempt.vol, attempt.next>> \in Outcomes(begun)
=============================================================================
