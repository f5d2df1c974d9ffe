---------------------------- MODULE Checkpoints ----------------------------
(***************************************************************************)
(* What a checkpointing runtime promises to a program that knows nothing   *)
(* of power failures: the program runs, now and then its state is saved    *)
(* as a whole, and after a failure it goes on from the state saved last,   *)
(* or from its beginning when none was.                                    *)
(***************************************************************************)

CONSTANTS
    State,    \* the volatile states of the program: registers, stack, globals
    Start,    \* the state main() starts in
    Off       \* the state of a program that is not running

VARIABLES live, saved

vars == <<live, saved>>

TypeOK == /\ live \in State \cup {Off}
          /\ saved \in State

Init == /\ live = Off
        /\ saved = Start

\* The program takes a step of its own.
Run == /\ live # Off
       /\ live' \in State
       /\ saved' = saved

\* The state of the running program becomes the one to go back to.
Save == /\ live # Off
        /\ saved' = live
        /\ live' = live

PowerFail == /\ live' = Off
             /\ saved' = saved

Resume == /\ live = Off
          /\ live' = saved
          /\ saved' = saved

Next == Run \/ Save \/ PowerFail \/ Resume

Spec == Init /\ [][Next]_vars
=============================================================================
