---------------------------- MODULE WriteAheadLog ----------------------------
(***************************************************************************)
(* What the commit log promises its users, LogHandler's interface: entries *)
(* get consecutive LSNs, they become durable in that order, a waiter is    *)
(* told SUCCESS only for a durable entry, and a crash loses exactly the    *)
(* entries that are not durable, so that the next LSN follows the last     *)
(* durable one.                                                            *)
(***************************************************************************)
EXTENDS Naturals

VARIABLES
    up,         \* the process runs
    appended,   \* the last LSN given out (of this life of the process)
    durable,    \* the last LSN a restart reads back
    told        \* the LSNs a waiter got SUCCESS for

walVars == <<up, appended, durable, told>>

Init == up = FALSE /\ appended = 0 /\ durable = 0 /\ told = {}

Restart == ~up /\ up' = TRUE /\ UNCHANGED <<appended, durable, told>>

AppendEntry == up /\ appended' = appended + 1 /\ UNCHANGED <<up, durable, told>>

Persist == /\ up /\ durable < appended
           /\ durable' = durable + 1
           /\ UNCHANGED <<up, appended, told>>

Tell == /\ up
        /\ \E n \in 1..durable : told' = told \cup {n}
        /\ UNCHANGED <<up, appended, durable>>

Halt == up /\ up' = FALSE /\ appended' = durable /\ UNCHANGED <<durable, told>>

Next == Restart \/ AppendEntry \/ Persist \/ Tell \/ Halt

Spec == Init /\ [][Next]_walVars
=============================================================================
