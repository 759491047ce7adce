-------------------------------- MODULE Mutex --------------------------------
(***************************************************************************)
(* What a lock promises to whoever works under it, without its sentinel,   *)
(* its probes or its holders' deaths: one process at a time is inside, and *)
(* nobody gets in by putting somebody else out.  FileLock without an age   *)
(* bound implements this specification; ProposalTxn rests on it, with its  *)
(* one operation that has the lease.                                       *)
(***************************************************************************)

CONSTANT Process

VARIABLE inside         \* the processes in their critical section

Init == inside = {}

\* A process gets in when nobody is.
Enter(p) ==
    /\ inside = {}
    /\ inside' = {p}

\* It leaves, or dies.
Leave(p) ==
    /\ p \in inside
    /\ inside' = inside \ {p}

Next == \E p \in Process : Enter(p) \/ Leave(p)

Spec == Init /\ [][Next]_inside
=============================================================================
