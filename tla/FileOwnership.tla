--------------------------- MODULE FileOwnership ---------------------------
(***************************************************************************)
(* What the reference counts of libtux promise: a host file is open        *)
(* exactly while somebody owns it.  It opens with its first owner, may be  *)
(* shared and handed on, closes in the very step in which its last owner   *)
(* leaves, and is never opened again.  Owners are descriptors, the current *)
(* directory, libtux itself and calls in progress.                         *)
(***************************************************************************)
CONSTANTS File, Owner

VARIABLES
    host,     \* "unused", "open" or "closed"
    owners    \* the set of owners of each file

Owned(f) == owners[f] # {}

Init ==
    \A f \in File :
       \/ host[f] = "open" /\ Owned(f)
       \/ host[f] = "unused" /\ ~Owned(f)

OnlyOf(f) ==
    \A g \in File \ {f} : host'[g] = host[g] /\ owners'[g] = owners[g]

Open(f) ==
    /\ host[f] = "unused"
    /\ host'[f] = "open"
    /\ Owned(f)'
    /\ OnlyOf(f)

Pass(f) ==
    /\ host[f] = "open"
    /\ host'[f] = "open"
    /\ Owned(f)'
    /\ OnlyOf(f)

LeaveLast(f) ==
    /\ host[f] = "open"
    /\ host'[f] = "closed"
    /\ ~Owned(f)'
    /\ OnlyOf(f)

Next == \E f \in File : Open(f) \/ Pass(f) \/ LeaveLast(f)

Spec == Init /\ [][Next]_<<host, owners>>

=============================================================================
