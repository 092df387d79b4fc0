-------------------------- MODULE FdFilesOwnership --------------------------
(***************************************************************************)
(* FdFiles implements FileOwnership.  The counts do not appear in the      *)
(* mapping: an owner is a place of the process that holds the file.        *)
(***************************************************************************)
EXTENDS FdFiles

CwdOwns(f) == cwdfd = f \/ (cwdfd = NULL /\ cwdfile = f /\ ~CwdVacant)

CallOwns(t, f) ==
    \/ newf[t] = f
    \/ pc[t] = "set" /\ call[t] = "fchdir" /\ obj[t] = f

OwnersOf(f) ==
    {<<"fd", fd>> : fd \in {fd \in FD : files[fd] = f}}
    \cup {<<"call", t>> : t \in {t \in Thread : CallOwns(t, f)}}
    \cup {<<"cwd", 0>> : x \in {x \in {f} : CwdOwns(f)}}
    \cup {<<"libtux", 0>> : x \in {f} \cap Std}

Ownership == INSTANCE FileOwnership WITH
    owners <- [f \in File |-> OwnersOf(f)],
    Owner <- ({"fd"} \X FD) \cup ({"call"} \X Thread) \cup ({"cwd", "libtux"} \X {0})

(***************************************************************************)
(* Every host file that openat or chdir opens stays open exactly while a   *)
(* descriptor, the current directory, libtux or a call in progress holds   *)
(* it, and is closed by the step that drops the last of them: neither a    *)
(* premature close nor a leak.  Needs SerialCwd and SerialOpens, no malloc *)
(* failure and a table that never fills (see RefsRepresentReferences).     *)
(***************************************************************************)
FilesOwned == Ownership!Spec

=============================================================================
