--------------------------- MODULE MCStatusMonitor ---------------------------
(***************************************************************************)
(* TLC instances of the status monitor: a claim that is provisioned, bound,*)
(* lost or terminating.                                                    *)
(***************************************************************************)
EXTENDS StatusMonitor

Claim(phase, vn) ==
    [terminating |-> FALSE, phase |-> phase, volumeName |-> vn, conditions |-> <<>>]

PendingClaim == Claim("Pending", "")
BoundClaim == Claim("Bound", "pv1")
RebindClaim == Claim("Bound", "pv2")
LostClaim == Claim("Lost", "pv1")
TerminatingClaim == [BoundClaim EXCEPT !.terminating = TRUE]
ResizingClaim ==
    [BoundClaim EXCEPT !.conditions =
        <<[type |-> "other", true |-> TRUE],
          [type |-> "Resizing", true |-> FALSE],
          [type |-> "FileSystemResizePending", true |-> TRUE]>>]

AllClaims == {PendingClaim, BoundClaim, RebindClaim, LostClaim, TerminatingClaim, ResizingClaim}
ResizeClaims == {PendingClaim, BoundClaim, ResizingClaim}
TwoClaims == {PendingClaim, BoundClaim}

\* A claim is created, deleted, recreated and deleted again; or it is created
\* about the time when a Warning Event comes.
Work(changes, warnings) == [changes |-> changes, warnings |-> warnings]

RecreateOrWarn == {Work(4, 0), Work(1, 1)}
TwoChanges == {Work(2, 0)}
FourChanges == {Work(4, 0)}
ThreeChanges == {Work(3, 0)}
BindAndWarn == {Work(2, 1)}
CreateAndWarn == {Work(1, 1)}
==============================================================================
