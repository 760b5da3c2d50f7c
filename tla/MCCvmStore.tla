----------------------------- MODULE MCCvmStore -----------------------------
(* Small instances of CvmStore for TLC. *)
EXTENDS CvmStore, TLC

CONSTANTS s1, s2, f1, f2, p1, p2, p3

\* Two ids with a file each; two ids that sanitise to the same stem.
OwnFiles   == s1 :> f1 @@ s2 :> f2
SharedFile == s1 :> f1 @@ s2 :> f1
PageBytes  == p1 :> 1 @@ p2 :> 1 @@ p3 :> 2

\* A page that alone exceeds the session cap and the memory budget.
HugePage   == p1 :> 1 @@ p2 :> 1 @@ p3 :> 3

\* Threads are interchangeable: no definition tells them apart.
ThreadSymmetry == Permutations(Threads)

\* Nothing but `owed` itself depends on `owed`: a run whose properties do not
\* mention it may identify states that differ in it alone.
WithoutOwed == <<indexVars, diskVars, bookVars, lockVars, callVars, putBy>>
=============================================================================
