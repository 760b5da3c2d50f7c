---------------------------- MODULE MCTaskBoard -----------------------------
(* Small instances of TaskBoard for TLC. *)
EXTENDS TaskBoard, TLC

CONSTANTS w1, w2, a1, a2, plain, mail, odd, oddStem, t1, t2, t3

\* Both requests in one server; one request in each of two servers.
OneServer  == w1 :> a1 @@ w2 :> a1
TwoServers == w1 :> a1 @@ w2 :> a2

\* The two servers with their requests are interchangeable.
ServerSymmetry == {w1 :> w2 @@ w2 :> w1 @@ a1 :> a2 @@ a2 :> a1}

\* A name of letters is its own stem.  A name with other characters is encoded
\* to a stem that, taken as a name, is encoded once more.
PlainFile == plain :> plain
PlainFiles == plain :> plain @@ mail :> mail
OddFile   == odd :> oddStem @@ oddStem :> NoStem

\* No guard reads `acked` or `granted`, and after an overlap, which is for ever,
\* no invariant of the run turns on them: states that differ there alone are one.
BeforeOverlap ==
  <<diskVars, callVars, used, overlapped, IF overlapped THEN <<>> ELSE granted>>
=============================================================================
