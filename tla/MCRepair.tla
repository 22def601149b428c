------------------------------- MODULE MCRepair -------------------------------
(***************************************************************************)
(* Version 1 of a file is valid, version 2 is over the size limit, and of  *)
(* the two mixed copies one would validate and one would not.              *)
(***************************************************************************)
EXTENDS Repair, TLC

MCTooBig == {<<2, 2>>}
MCValidation == <<1, 1>> :> "valid" @@ <<2, 2>> :> "valid"
             @@ <<1, 2>> :> "not_valid" @@ <<2, 1>> :> "valid"

Plan(i1, o1, i2, o2, i3, o3) ==
    <<"w1" :> i1 @@ "w2" :> i2 @@ "w3" :> i3, "w1" :> o1 @@ "w2" :> o2 @@ "w3" :> o3>>

\* Input a is listed twice (under two names with one file name), so that two
\* workers compete for x, and x is itself an input or one output name is
\* refused; or every input has an output of its own, so that a run can succeed.
MCPlans == {Plan("a", "x", "a", "x", "x", "y"), Plan("a", "x", "a", "x", "a", "bad"),
            Plan("a", "x", "x", "y", "a", "z")}
===============================================================================
