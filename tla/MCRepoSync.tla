----------------------------- MODULE MCRepoSync -----------------------------
(***************************************************************************)
(* Three commits over two plain paths, one whose name has a space, and one *)
(* that the filter excludes.  The second commit removes one file and adds  *)
(* the spaced one; the last changes the first and the excluded file and    *)
(* has all, one more allowed file than a walk accepts.  The deletion of    *)
(* "a b" reads as the deletion of "a"; a diff to or from the last commit   *)
(* has a line more than the output holds, which need not be one that       *)
(* matters.                                                                *)
(***************************************************************************)
EXTENDS RepoSync, TLC

MCTree ==
  ("c1" :> ("a" :> "x" @@ "b" :> "x" @@ "a b" :> Absent @@ "u" :> "x")) @@
  ("c2" :> ("a" :> "x" @@ "b" :> Absent @@ "a b" :> "x" @@ "u" :> "x")) @@
  ("c3" :> ("a" :> "y" @@ "b" :> "x" @@ "a b" :> "x" @@ "u" :> "y"))

MCWords ==
  "a" :> <<"a">> @@ "b" :> <<"b">> @@ "a b" :> <<"a", "b">> @@ "u" :> <<"u">>
=============================================================================
