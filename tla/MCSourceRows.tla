---------------------------- MODULE MCSourceRows ----------------------------
(***************************************************************************)
(* One web source and one repository over two URIs and two roots.  A       *)
(* content has two chunks that share a term, one chunk, or none.           *)
(***************************************************************************)
EXTENDS SourceRows, TLC

CONSTANTS long, short, empty

MCChunkTerms ==
  (long :> <<{"t1", "t2"}, {"t1"}>>) @@ (short :> <<{"t2"}>>) @@ (empty :> <<>>)

MCLikeMatch == "p1" :> Uris

Alike == Permutations(Writers)
=============================================================================
