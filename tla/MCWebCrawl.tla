----------------------------- MODULE MCWebCrawl -----------------------------
(***************************************************************************)
(* A start page whose body may link one other page, and that other page.   *)
(***************************************************************************)
EXTENDS WebCrawl, TLC

MCSeeds == <<"start">>

MCLinksOf == ("hub" :> {"start", "page"}) @@ ("leaf" :> {})
=============================================================================
