------------------------------ MODULE MCFileOps ------------------------------
(***************************************************************************)
(* Instances of FileOps for TLC: an app in /app whose folder has a link l  *)
(* to /app2, the folder beside it.  In a container's shell $x is ../app2.  *)
(***************************************************************************)
EXTENDS FileOps, TLC

AppRoot == <<"app">>

Paths == {<<"d", "f">>, <<"..", "app2", "f">>, <<"l", "f">>, <<"$x">>}

AppTree == (<<>> :> Dir) @@ (<<"app">> :> Dir) @@ (<<"app2">> :> Dir) @@
           (<<"app2", "f">> :> Old) @@ (<<"app", "l">> :> Link)

AppLinks == (<<"app", "l">> :> <<"app2">>)

ShellOf(p) == IF p = <<"app", "$x">> THEN <<"app2">> ELSE p

AnyCall == Permutations(Calls)
=============================================================================
