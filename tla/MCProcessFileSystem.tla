-------------------------- MODULE MCProcessFileSystem --------------------------
(* Small programs for ProcessFileSystem: which objects there are and where.     *)
EXTENDS ProcessFileSystem, TLC

CONSTANTS f1, f2, f3, d1, c1, c2

\* main(): a file whose one-component path leads to the root, and two more objects on
\* entries of their own, one below the other.
ServePaths == {<<"time">>, <<"a", "x">>, <<"a", "x", "y">>, <<"a", "z">>}
ServePathOf == f1 :> <<"a", "x">> @@ f2 :> <<"a", "z">> @@ d1 :> <<"a", "x", "y">>

\* Objects that meet: two files and a directory on one entry, a third file above them.
SharedPaths == {<<"a", "x">>, <<"a", "x", "y">>}
SharedPathOf == f1 :> <<"a", "x", "y">> @@ f2 :> <<"a", "x", "y">>
             @@ f3 :> <<"a", "x">> @@ d1 :> <<"a", "x", "y">>

\* Two paths that differ in the first component only.
AliasPaths == {<<"a", "x">>, <<"b", "x">>}

\* One file, as in the sample programs.
SinglePathOf == f1 :> <<"a", "x">>
==============================================================================
