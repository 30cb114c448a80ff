----------------------------- MODULE MCDirCache ------------------------------
(* DirCache for TLC: names, and paths of them.                             *)
EXTENDS DirCache

MCDirNames == {<<"a">>}
MCFileNames == {<<"b">>}

MCQueries ==
  {<<"/">>, <<"/", "a">>, <<"/", ".", "/", "b">>, <<"/", "a", "/", "b">>,
   <<"/", "/", "a", "/", "b">>, <<"/", "/", "a", "b">>}

MCKeys ==
  {<<"/">>, <<"/", "/", "a">>, <<"/", "/", "b">>, <<"/", "/", "a", "b">>}
=============================================================================
