------------------------------- MODULE MCVfs -------------------------------
(* Small instances of module Vfs.                                          *)
EXTENDS Vfs

\* A file or directory, one below it, and the root.
MCPaths == {<<"a">>, <<"a", "b">>, <<"a", "..">>}
MCModes == {{"r", "w", "x"}}
============================================================================
