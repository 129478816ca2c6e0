-------------------------- MODULE MCConfigResolver --------------------------
(***************************************************************************)
(* A module with a vow.yaml, a package tree that overrides it, a package   *)
(* whose file does not parse, and a tree that cannot be examined.          *)
(***************************************************************************)
EXTENDS ConfigResolver

CONSTANTS slash, mod, pkg, sub, bad, other, c1, c2

MCParent == [d \in Dirs |->
               CASE d \in {mod, other} -> slash
                 [] d \in {pkg, bad} -> mod
                 [] d = sub -> pkg
                 [] OTHER -> slash]
MCContent == [d \in Dirs |->
                CASE d = mod -> c1 [] d = pkg -> c2 [] d = bad -> "broken"
                  [] d = other -> "denied" [] d = slash -> "directory"
                  [] OTHER -> "absent"]
=============================================================================
