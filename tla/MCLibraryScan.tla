---------------------------- MODULE MCLibraryScan ----------------------------
(***************************************************************************)
(* Small instances of LibraryScan for TLC.  A path and a root are numbers, *)
(* a content too: 1 has chapters and a cover, 2 has neither (or is corrupt *)
(* audio), 3 is a symlink, 4 cannot be opened.                             *)
(***************************************************************************)
EXTENDS LibraryScan

OneFile == {1}
TwoFiles == {1, 2}
OneRoot == {1}
TwoRoots == {1, 2}
Contents == {1, 2, 3, 4}
Links == {3}
Locked == {4}
Rich == {1}

(* Two roots, one over both files and one empty; one root over one file.     *)
Mixed == [l \in TwoRoots |-> IF l = 1 THEN TwoFiles ELSE {}]
Single == [l \in OneRoot |-> OneFile]
=============================================================================
