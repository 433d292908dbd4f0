------------------------ MODULE MCFolderController ------------------------
(* Instances of FolderController for TLC.  Tabs and directories are         *)
(* interchangeable, and so are folder ids the code has yet to make.         *)
EXTENDS FolderController, TLC

CONSTANTS t1, t2, d1, d2, i1, i2, i3

MCTabs == {t1, t2}
MCDirs == {d1, d2}
MCIds == {i1, i2, i3}

\* Directories with one folder id each.
Apart == {m \in [MCDirs -> {i1, i2}] : m[d1] # m[d2]}
\* The folders i1 and i2 may also be copies of each other.
WithCopies == [MCDirs -> {i1, i2}]
\* Any of these, or directories nobody connected yet.
Mixed == [MCDirs -> {i1, i2, NoId}]

TabsAndDirs == Permutations(MCTabs) \cup Permutations(MCDirs)
===========================================================================
