---------------------------- MODULE MCSkillStore ----------------------------
(***************************************************************************)
(* Five archives: two versions of one pack, of which the older one has a   *)
(* file more; two more with the same directory, one whose manifest is not  *)
(* valid and one whose manifest cannot be parsed; and another pack, which  *)
(* comes before them in a list.  Of the requirements, one of the newer     *)
(* version is no mere name, and one of the other pack is beyond the cap.   *)
(* Conversations are interchangeable.                                      *)
(***************************************************************************)
EXTENDS SkillStore, TLC

CONSTANTS old, new, bad, garbled, other

MCArchives == {old, new, bad, garbled, other}
MCDirOf == [a \in MCArchives |-> IF a = other THEN 1 ELSE 2]
MCFilesOf == [a \in MCArchives |-> IF a = old THEN {Manifest, "run.py"} ELSE {Manifest}]
MCNeedsOf ==
    [a \in MCArchives |-> CASE a = new -> <<"yaml>=6", "requests">>
                            [] a = other -> <<"yaml", "yaml", "requests">>
                            [] OTHER -> << >>]

\* One upload, or two with one directory.
MCBatches == { <<old>>, <<other>>, <<garbled>>, <<new, bad>> }

Conversations == Permutations(Chats)
=============================================================================
