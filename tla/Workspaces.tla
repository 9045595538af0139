----------------------------- MODULE Workspaces -----------------------------
(***************************************************************************)
(* The directories of core/workspace/workspace.py: every turn that reaches *)
(* the agent works in the session directory of its conversation, and       *)
(* first removes the oldest of all session directories, of whatever        *)
(* conversation.  Tools write and export files there, which are read back  *)
(* one by one when the agent is done.  Turns of a conversation follow one  *)
(* another, turns of different conversations interleave.                   *)
(*                                                                         *)
(* The contents of files, the exports dropped because they are the same    *)
(* file twice, and commands of the agent that delete what it exported are  *)
(* left out.                                                               *)
(***************************************************************************)
EXTENDS Naturals, FiniteSets

CONSTANTS
    Chats,      \* conversations
    TopFiles,   \* what tools may write at the top of a directory
    Keep,       \* keep_recent_sessions
    MaxTurns,   \* bound: turns per conversation
    MaxFaults,  \* bound: failed accesses to the storage, failed downloads, turns that die
    None

\* A directory is named by the turn that made its name: uuid4 never repeats one.
Dirs == Chats \X (1 .. MaxTurns)

\* Paths in a session directory.
Paths == TopFiles \cup {"upload"}

ASSUME WorkspacesConstants ==
    /\ Keep \in Nat \ {0} /\ MaxTurns \in Nat /\ MaxFaults \in Nat
    /\ None \notin Dirs \cup Paths

VARIABLES
    sessionDir,  \* claw:session_dir:<conversation>, in the KV storage
    existing,    \* the directories that exist
    later,       \* of each, the directories changed (mtime) after it
    files,       \* the files in each directory
    \* the turn in progress of each conversation
    pc, turns,
    dir,         \* its session directory
    listed,      \* the directories, as listed by the rotation
    stale,       \* those it has still to remove
    artifacts,   \* the paths exported
    unread,      \* those of them still to be read back
    opening,     \* the one that was found to be a file, and is opened next
    faults,
    \* history of the turn
    newer,       \* other directories made or changed since it began
    missed       \* exports that were not delivered, until the next turn

timeVars == <<existing, later>>
diskVars == <<timeVars, files>>
rotationVars == <<listed, stale>>
readVars == <<unread, opening>>
exportVars == <<artifacts, readVars>>
vars == <<sessionDir, diskVars, pc, turns, dir, rotationVars, exportVars, faults, newer, missed>>

Init ==
    /\ sessionDir = [c \in Chats |-> None]
    /\ existing = {} /\ later = [d \in Dirs |-> {}] /\ files = [d \in Dirs |-> {}]
    /\ pc = [c \in Chats |-> "idle"]
    /\ turns = [c \in Chats |-> 0]
    /\ dir = [c \in Chats |-> None]
    /\ listed = [c \in Chats |-> {}] /\ stale = [c \in Chats |-> {}]
    /\ artifacts = [c \in Chats |-> {}]
    /\ unread = [c \in Chats |-> {}] /\ opening = [c \in Chats |-> None]
    /\ faults = 0
    /\ newer = [c \in Chats |-> {}] /\ missed = [c \in Chats |-> {}]

Fault == faults < MaxFaults /\ faults' = faults + 1
Goto(c, phase) == pc' = [pc EXCEPT ![c] = phase]
InAgent(c) == pc[c] = "agent"

-----------------------------------------------------------------------------
(* Modification times.                                                     *)

IsNewest(d) == d \in existing /\ later[d] = {}

\* A directory is made, or an entry is added at its top: it is the newest, which other
\* turns see if it was not so before.
Touch(d) ==
    /\ existing' = existing \cup {d}
    /\ later' = [e \in Dirs |-> IF e \in existing \ {d} THEN later[e] \cup {d} ELSE {}]
    /\ newer' = [c \in Chats |-> IF IsNewest(d) \/ dir[c] \in {None, d} THEN newer[c]
                                 ELSE newer[c] \cup {d}]

\* makedirs with exist_ok, when a turn opens its directory and by any tool after another
\* turn has removed it: a directory that exists is left as it is.
MakeDirs(d) == IF d \in existing THEN UNCHANGED <<timeVars, newer>> ELSE Touch(d)

-----------------------------------------------------------------------------
(* A turn finds its directory, my_claw_tool.py:164 and 369-383.            *)

StartTurn(c, d) ==
    /\ Goto(c, "open")
    /\ turns' = [turns EXCEPT ![c] = @ + 1]
    /\ dir' = [dir EXCEPT ![c] = d]
    /\ missed' = [missed EXCEPT ![c] = {}]
    /\ UNCHANGED <<diskVars, rotationVars, exportVars, newer>>

ReuseDir(c) ==
    /\ pc[c] = "idle" /\ turns[c] < MaxTurns
    /\ sessionDir[c] \in existing
    /\ StartTurn(c, sessionDir[c])
    /\ UNCHANGED <<sessionDir, faults>>

\* There is none, it has been removed, or the storage lost it; a write that fails
\* is logged.  Of the two accesses at most one fails.
NameDir(c) ==
    /\ pc[c] = "idle" /\ turns[c] < MaxTurns
    /\ LET d == <<c, turns[c] + 1>> IN
       /\ \/ /\ sessionDir[c] \notin existing
             /\ sessionDir' = [sessionDir EXCEPT ![c] = d]
             /\ UNCHANGED faults
          \/ /\ sessionDir[c] \in existing /\ Fault
             /\ sessionDir' = [sessionDir EXCEPT ![c] = d]
          \/ sessionDir[c] \notin existing /\ Fault /\ UNCHANGED sessionDir
       /\ StartTurn(c, d)

\* Workspace(session_dir), which may have to make a directory just seen again.
OpenDir(c) ==
    /\ pc[c] = "open"
    /\ MakeDirs(dir[c]) /\ Goto(c, "opened")
    /\ UNCHANGED <<sessionDir, files, turns, dir, rotationVars, exportVars, faults,
                   missed>>

-----------------------------------------------------------------------------
(* Rotation, workspace.py:80-99: list, sort by time, remove.               *)

ListDirs(c) ==
    /\ pc[c] = "opened"
    /\ listed' = [listed EXCEPT ![c] = existing]
    /\ Goto(c, "listed")
    /\ UNCHANGED <<sessionDir, diskVars, turns, dir, stale, exportVars, faults, newer, missed>>

\* Mutant of Overdue: the oldest are kept.
OverdueNewest(c) ==
    {d \in listed[c] : Cardinality({e \in listed[c] : d \in later[e]}) >= Keep}

\* candidates[keep_recent_sessions :], the newest first.
Overdue(c) == {d \in listed[c] : Cardinality(later[d] \cap listed[c]) >= Keep}

Sort(c) ==
    /\ pc[c] = "listed" /\ listed[c] \subseteq existing
    /\ stale' = [stale EXCEPT ![c] = Overdue(c)]
    /\ listed' = [listed EXCEPT ![c] = {}]
    /\ Goto(c, "rotate")
    /\ UNCHANGED <<sessionDir, diskVars, turns, dir, exportVars, faults, newer, missed>>

\* rmtree, whatever happened to the directory since; the user gets no notice.
RemoveDir(c, d) ==
    /\ pc[c] = "rotate" /\ d \in stale[c]
    /\ stale' = [stale EXCEPT ![c] = @ \ {d}]
    /\ existing' = existing \ {d}
    /\ later' = [e \in Dirs |-> IF e = d THEN {} ELSE later[e] \ {d}]
    /\ files' = [files EXCEPT ![d] = {}]
    /\ UNCHANGED <<sessionDir, pc, turns, dir, listed, exportVars, faults, newer,
                   missed>>

\* The turn is over, its local variables are gone.
EndTurn(c) ==
    /\ Goto(c, "idle")
    /\ listed' = [listed EXCEPT ![c] = {}]
    /\ stale' = [stale EXCEPT ![c] = {}]
    /\ artifacts' = [artifacts EXCEPT ![c] = {}]
    /\ unread' = [unread EXCEPT ![c] = {}]
    /\ opening' = [opening EXCEPT ![c] = None]
    /\ dir' = [dir EXCEPT ![c] = None]
    /\ newer' = [newer EXCEPT ![c] = {}]
    /\ UNCHANGED <<sessionDir, diskVars, turns>>

\* getmtime of a directory that another turn removed meanwhile: no handler short
\* of the one of the whole invocation.
SortFails(c) ==
    /\ pc[c] = "listed" /\ ~ listed[c] \subseteq existing
    /\ EndTurn(c)
    /\ UNCHANGED <<faults, missed>>

-----------------------------------------------------------------------------
(* The agent's tools on files, builtin.py:26-98.                           *)

\* The files of the message; a download that fails is logged, and so is a directory
\* that is gone.
SaveUploads(c) ==
    /\ pc[c] = "rotate" /\ stale[c] = {}
    /\ \/ UNCHANGED <<files, faults>>
       \/ dir[c] \in existing /\ files' = [files EXCEPT ![dir[c]] = @ \cup {"upload"}]
                              /\ UNCHANGED faults
       \/ Fault /\ UNCHANGED files
    /\ Goto(c, "agent")
    /\ UNCHANGED <<sessionDir, timeVars, turns, dir, rotationVars, exportVars, newer,
                   missed>>

\* Any tool on the workspace makes its directory when it is gone.
Look(c) ==
    /\ InAgent(c) /\ dir[c] \notin existing
    /\ MakeDirs(dir[c])
    /\ UNCHANGED <<sessionDir, files, pc, turns, dir, rotationVars, exportVars, faults,
                   missed>>

\* Mutant of WriteFile: a directory that was removed is not made again.
WriteFileNoDir(c, f) ==
    /\ InAgent(c)
    /\ IF f \in files[dir[c]] \/ dir[c] \notin existing THEN UNCHANGED <<timeVars, newer>>
                                                       ELSE Touch(dir[c])
    /\ files' = [files EXCEPT ![dir[c]] = @ \cup {f}]
    /\ UNCHANGED <<sessionDir, pc, turns, dir, rotationVars, exportVars, faults, missed>>

\* write_file.  A new file at the top changes the time of the directory, writing over
\* an old one does not.  run_command may do the same, in a directory that exists.
WriteFile(c, f) ==
    /\ InAgent(c)
    /\ IF f \in files[dir[c]] THEN UNCHANGED <<timeVars, newer>> ELSE Touch(dir[c])
    /\ files' = [files EXCEPT ![dir[c]] = @ \cup {f}]
    /\ UNCHANGED <<sessionDir, pc, turns, dir, rotationVars, exportVars, faults, missed>>

ExportFile(c, p) ==
    /\ InAgent(c) /\ p \in files[dir[c]]
    /\ artifacts' = [artifacts EXCEPT ![c] = @ \cup {p}]
    /\ UNCHANGED <<sessionDir, diskVars, pc, turns, dir, rotationVars, readVars, faults, newer,
                   missed>>

-----------------------------------------------------------------------------
(* The end, my_claw_tool.py:239-240 and workspace.py:58-76: the exports    *)
(* are read back, one by one, and handed over when all have been read.     *)

BeginDelivery(c) ==
    /\ InAgent(c)
    /\ Goto(c, "deliver")
    /\ unread' = [unread EXCEPT ![c] = artifacts[c]]
    /\ UNCHANGED <<sessionDir, diskVars, turns, dir, rotationVars, artifacts, opening, faults,
                   newer, missed>>

Reading(c, p) == pc[c] = "deliver" /\ p \in unread[c] /\ opening[c] \in {None, p}

\* An export whose file is gone is skipped,
SkipExport(c, p) ==
    /\ Reading(c, p) /\ opening[c] = None /\ p \notin files[dir[c]]
    /\ unread' = [unread EXCEPT ![c] = @ \ {p}]
    /\ missed' = [missed EXCEPT ![c] = @ \cup {p}]
    /\ UNCHANGED <<sessionDir, diskVars, pc, turns, dir, rotationVars, artifacts, opening, faults,
                   newer>>

\* another one is opened next.
FindExport(c, p) ==
    /\ Reading(c, p) /\ opening[c] = None /\ p \in files[dir[c]]
    /\ opening' = [opening EXCEPT ![c] = p]
    /\ UNCHANGED <<sessionDir, diskVars, pc, turns, dir, rotationVars, artifacts, unread, faults,
                   newer, missed>>

ReadExport(c, p) ==
    /\ Reading(c, p) /\ opening[c] = p /\ p \in files[dir[c]]
    /\ unread' = [unread EXCEPT ![c] = @ \ {p}]
    /\ opening' = [opening EXCEPT ![c] = None]
    /\ UNCHANGED <<sessionDir, diskVars, pc, turns, dir, rotationVars, artifacts, faults, newer,
                   missed>>

\* Its file has gone since: open() raises, and the turn ends with nothing handed over,
\* of the exports read before either.
OpenFails(c, p) ==
    /\ Reading(c, p) /\ opening[c] = p /\ p \notin files[dir[c]]
    /\ missed' = [missed EXCEPT ![c] = artifacts[c]]
    /\ EndTurn(c)
    /\ UNCHANGED faults

Deliver(c) ==
    /\ pc[c] = "deliver" /\ unread[c] = {}
    /\ EndTurn(c)
    /\ UNCHANGED <<faults, missed>>

\* An exception ends the turn, as a file that cannot be read does, or the process dies.
Die(c) ==
    /\ pc[c] # "idle" /\ Fault
    /\ EndTurn(c)
    /\ UNCHANGED missed

Next ==
    \E c \in Chats :
        \/ ReuseDir(c) \/ NameDir(c) \/ OpenDir(c)
        \/ ListDirs(c) \/ Sort(c) \/ SortFails(c) \/ \E d \in Dirs : RemoveDir(c, d)
        \/ SaveUploads(c) \/ Look(c)
        \/ \E f \in TopFiles : WriteFile(c, f)
        \/ \E p \in Paths : ExportFile(c, p)
        \/ BeginDelivery(c)
        \/ \E p \in Paths : \/ SkipExport(c, p) \/ FindExport(c, p)
                           \/ ReadExport(c, p) \/ OpenFails(c, p)
        \/ Deliver(c) \/ Die(c)

Spec == Init /\ [][Next]_vars

-----------------------------------------------------------------------------
(* Properties.                                                             *)

\* Types; of two directories one was changed later, one that does not exist has no files.
TypeOK ==
    /\ sessionDir \in [Chats -> Dirs \cup {None}]
    /\ existing \subseteq Dirs /\ later \in [Dirs -> SUBSET existing]
    /\ \A d, e \in existing : d # e => (d \in later[e] <=> e \notin later[d])
    /\ \A d \in existing : d \notin later[d] /\ \A e \in later[d] : later[e] \subseteq later[d]
    /\ files \in [Dirs -> SUBSET Paths]
    /\ \A d \in Dirs \ existing : files[d] = {} /\ later[d] = {}
    /\ pc \in [Chats -> {"idle", "open", "opened", "listed", "rotate", "agent", "deliver"}]
    /\ turns \in [Chats -> 0 .. MaxTurns]
    /\ dir \in [Chats -> Dirs \cup {None}]
    /\ listed \in [Chats -> SUBSET Dirs] /\ stale \in [Chats -> SUBSET Dirs]
    /\ artifacts \in [Chats -> SUBSET Paths] /\ unread \in [Chats -> SUBSET Paths]
    /\ opening \in [Chats -> Paths \cup {None}] /\ missed \in [Chats -> SUBSET Paths]
    /\ faults \in 0 .. MaxFaults
    /\ newer \in [Chats -> SUBSET Dirs]

\* A turn that made its own directory gets every export delivered, unless as many
\* other directories as are kept were made or changed since.  Rotations with old
\* listings, and tools that make removed directories again, do not get at it
\* before its time (workspace.py:86-95, builtin.py:89).  A directory that an earlier
\* turn made has no such protection: a rotation that listed it then may remove it
\* now, though it is the newest.
FreshExportsDelivered ==
    [][\A c \in Chats :
          missed[c] = {} /\ missed'[c] # {} =>
              dir[c] # <<c, turns[c]>> \/ Cardinality(newer[c]) >= Keep]_vars
=============================================================================
