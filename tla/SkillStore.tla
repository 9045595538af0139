----------------------------- MODULE SkillStore -----------------------------
(***************************************************************************)
(* The skill packs of tools/skill_manager_tool.py and                      *)
(* core/skills/packages.py: directories under one root, which every        *)
(* conversation lists, installs, removes and downloads.  Nothing is        *)
(* locked.  Commands of one conversation follow one another, those of      *)
(* different conversations interleave, a file at a time.                   *)
(*                                                                         *)
(* An archive is known by its directory, files, manifest and requirements; *)
(* a directory maps file names to the archive they came from.  Removing a  *)
(* directory, and reading all of them for a list, is one step.  A command  *)
(* that changes nothing, and tells the user an error, is no step: a number *)
(* out of range, or a list while a manifest cannot be read.                *)
(***************************************************************************)
EXTENDS Naturals, Sequences, FiniteSets, SequencesExt

CONSTANTS
    Chats,      \* conversations
    Packs,      \* directories, as numbers: sorted() has the order of these
    Archives,   \* archives a user may upload, with a SKILL.md
    DirOf,      \* [Archives -> Packs], after sanitize_skill_dirname
    FilesOf,    \* [Archives -> sets of file names]
    Valid,      \* those with a valid manifest
    Malformed,  \* those whose manifest parse_manifest() raises on, and not reports
    NeedsOf,    \* [Archives -> the Python requirements of the manifest, in order]
    Libs,       \* Python requirements: names of packages, and others
    Plain,      \* those that are a mere name, [A-Za-z0-9._-]+
    PyCap,      \* the requirements looked at (code: 30)
    Batches,    \* bound: the uploads of one command, sequences of archives
    MaxOps,     \* bound: commands per conversation
    MaxFaults,  \* bound: downloads, extractions and removals that fail, processes that die
    None        \* no directory, no such file

Manifest == "SKILL.md"
Names == UNION {FilesOf[a] : a \in Archives}
Dir == [Names -> Archives \cup {None}]
Empty == [f \in Names |-> None]

ASSUME SkillStoreConstants ==
    /\ Packs \subseteq Nat /\ IsFiniteSet(Packs)
    /\ DirOf \in [Archives -> Packs]
    /\ \A a \in Archives : Manifest \in FilesOf[a]
    /\ Valid \subseteq Archives /\ Malformed \subseteq Archives \ Valid
    /\ NeedsOf \in [Archives -> Seq(Libs)] /\ Plain \subseteq Libs /\ PyCap \in Nat
    /\ Batches \subseteq Seq(Archives)
    /\ MaxOps \in Nat /\ MaxFaults \in Nat
    /\ None \notin Archives \cup Dir

VARIABLES
    store,      \* the directories under skills_root
    libs,       \* Python packages installed
    \* the command in progress of each conversation
    pc, ops,
    uploads,    \* archives it has still to install
    archive,    \* the one it is installing
    target,     \* the directory it works on
    todo,       \* files still to extract, or to add to a download
    installed,  \* the directories the answer will name
    zip,        \* a download so far
    wanted,     \* packages pip was started for
    faults,
    \* what users have seen
    shown,      \* the last list of each conversation
    outdated,   \* directories came or went since, in another conversation, or in a
                \* command of this one that failed or ended without a list
    \* history of the command in progress
    touched,    \* directories another conversation wrote to
    retried,    \* directories it installed, and cleared again for a later upload
    \* history of the directories
    mixed       \* those whose last installs overlapped, broke or met a removal, and
                \* those of which a removal left something

installVars == <<uploads, archive, installed, retried>>
listVars == <<shown, outdated>>
vars == <<store, libs, pc, ops, installVars, target, todo, zip, wanted, faults, listVars,
          touched, mixed>>

\* A directory of an archive installed as a whole.
Whole(a) == [f \in Names |-> IF f \in FilesOf[a] THEN a ELSE None]

\* What is listed: a list is known by its members, for os.listdir is always sorted.
ListOf(s) == {p \in Packs : s[p] # None}
Listing == ListOf(store)

\* The pack a number of the user refers to, in a list; none, if it is out of range.
Numbered(list, n) == {p \in list : Cardinality({q \in list : q <= p}) = n}

\* Every user has seen the list as it is.
Init ==
    /\ store \in {s \in [Packs -> {Whole(a) : a \in Valid} \cup {None}] :
                     \A p \in Packs : \A a \in Valid : s[p] = Whole(a) => DirOf[a] = p}
    /\ libs = {}
    /\ pc = [c \in Chats |-> "idle"] /\ ops = [c \in Chats |-> 0]
    /\ uploads = [c \in Chats |-> << >>]
    /\ archive = [c \in Chats |-> None] /\ target = [c \in Chats |-> None]
    /\ todo = [c \in Chats |-> {}] /\ installed = [c \in Chats |-> {}]
    /\ zip = [c \in Chats |-> Empty]
    /\ wanted = [c \in Chats |-> {}] /\ faults = 0
    /\ shown = [c \in Chats |-> Listing] /\ outdated = [c \in Chats |-> FALSE]
    /\ touched = [c \in Chats |-> {}] /\ retried = [c \in Chats |-> {}]
    /\ mixed = {}

Fault == faults < MaxFaults /\ faults' = faults + 1
Busy(c) == pc[c] # "idle"
Present(p) == {f \in Names : store[p][f] # None}
Extracting(p) == {c \in Chats : pc[c] = "extract" /\ target[c] = p}

\* parse_manifest: there is a SKILL.md, and it is valid.
Sound(p) == store[p] # None /\ store[p][Manifest] \in Valid

\* list_installed() raises when one manifest does (packages.py:131, 185).
Listable(s) == \A p \in ListOf(s) : s[p][Manifest] \notin Malformed

\* rmtree() comes upon what it cannot remove: some of the files stay.
Cut(p) ==
    /\ store[p] # None
    /\ \E stay \in SUBSET Present(p) :
          store' = [store EXCEPT ![p] = [f \in Names |-> IF f \in stay THEN @[f] ELSE None]]

\* rmtree(ignore_errors=True): the same, and nobody is told.
Discard(p) ==
    \/ store' = [store EXCEPT ![p] = None] /\ UNCHANGED faults
    \/ Fault /\ Cut(p)

-----------------------------------------------------------------------------
(* Commands begin and end.                                                 *)

Begin(c, phase) ==
    /\ pc[c] = "idle" /\ ops[c] < MaxOps
    /\ pc' = [pc EXCEPT ![c] = phase]
    /\ ops' = [ops EXCEPT ![c] = @ + 1]

\* The local variables of the command are gone.
End(c) ==
    /\ pc' = [pc EXCEPT ![c] = "idle"]
    /\ uploads' = [uploads EXCEPT ![c] = << >>]
    /\ archive' = [archive EXCEPT ![c] = None]
    /\ target' = [target EXCEPT ![c] = None]
    /\ todo' = [todo EXCEPT ![c] = {}]
    /\ installed' = [installed EXCEPT ![c] = {}]
    /\ zip' = [zip EXCEPT ![c] = Empty]
    /\ wanted' = [wanted EXCEPT ![c] = {}]
    /\ touched' = [touched EXCEPT ![c] = {}]
    /\ retried' = [retried EXCEPT ![c] = {}]

\* The user gets a list, as it is after the step.
Show(c) ==
    /\ shown' = [shown EXCEPT ![c] = ListOf(store')]
    /\ outdated' = [x \in Chats |-> x # c /\ (outdated[x] \/ ListOf(store') # Listing)]

\* No list for this conversation; when it `failed', its user cannot know what is left.
ShowNone(c, failed) ==
    /\ outdated' = [x \in Chats |-> outdated[x] \/ IF x = c THEN failed
                                                    ELSE ListOf(store') # Listing]
    /\ UNCHANGED shown

\* A command that `changed' the directories, or not, ends with a list if one can be made.
ShowIfListable(c, changed) ==
    IF Listable(store') THEN Show(c) ELSE ShowNone(c, changed)

\* The others that are at work notice that `c' writes to `p'.
Touch(c, p) ==
    touched' = [x \in Chats |-> IF x # c /\ Busy(x) THEN touched[x] \cup {p} ELSE touched[x]]

\* skill_manager_tool.py:65-89.  The list itself is a read.
List(c) ==
    /\ pc[c] = "idle" /\ ops[c] < MaxOps /\ Listable(store)
    /\ ops' = [ops EXCEPT ![c] = @ + 1]
    /\ UNCHANGED <<store, libs, pc, installVars, target, todo, zip, wanted, faults, touched,
                   mixed>>
    /\ Show(c)

-----------------------------------------------------------------------------
(* Install, skill_manager_tool.py:91-148.                                 *)

Install(c, batch) ==
    /\ Begin(c, "fetch")
    /\ uploads' = [uploads EXCEPT ![c] = batch]
    /\ UNCHANGED <<store, libs, archive, target, todo, installed, zip, wanted, faults, listVars,
                   touched, retried, mixed>>

\* A download fails, or the file is no archive with a SKILL.md.  The user is told, and
\* the next upload is tried.
Refuse(c) ==
    /\ pc[c] = "fetch" /\ uploads[c] # << >> /\ Fault
    /\ uploads' = [uploads EXCEPT ![c] = Tail(@)]
    /\ UNCHANGED <<store, libs, pc, ops, archive, target, todo, installed, zip, wanted, listVars,
                   touched, retried, mixed>>

\* The old pack cannot be removed, or not all of it: the upload is given up.
Stuck(c) ==
    /\ pc[c] = "fetch" /\ uploads[c] # << >> /\ Fault
    /\ LET p == DirOf[Head(uploads[c])] IN
       /\ Cut(p)
       /\ retried' = [retried EXCEPT ![c] = @ \cup ({p} \cap installed[c])]
       /\ mixed' = mixed \cup {p}
       /\ Touch(c, p)
    /\ uploads' = [uploads EXCEPT ![c] = Tail(@)]
    /\ ShowNone(c, TRUE)
    /\ UNCHANGED <<libs, pc, ops, archive, target, todo, installed, zip, wanted>>

\* Mutant of Cleared: what is there stays.
NotCleared(p) == IF store[p] = None THEN Empty ELSE store[p]

\* The old pack is removed, whatever the new one is worth.
Cleared(p) == Empty

Clear(c) ==
    /\ pc[c] = "fetch" /\ uploads[c] # << >>
    /\ LET a == Head(uploads[c]) p == DirOf[a] IN
       /\ archive' = [archive EXCEPT ![c] = a]
       /\ target' = [target EXCEPT ![c] = p]
       /\ todo' = [todo EXCEPT ![c] = FilesOf[a]]
       /\ store' = [store EXCEPT ![p] = Cleared(p)]
       /\ retried' = [retried EXCEPT ![c] = @ \cup ({p} \cap installed[c])]
       /\ mixed' = IF Extracting(p) = {} THEN mixed \ {p} ELSE mixed \cup {p}
       /\ Touch(c, p)
    /\ uploads' = [uploads EXCEPT ![c] = Tail(@)]
    /\ pc' = [pc EXCEPT ![c] = "extract"]
    /\ ShowNone(c, FALSE)
    /\ UNCHANGED <<libs, ops, installed, zip, wanted, faults>>

\* One file is written, in a directory that is made again when it is gone.
Extract(c, f) ==
    /\ pc[c] = "extract" /\ f \in todo[c]
    /\ LET p == target[c] IN
       /\ store' = [store EXCEPT ![p] = [(IF @ = None THEN Empty ELSE @) EXCEPT ![f] = archive[c]]]
       /\ Touch(c, p)
    /\ todo' = [todo EXCEPT ![c] = @ \ {f}]
    /\ ShowNone(c, FALSE)
    /\ UNCHANGED <<libs, pc, ops, installVars, target, zip, wanted, faults, mixed>>

\* An upload is done with, the next one follows.
NextUpload(c) ==
    /\ pc' = [pc EXCEPT ![c] = "fetch"]
    /\ archive' = [archive EXCEPT ![c] = None]
    /\ target' = [target EXCEPT ![c] = None]
    /\ todo' = [todo EXCEPT ![c] = {}]

\* A file that cannot be unpacked or written: what is there stays.
Break(c) ==
    /\ pc[c] = "extract" /\ todo[c] # {} /\ Fault
    /\ NextUpload(c)
    /\ mixed' = mixed \cup {target[c]}
    /\ UNCHANGED store /\ ShowNone(c, TRUE)
    /\ UNCHANGED <<libs, ops, uploads, installed, retried, zip, wanted, touched>>

\* Mutant of Validate: the manifest is not looked at.
AcceptAll(c) ==
    /\ pc[c] = "extract" /\ todo[c] = {}
    /\ NextUpload(c)
    /\ installed' = [installed EXCEPT ![c] = @ \cup {target[c]}]
    /\ UNCHANGED <<store, libs, ops, uploads, retried, zip, wanted, faults, listVars, touched,
                   mixed>>

\* Mutant of Validate: the pack is named by what it was made of, not by its directory.
ValidateByArchive(c) ==
    /\ pc[c] = "extract" /\ todo[c] = {} /\ Sound(target[c])
    /\ NextUpload(c)
    /\ installed' = [installed EXCEPT ![c] = @ \cup {archive[c]}]
    /\ UNCHANGED <<store, libs, ops, uploads, retried, zip, wanted, faults, listVars, touched,
                   mixed>>

\* The manifest that is there decides: a directory without a valid one is removed, one
\* whose manifest cannot even be parsed stays.
Validate(c) ==
    /\ pc[c] = "extract" /\ todo[c] = {}
    /\ NextUpload(c)
    /\ LET p == target[c] IN
       \/ /\ Sound(p)
          /\ installed' = [installed EXCEPT ![c] = @ \cup {p}]
          /\ UNCHANGED <<store, faults, listVars, touched, mixed>>
       \/ /\ ~ Sound(p)
          /\ IF store[p] # None /\ store[p][Manifest] \in Malformed
             THEN UNCHANGED <<store, faults, touched, mixed>>
             ELSE /\ Discard(p) /\ Touch(c, p)
                  /\ mixed' = IF store'[p] = None THEN mixed ELSE mixed \cup {p}
          /\ ShowNone(c, TRUE)
          /\ UNCHANGED installed
    /\ UNCHANGED <<libs, ops, uploads, retried, zip, wanted>>

\* Mutant of Report: the user gets no list.
ReportNoList(c) ==
    /\ pc[c] = "fetch" /\ uploads[c] = << >>
    /\ End(c)
    /\ UNCHANGED <<store, libs, ops, faults, listVars, mixed>>

\* What was installed is named, with a list; if nothing was, there is none.
Report(c) ==
    /\ pc[c] = "fetch" /\ uploads[c] = << >>
    /\ End(c)
    /\ UNCHANGED store
    /\ IF installed[c] = {} THEN UNCHANGED listVars ELSE ShowIfListable(c, TRUE)
    /\ UNCHANGED <<libs, ops, faults, mixed>>

-----------------------------------------------------------------------------
(* Remove and download by number, skill_manager_tool.py:190-218.  A number *)
(* out of range is answered with an error.                                 *)

\* The user is told that the pack is gone, whether it is or not.
RemovePack(c, n) ==
    /\ pc[c] = "idle" /\ ops[c] < MaxOps
    /\ ops' = [ops EXCEPT ![c] = @ + 1]
    /\ \E p \in Numbered(Listing, n) :
       /\ Discard(p) /\ Touch(c, p)
       /\ mixed' = IF store'[p] = None /\ Extracting(p) = {} THEN mixed ELSE mixed \cup {p}
    /\ ShowIfListable(c, TRUE)
    /\ UNCHANGED <<libs, pc, installVars, target, todo, zip, wanted>>

Download(c, n) ==
    /\ Begin(c, "zip")
    /\ \E p \in Numbered(Listing, n) :
       /\ target' = [target EXCEPT ![c] = p]
       /\ todo' = [todo EXCEPT ![c] = Present(p)]
    /\ UNCHANGED <<store, libs, installVars, zip, wanted, faults, listVars, touched, mixed>>

\* A file that is gone by now ends the command with an error.
AddFile(c, f) ==
    /\ pc[c] = "zip" /\ f \in todo[c]
    /\ IF store[target[c]] # None /\ f \in Present(target[c])
       THEN /\ zip' = [zip EXCEPT ![c][f] = store[target[c]][f]]
            /\ todo' = [todo EXCEPT ![c] = @ \ {f}]
            /\ UNCHANGED <<pc, installVars, target, wanted, touched>>
       ELSE End(c)
    /\ UNCHANGED <<store, libs, ops, faults, listVars, mixed>>

\* Mutant of Send: it does not wait for the last file.
SendEarly(c) ==
    /\ pc[c] = "zip" /\ Cardinality(todo[c]) <= 1
    /\ End(c)
    /\ UNCHANGED <<store, libs, ops, faults, listVars, mixed>>

Send(c) ==
    /\ pc[c] = "zip" /\ todo[c] = {}
    /\ End(c)
    /\ UNCHANGED <<store, libs, ops, faults, listVars, mixed>>
-----------------------------------------------------------------------------
(* Dependencies, skill_manager_tool.py:150-173 and packages.py:141-169.    *)

\* What pip may be asked for: mere names, among the first ones (packages.py:151,
\* skill_manager_tool.py:154).
Asked(a) == {NeedsOf[a][i] : i \in DOMAIN NeedsOf[a] \cap (1 .. PyCap)} \cap Plain

Missing == (UNION {Asked(store[p][Manifest]) : p \in {q \in Packs : Sound(q)}}) \ libs

\* When nothing is missing there is a list only.
Depend(c) ==
    /\ Listable(store) /\ Missing # {}
    /\ Begin(c, "pip")
    /\ wanted' = [wanted EXCEPT ![c] = Missing]
    /\ UNCHANGED <<store, libs, installVars, target, todo, zip, faults, listVars, touched, mixed>>

\* Mutant of PipSucceeds: the exit code is not looked at.
PipUnchecked(c) ==
    /\ pc[c] = "pip"
    /\ \E some \in SUBSET wanted[c] : libs' = libs \cup some
    /\ End(c)
    /\ UNCHANGED store /\ ShowIfListable(c, FALSE)
    /\ UNCHANGED <<ops, faults, mixed>>

PipSucceeds(c) ==
    /\ pc[c] = "pip"
    /\ libs' = libs \cup wanted[c]
    /\ End(c)
    /\ UNCHANGED store /\ ShowIfListable(c, FALSE)
    /\ UNCHANGED <<ops, faults, mixed>>

\* An error, or the timeout: some of them may be there.
PipFails(c) ==
    /\ pc[c] = "pip"
    /\ \E some \in SUBSET wanted[c] : libs' = libs \cup some
    /\ End(c)
    /\ UNCHANGED <<store, ops, faults, listVars, mixed>>

\* The conversation's process dies.
Die(c) ==
    /\ Busy(c) /\ Fault
    /\ End(c)
    /\ mixed' = IF pc[c] = "extract" THEN mixed \cup {target[c]} ELSE mixed
    /\ UNCHANGED store /\ ShowNone(c, TRUE)
    /\ UNCHANGED <<libs, ops>>

Next ==
    \E c \in Chats :
        \/ List(c)
        \/ \E b \in Batches : Install(c, b)
        \/ Refuse(c) \/ Stuck(c) \/ Clear(c) \/ \E f \in Names : Extract(c, f)
        \/ Break(c) \/ Validate(c) \/ Report(c)
        \/ \E n \in 1 .. Cardinality(Packs) : RemovePack(c, n) \/ Download(c, n)
        \/ \E f \in Names : AddFile(c, f)
        \/ Send(c)
        \/ Depend(c) \/ PipSucceeds(c) \/ PipFails(c)
        \/ Die(c)

Spec == Init /\ [][Next]_vars

-----------------------------------------------------------------------------
(* Properties.                                                             *)

TypeOK ==
    /\ store \in [Packs -> Dir \cup {None}]
    /\ libs \subseteq Libs
    /\ pc \in [Chats -> {"idle", "fetch", "extract", "zip", "pip"}]
    /\ ops \in [Chats -> 0 .. MaxOps]
    /\ uploads \in [Chats -> Seq(Archives)]
    /\ archive \in [Chats -> Archives \cup {None}]
    /\ target \in [Chats -> Packs \cup {None}]
    /\ todo \in [Chats -> SUBSET Names]
    /\ installed \in [Chats -> SUBSET Packs]
    /\ zip \in [Chats -> Dir]
    /\ wanted \in [Chats -> SUBSET Libs]
    /\ faults \in 0 .. MaxFaults
    /\ shown \in [Chats -> SUBSET Packs]
    /\ outdated \in [Chats -> BOOLEAN]
    /\ touched \in [Chats -> SUBSET Packs] /\ retried \in [Chats -> SUBSET Packs]
    /\ mixed \subseteq Packs

\* Between installs, a pack that is listed as valid has the files of one archive, all
\* of them and no others, unless its last installs overlapped or broke, or a removal left
\* something of it (skill_manager_tool.py:127-148).
PacksWhole ==
    \A p \in Packs : Sound(p) /\ Extracting(p) = {} /\ p \notin mixed =>
        store[p] = Whole(store[p][Manifest])

\* What an install says it installed is there and valid, unless another conversation
\* wrote to it or a later upload of the same command had the same directory
\* (skill_manager_tool.py:99-112).
ReportedIsThere ==
    [][\A c \in Chats : Report(c) =>
           \A p \in installed[c] : Sound(p) \/ p \in touched[c] \cup retried[c]]_vars

\* A remove by number deletes what stood at that number in the last list of the user,
\* or what of it can be deleted, and nothing else, unless another conversation, or a
\* command of this one that failed or ended without a list, has changed the directories
\* since (skill_manager_tool.py:72, 190-198 and packages.py:172-195).
RemovedAsShown ==
    [][\A c \in Chats, n \in 1 .. Cardinality(Packs) : RemovePack(c, n) /\ ~ outdated[c] =>
           \E p \in Numbered(shown[c], n) :
               /\ store'[p] = None \/ faults' > faults
               /\ \A q \in Packs \ {p} : store'[q] = store[q]]_vars

\* A download holds the directory as it was at one moment, unless another conversation
\* wrote to it meanwhile (skill_manager_tool.py:205-217).
DownloadIsOneMoment ==
    [][\A c \in Chats : Send(c) =>
           zip[c] = store[target[c]] \/ target[c] \in touched[c]]_vars

\* When the user is told that the dependencies are installed, every valid pack has the
\* packages that pip may be asked for, but for packs others wrote to while pip ran
\* (skill_manager_tool.py:150-173).  It may still lack others.
DependenciesServed ==
    [][\A c \in Chats : PipSucceeds(c) =>
           \A p \in Packs : Sound(p) =>
               Asked(store[p][Manifest]) \subseteq libs' \/ p \in touched[c]]_vars
=============================================================================
