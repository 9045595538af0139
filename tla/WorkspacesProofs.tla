--------------------------- MODULE WorkspacesProofs ---------------------------
(***************************************************************************)
(* Proofs about Workspaces: its types, and that a rotation spares what a   *)
(* turn exports from a directory it made itself.                           *)
(*                                                                         *)
(* Directories are told apart by the number of the turn that named them:   *)
(* what exists, is listed or is to be removed was named by a turn that has *)
(* begun (Named), so a directory just named is in no rotation.  From then  *)
(* on whatever changes after it is noticed by its turn (Ranked), so when a *)
(* rotation finds it overdue, as many others as are kept were noticed, and *)
(* until then nobody is about to remove it (Spared).                       *)
(***************************************************************************)
EXTENDS Workspaces, FiniteSetTheorems, TLAPS

\* Types of the disk: the times order the directories that exist.
TimesOK ==
    /\ existing \subseteq Dirs /\ later \in [Dirs -> SUBSET existing]
    /\ \A d \in Dirs \ existing : later[d] = {}

Ordered ==
    /\ \A d, e \in existing : d # e => (d \in later[e] <=> e \notin later[d])
    /\ \A d \in existing : d \notin later[d] /\ \A e \in later[d] : later[e] \subseteq later[d]

FilesOK ==
    /\ files \in [Dirs -> SUBSET Paths]
    /\ \A d \in Dirs \ existing : files[d] = {}

\* Types of the turns.
TurnOK ==
    /\ sessionDir \in [Chats -> Dirs \cup {None}]
    /\ pc \in [Chats -> {"idle", "open", "opened", "listed", "rotate", "agent", "deliver"}]
    /\ turns \in [Chats -> 0 .. MaxTurns]
    /\ dir \in [Chats -> Dirs \cup {None}]
    /\ listed \in [Chats -> SUBSET Dirs] /\ stale \in [Chats -> SUBSET Dirs]
    /\ artifacts \in [Chats -> SUBSET Paths] /\ unread \in [Chats -> SUBSET Paths]
    /\ opening \in [Chats -> Paths \cup {None}] /\ missed \in [Chats -> SUBSET Paths]
    /\ faults \in 0 .. MaxFaults
    /\ newer \in [Chats -> SUBSET Dirs]

\* A turn in progress has its directory, one that is over has nothing.
Working ==
    \A c \in Chats :
        /\ IF pc[c] = "idle" THEN dir[c] = None /\ artifacts[c] = {} ELSE dir[c] # None
        /\ unread[c] \subseteq artifacts[c]

Typed == TimesOK /\ FilesOK /\ Ordered /\ TurnOK /\ Working

\* The directories that turns which have begun may have named.
Begun == {d \in Dirs : d[2] <= turns[d[1]]}

Named ==
    /\ existing \subseteq Begun
    /\ \A c \in Chats :
          /\ listed[c] \subseteq Begun /\ stale[c] \subseteq Begun
          /\ sessionDir[c] # None => sessionDir[c] \in Begun /\ sessionDir[c][1] = c
          /\ dir[c] # None => dir[c] \in Begun /\ dir[c][1] = c

\* The turn made its directory itself.
Fresh(c) == dir[c] \in Dirs /\ dir[c] = <<c, turns[c]>>

Ranked ==
    \A c \in Chats : /\ IsFiniteSet(newer[c])
                     /\ Fresh(c) => later[dir[c]] \subseteq newer[c]

Spared ==
    \A c \in Chats :
        Fresh(c) /\ ~ Cardinality(newer[c]) >= Keep =>
            /\ \A x \in Chats : dir[c] \notin stale[x]
            /\ artifacts[c] \subseteq files[dir[c]]

RotationInv == Typed /\ Named /\ Ranked /\ Spared

-----------------------------------------------------------------------------
(* Types.                                                                  *)

\* A directory changed now comes after all others.
LEMMA TouchOrdered ==
    ASSUME TimesOK, Ordered, NEW d \in Dirs, Touch(d)
    PROVE  TimesOK' /\ Ordered'
<1>1. /\ existing' = existing \cup {d}
      /\ later' = [e \in Dirs |-> IF e \in existing \ {d} THEN later[e] \cup {d} ELSE {}]
  BY DEF Touch
<1>2. /\ later'[d] = {}
      /\ \A e \in existing \ {d} : later'[e] = later[e] \cup {d}
      /\ \A e \in Dirs \ existing : later'[e] = {}
  BY <1>1 DEF TimesOK
<1>3. TimesOK'
  BY <1>1, <1>2 DEF TimesOK
<1>4. ASSUME NEW e \in existing', NEW f \in existing', e # f
      PROVE  e \in later'[f] <=> f \notin later'[e]
  <2>1. CASE e = d
    BY <1>1, <1>2, <1>4, <2>1 DEF TimesOK
  <2>2. CASE f = d
    BY <1>1, <1>2, <1>4, <2>2 DEF TimesOK
  <2>3. CASE e # d /\ f # d
    BY <1>1, <1>2, <1>4, <2>3 DEF TimesOK, Ordered
  <2> QED BY <2>1, <2>2, <2>3
<1>5. ASSUME NEW e \in existing'
      PROVE  e \notin later'[e] /\ \A f \in later'[e] : later'[f] \subseteq later'[e]
  <2>1. CASE e = d
    BY <1>2, <2>1
  <2>2. CASE e # d
    BY <1>1, <1>2, <1>5, <2>2 DEF TimesOK, Ordered
  <2> QED BY <2>1, <2>2
<1> QED BY <1>3, <1>4, <1>5 DEF Ordered

\* One that is removed leaves the order of the others.
LEMMA RemovalOrdered ==
    ASSUME TimesOK, Ordered, NEW d \in Dirs,
           existing' = existing \ {d},
           later' = [e \in Dirs |-> IF e = d THEN {} ELSE later[e] \ {d}]
    PROVE  TimesOK' /\ Ordered'
<1>1. later'[d] = {} /\ \A e \in Dirs \ {d} : later'[e] = later[e] \ {d}
  OBVIOUS
<1>2. TimesOK'
  BY <1>1 DEF TimesOK
<1>3. existing' \subseteq existing /\ d \notin existing'
  OBVIOUS
<1>4. \A e, f \in existing' : e # f => (e \in later'[f] <=> f \notin later'[e])
  BY <1>1, <1>3 DEF TimesOK, Ordered
<1>5. ASSUME NEW e \in existing', NEW f \in later'[e]
      PROVE  later'[f] \subseteq later'[e]
  <2>1. e \in Dirs \ {d} /\ e \in existing /\ f \in later[e] /\ f # d
    BY <1>1, <1>3, <1>5 DEF TimesOK
  <2>2. later[f] \subseteq later[e] /\ f \in Dirs
    BY <2>1 DEF TimesOK, Ordered
  <2> QED BY <1>1, <2>1, <2>2
<1>6. \A e \in existing' : e \notin later'[e]
  BY <1>1, <1>3 DEF TimesOK, Ordered
<1> QED BY <1>2, <1>4, <1>5, <1>6 DEF Ordered

\* The directory of a turn is one, while it lasts.
LEMMA DirOfTurn ==
    ASSUME TurnOK, Working, NEW c \in Chats, pc[c] # "idle"
    PROVE  dir[c] \in Dirs
BY DEF TurnOK, Working

LEMMA NoticedTyped ==
    ASSUME TurnOK, NEW d \in Dirs, Touch(d)
    PROVE  newer' \in [Chats -> SUBSET Dirs]
BY DEF TurnOK, Touch

\* Making sure that a directory exists keeps the times in order, and it does exist.
LEMMA MakeDirsTyped ==
    ASSUME TimesOK, Ordered, TurnOK, NEW d \in Dirs, MakeDirs(d)
    PROVE  /\ TimesOK' /\ Ordered' /\ existing' = existing \cup {d}
           /\ newer' \in [Chats -> SUBSET Dirs]
<1>1. CASE d \in existing
  BY <1>1 DEF MakeDirs, timeVars, TimesOK, Ordered, TurnOK
<1>2. CASE d \notin existing
  <2>1. Touch(d)
    BY <1>2 DEF MakeDirs
  <2> QED BY <2>1, TouchOrdered, NoticedTyped DEF Touch
<1> QED BY <1>1, <1>2

LEMMA TypedInit == ASSUME Init PROVE Typed
<1>1. TimesOK /\ FilesOK /\ Ordered
  BY DEF Init, TimesOK, FilesOK, Ordered
<1>2. TurnOK
  BY WorkspacesConstants DEF Init, TurnOK
<1> QED BY <1>1, <1>2 DEF Init, Typed, Working

\* A turn that begins has a directory, an idle one has none: the phases move on.
LEMMA StartTyped ==
    ASSUME Typed, NEW c \in Chats, NEW d \in Dirs,
           pc[c] = "idle", turns[c] < MaxTurns, StartTurn(c, d),
           sessionDir' \in [Chats -> Dirs \cup {None}], faults' \in 0 .. MaxFaults
    PROVE  Typed'
<1>1. TimesOK' /\ FilesOK' /\ Ordered'
  BY DEF Typed, StartTurn, diskVars, timeVars, TimesOK, FilesOK, Ordered
<1>2. turns' \in [Chats -> 0 .. MaxTurns]
  BY WorkspacesConstants DEF Typed, TurnOK, StartTurn
<1>3. /\ pc' \in [Chats -> {"idle", "open", "opened", "listed", "rotate", "agent", "deliver"}]
      /\ dir' \in [Chats -> Dirs \cup {None}] /\ missed' \in [Chats -> SUBSET Paths]
  BY DEF Typed, TurnOK, StartTurn, Goto
<1>4. UNCHANGED <<listed, stale, artifacts, unread, opening, newer>>
  BY DEF StartTurn, rotationVars, exportVars, readVars
<1>5. TurnOK'
  BY <1>2, <1>3, <1>4 DEF Typed, TurnOK
<1>6. Working'
  BY WorkspacesConstants, <1>4 DEF Typed, TurnOK, Working, StartTurn, Goto
<1> QED BY <1>1, <1>5, <1>6 DEF Typed

\* A turn that ends leaves nothing.
LEMMA EndTyped ==
    ASSUME Typed, NEW c \in Chats, EndTurn(c),
           missed' \in [Chats -> SUBSET Paths], faults' \in 0 .. MaxFaults
    PROVE  Typed'
<1>1. TimesOK' /\ FilesOK' /\ Ordered'
  BY DEF Typed, EndTurn, diskVars, timeVars, TimesOK, FilesOK, Ordered
<1>2. TurnOK'
  BY DEF Typed, TurnOK, EndTurn, Goto
<1>3. Working'
  BY DEF Typed, TurnOK, Working, EndTurn, Goto
<1> QED BY <1>1, <1>2, <1>3 DEF Typed

LEMMA FaultTyped == ASSUME TurnOK, Fault PROVE faults' \in 0 .. MaxFaults
BY WorkspacesConstants DEF TurnOK, Fault

\* Files come to a directory that exists then.
LEMMA FilesGrow ==
    ASSUME FilesOK, NEW d \in Dirs, NEW fs \in SUBSET Paths,
           files' = [files EXCEPT ![d] = @ \cup fs],
           existing \subseteq existing', fs # {} => d \in existing'
    PROVE  FilesOK'
BY DEF FilesOK

\* An access of a turn to its directory: of its own state only the phase and the exports
\* change.
LEMMA AccessTyped ==
    ASSUME Typed, NEW c \in Chats, pc[c] # "idle",
           TimesOK', Ordered', FilesOK', newer' \in [Chats -> SUBSET Dirs],
           Goto(c, "opened") \/ Goto(c, "agent"),
           artifacts' \in [Chats -> SUBSET Paths],
           \A x \in Chats : artifacts[x] \subseteq artifacts'[x],
           \A x \in Chats \ {c} : artifacts'[x] = artifacts[x],
           faults' \in 0 .. MaxFaults,
           UNCHANGED <<sessionDir, turns, dir, rotationVars, readVars, missed>>
    PROVE  Typed'
<1>1. TurnOK'
  BY DEF Typed, TurnOK, Goto, rotationVars, readVars
<1>2. Working'
  BY DEF Typed, TurnOK, Working, Goto, readVars
<1> QED BY <1>1, <1>2 DEF Typed

\* A step of the delivery: only what is still to be read, and what is missed, changes.
LEMMA DeliveryTyped ==
    ASSUME Typed, NEW c \in Chats, pc[c] # "idle", Goto(c, "deliver"),
           unread' \in [Chats -> SUBSET Paths], opening' \in [Chats -> Paths \cup {None}],
           missed' \in [Chats -> SUBSET Paths],
           \A x \in Chats : unread'[x] \subseteq artifacts[x],
           UNCHANGED <<sessionDir, diskVars, turns, dir, rotationVars, artifacts, faults, newer>>
    PROVE  Typed'
<1>1. TimesOK' /\ FilesOK' /\ Ordered'
  BY DEF Typed, diskVars, timeVars, TimesOK, FilesOK, Ordered
<1>2. TurnOK'
  BY DEF Typed, TurnOK, Goto, rotationVars
<1>3. Working'
  BY DEF Typed, TurnOK, Working, Goto
<1> QED BY <1>1, <1>2, <1>3 DEF Typed

LEMMA TypedStep == ASSUME Typed, [Next]_vars PROVE Typed'
<1> USE DEF Typed
<1>1. CASE UNCHANGED vars
  BY <1>1 DEF vars, diskVars, timeVars, rotationVars, exportVars, readVars, TimesOK, FilesOK,
     Ordered, TurnOK, Working
<1>2. ASSUME NEW c \in Chats, ReuseDir(c) PROVE Typed'
  <2>1. sessionDir[c] \in Dirs /\ UNCHANGED <<sessionDir, faults>>
    BY <1>2 DEF ReuseDir, TimesOK
  <2>2. sessionDir' \in [Chats -> Dirs \cup {None}] /\ faults' \in 0 .. MaxFaults
    BY <2>1 DEF TurnOK
  <2> QED BY <1>2, <2>1, <2>2, StartTyped DEF ReuseDir
<1>3. ASSUME NEW c \in Chats, NameDir(c) PROVE Typed'
  <2> DEFINE d == <<c, turns[c] + 1>>
  <2>1. d \in Dirs
    BY <1>3, WorkspacesConstants DEF NameDir, TurnOK, Dirs
  <2>2. /\ pc[c] = "idle" /\ turns[c] < MaxTurns /\ StartTurn(c, d)
        /\ UNCHANGED faults \/ Fault
        /\ UNCHANGED sessionDir \/ sessionDir' = [sessionDir EXCEPT ![c] = d]
    BY <1>3 DEF NameDir
  <2>3. sessionDir' \in [Chats -> Dirs \cup {None}] /\ faults' \in 0 .. MaxFaults
    BY <2>1, <2>2, FaultTyped DEF TurnOK
  <2> HIDE DEF d
  <2> QED BY <2>1, <2>2, <2>3, StartTyped
<1>4. ASSUME NEW c \in Chats, OpenDir(c) PROVE Typed'
  <2>1. pc[c] # "idle" /\ MakeDirs(dir[c]) /\ Goto(c, "opened")
    BY <1>4 DEF OpenDir
  <2>2. /\ TimesOK' /\ Ordered' /\ newer' \in [Chats -> SUBSET Dirs]
        /\ existing \subseteq existing'
    BY <2>1, DirOfTurn, MakeDirsTyped
  <2>3. /\ FilesOK' /\ artifacts' \in [Chats -> SUBSET Paths] /\ UNCHANGED artifacts
        /\ faults' \in 0 .. MaxFaults
        /\ UNCHANGED <<sessionDir, turns, dir, rotationVars, readVars, missed>>
    BY <1>4, <2>2 DEF OpenDir, TurnOK, FilesOK, exportVars
  <2> QED BY <2>1, <2>2, <2>3, AccessTyped
<1>5. ASSUME NEW c \in Chats, ListDirs(c) PROVE Typed'
  BY <1>5 DEF ListDirs, diskVars, timeVars, exportVars, readVars, Goto, TimesOK, FilesOK, Ordered,
     TurnOK, Working
<1>6. ASSUME NEW c \in Chats, Sort(c) PROVE Typed'
  <2>1. Overdue(c) \subseteq Dirs
    BY DEF Overdue, TurnOK
  <2> QED BY <1>6, <2>1 DEF Sort, diskVars, timeVars, exportVars, readVars, Goto, TimesOK,
             FilesOK, Ordered, TurnOK, Working
<1>7. ASSUME NEW c \in Chats, SortFails(c) PROVE Typed'
  BY <1>7, EndTyped DEF SortFails, TurnOK
<1>8. ASSUME NEW c \in Chats, NEW d \in Dirs, RemoveDir(c, d) PROVE Typed'
  <2>1. TimesOK' /\ Ordered'
    BY <1>8, RemovalOrdered DEF RemoveDir
  <2>2. FilesOK'
    BY <1>8 DEF RemoveDir, FilesOK, TimesOK
  <2>3. TurnOK' /\ Working'
    BY <1>8 DEF RemoveDir, exportVars, readVars, TurnOK, Working
  <2> QED BY <2>1, <2>2, <2>3
<1>9. ASSUME NEW c \in Chats, SaveUploads(c) PROVE Typed'
  <2>1. UNCHANGED faults \/ Fault
    BY <1>9 DEF SaveUploads
  <2>2. /\ pc[c] # "idle" /\ Goto(c, "agent")
        /\ UNCHANGED <<sessionDir, timeVars, turns, dir, rotationVars, artifacts, readVars, newer,
                       missed>>
    BY <1>9 DEF SaveUploads, exportVars
  <2>3. TimesOK' /\ Ordered' /\ newer' \in [Chats -> SUBSET Dirs] /\ existing' = existing
    BY <2>2 DEF timeVars, TimesOK, Ordered, TurnOK
  <2>4. artifacts' \in [Chats -> SUBSET Paths] /\ UNCHANGED artifacts
    BY <2>2 DEF TurnOK
  <2>5. faults' \in 0 .. MaxFaults
    BY <2>1, FaultTyped DEF TurnOK
  <2>6. FilesOK'
    <3>1. CASE UNCHANGED files
      BY <2>3, <3>1 DEF FilesOK
    <3>2. CASE dir[c] \in existing /\ files' = [files EXCEPT ![dir[c]] = @ \cup {"upload"}]
      BY <2>3, <3>2, FilesGrow DEF Paths, TimesOK
    <3> QED BY <1>9, <3>1, <3>2 DEF SaveUploads
  <2> QED BY <2>2, <2>3, <2>4, <2>5, <2>6, AccessTyped
<1>10. ASSUME NEW c \in Chats, Look(c) PROVE Typed'
  <2>1. pc[c] = "agent" /\ MakeDirs(dir[c]) /\ UNCHANGED pc
    BY <1>10 DEF Look, InAgent
  <2>2. /\ TimesOK' /\ Ordered' /\ newer' \in [Chats -> SUBSET Dirs]
        /\ existing \subseteq existing'
    BY <2>1, DirOfTurn, MakeDirsTyped
  <2>3. /\ FilesOK' /\ Goto(c, "agent")
        /\ artifacts' \in [Chats -> SUBSET Paths] /\ UNCHANGED artifacts
        /\ faults' \in 0 .. MaxFaults
        /\ UNCHANGED <<sessionDir, turns, dir, rotationVars, readVars, missed>>
    BY <1>10, <2>1, <2>2 DEF Look, TurnOK, FilesOK, Goto, exportVars
  <2> QED BY <2>1, <2>2, <2>3, AccessTyped
<1>11. ASSUME NEW c \in Chats, NEW f \in TopFiles, WriteFile(c, f) PROVE Typed'
  <2>1. pc[c] = "agent" /\ UNCHANGED pc /\ dir[c] \in Dirs
    BY <1>11, DirOfTurn DEF WriteFile, InAgent
  <2>2. /\ TimesOK' /\ Ordered' /\ newer' \in [Chats -> SUBSET Dirs]
        /\ existing \subseteq existing' /\ dir[c] \in existing'
    <3>1. CASE f \in files[dir[c]]
      <4>1. dir[c] \in existing /\ UNCHANGED <<timeVars, newer>>
        BY <1>11, <2>1, <3>1 DEF WriteFile, FilesOK
      <4> QED BY <4>1 DEF timeVars, TimesOK, Ordered, TurnOK
    <3>2. CASE f \notin files[dir[c]]
      <4>1. Touch(dir[c])
        BY <1>11, <3>2 DEF WriteFile
      <4> QED BY <2>1, <4>1, TouchOrdered, NoticedTyped DEF Touch
    <3> QED BY <3>1, <3>2
  <2>3. {f} \in SUBSET Paths
    BY DEF Paths
  <2>4. FilesOK'
    BY <1>11, <2>1, <2>2, <2>3, FilesGrow DEF WriteFile
  <2>5. /\ Goto(c, "agent") /\ artifacts' \in [Chats -> SUBSET Paths] /\ UNCHANGED artifacts
        /\ faults' \in 0 .. MaxFaults
        /\ UNCHANGED <<sessionDir, turns, dir, rotationVars, readVars, missed>>
    BY <1>11, <2>1 DEF WriteFile, TurnOK, Goto, exportVars
  <2> QED BY <2>1, <2>2, <2>4, <2>5, AccessTyped
<1>12. ASSUME NEW c \in Chats, NEW p \in Paths, ExportFile(c, p) PROVE Typed'
  <2>1. pc[c] = "agent" /\ UNCHANGED <<pc, diskVars, newer>>
    BY <1>12 DEF ExportFile, InAgent
  <2>2. TimesOK' /\ Ordered' /\ newer' \in [Chats -> SUBSET Dirs] /\ existing' = existing
    BY <2>1 DEF diskVars, timeVars, TimesOK, Ordered, TurnOK
  <2>3. /\ FilesOK' /\ Goto(c, "agent")
        /\ artifacts' = [artifacts EXCEPT ![c] = @ \cup {p}]
        /\ faults' \in 0 .. MaxFaults
        /\ UNCHANGED <<sessionDir, turns, dir, rotationVars, readVars, missed>>
    BY <1>12, <2>1 DEF ExportFile, diskVars, timeVars, FilesOK, TurnOK, Goto
  <2>4. /\ artifacts' \in [Chats -> SUBSET Paths]
        /\ \A x \in Chats \ {c} : artifacts'[x] = artifacts[x]
    BY <2>3 DEF TurnOK
  <2> QED BY <2>4, <2>1, <2>2, <2>3, AccessTyped
<1>13. ASSUME NEW c \in Chats, Deliver(c) PROVE Typed'
  <2>1. missed' \in [Chats -> SUBSET Paths] /\ faults' \in 0 .. MaxFaults
    BY <1>13 DEF Deliver, TurnOK
  <2> QED BY <1>13, <2>1, EndTyped DEF Deliver
<1>14. ASSUME NEW c \in Chats, Die(c) PROVE Typed'
  <2>1. missed' \in [Chats -> SUBSET Paths] /\ faults' \in 0 .. MaxFaults
    BY <1>14, FaultTyped DEF Die, TurnOK
  <2> QED BY <1>14, <2>1, EndTyped DEF Die
<1>15. ASSUME NEW c \in Chats, BeginDelivery(c) PROVE Typed'
  <2>1. /\ pc[c] # "idle" /\ Goto(c, "deliver") /\ unread' = [unread EXCEPT ![c] = artifacts[c]]
        /\ UNCHANGED <<opening, missed>>
        /\ UNCHANGED <<sessionDir, diskVars, turns, dir, rotationVars, artifacts, faults, newer>>
    BY <1>15 DEF BeginDelivery, InAgent
  <2>2. /\ unread' \in [Chats -> SUBSET Paths] /\ opening' \in [Chats -> Paths \cup {None}]
        /\ missed' \in [Chats -> SUBSET Paths] /\ \A x \in Chats : unread'[x] \subseteq artifacts[x]
    BY <2>1 DEF TurnOK, Working
  <2> QED BY <2>1, <2>2, DeliveryTyped
<1>16. ASSUME NEW c \in Chats, NEW p \in Paths, SkipExport(c, p) \/ FindExport(c, p) \/ ReadExport(c, p)
       PROVE  Typed'
  <2>1. /\ pc[c] = "deliver" /\ UNCHANGED pc
        /\ unread' \in {unread, [unread EXCEPT ![c] = @ \ {p}]}
        /\ opening' \in {opening, [opening EXCEPT ![c] = p], [opening EXCEPT ![c] = None]}
        /\ missed' \in {missed, [missed EXCEPT ![c] = @ \cup {p}]}
        /\ UNCHANGED <<sessionDir, diskVars, turns, dir, rotationVars, artifacts, faults, newer>>
    BY <1>16 DEF SkipExport, FindExport, ReadExport, Reading
  <2>2. unread' \in [Chats -> SUBSET Paths] /\ \A x \in Chats : unread'[x] \subseteq artifacts[x]
    BY <2>1 DEF TurnOK, Working
  <2>3. opening' \in [Chats -> Paths \cup {None}] /\ missed' \in [Chats -> SUBSET Paths]
    BY <2>1 DEF TurnOK
  <2>4. Goto(c, "deliver")
    BY <2>1 DEF Goto, TurnOK
  <2> QED BY <2>1, <2>2, <2>3, <2>4, DeliveryTyped
<1>17. ASSUME NEW c \in Chats, NEW p \in Paths, OpenFails(c, p) PROVE Typed'
  <2>1. missed' \in [Chats -> SUBSET Paths] /\ faults' \in 0 .. MaxFaults
    BY <1>17 DEF OpenFails, TurnOK
  <2> QED BY <1>17, <2>1, EndTyped DEF OpenFails
<1> QED BY <1>1, <1>2, <1>3, <1>4, <1>5, <1>6, <1>7, <1>8, <1>9, <1>10, <1>11, <1>12,
           <1>13, <1>14, <1>15, <1>16, <1>17 DEF Next

\* Types, and what the disk promises: of two directories one was changed later, one that
\* does not exist has no files (workspace.py:20-42, 80-99).
THEOREM WorkspacesTypeOK == Spec => []TypeOK
<1>1. Typed => TypeOK
  BY DEF Typed, TimesOK, FilesOK, Ordered, TurnOK, TypeOK
<1> QED BY <1>1, TypedInit, TypedStep, PTL DEF Spec

-----------------------------------------------------------------------------
(* Names.                                                                  *)

\* A turn begins with a directory named by its conversation, now or earlier.
LEMMA StartNamed ==
    ASSUME Typed, Named, NEW c \in Chats, NEW d \in Dirs, StartTurn(c, d),
           turns[c] < MaxTurns, d[1] = c, d[2] <= turns[c] + 1,
           sessionDir' \in {sessionDir, [sessionDir EXCEPT ![c] = d]}
    PROVE  Named'
<1>1. /\ turns' = [turns EXCEPT ![c] = @ + 1] /\ dir' = [dir EXCEPT ![c] = d]
      /\ UNCHANGED <<existing, listed, stale>>
  BY DEF StartTurn, diskVars, timeVars, rotationVars
<1>2. \A x \in Chats : turns[x] \in Nat /\ turns'[x] \in Nat /\ turns[x] <= turns'[x]
  BY <1>1, WorkspacesConstants DEF Typed, TurnOK
<1>3. ASSUME NEW e \in Begun PROVE e \in Begun'
  <2>1. e \in Dirs /\ e[1] \in Chats /\ e[2] \in Nat /\ e[2] <= turns[e[1]]
    BY <1>3 DEF Begun, Dirs
  <2> QED BY <1>2, <2>1 DEF Begun
<1>4. d \in Begun'
  BY <1>1 DEF Typed, TurnOK, Begun
<1>5. existing' \subseteq Begun'
  BY <1>1, <1>3 DEF Named
<1>6. ASSUME NEW x \in Chats
      PROVE  /\ listed'[x] \subseteq Begun' /\ stale'[x] \subseteq Begun'
             /\ sessionDir'[x] # None => sessionDir'[x] \in Begun' /\ sessionDir'[x][1] = x
             /\ dir'[x] # None => dir'[x] \in Begun' /\ dir'[x][1] = x
  <2>1. listed'[x] \subseteq Begun' /\ stale'[x] \subseteq Begun'
    BY <1>1, <1>3 DEF Named
  <2>2. dir'[x] # None => dir'[x] \in Begun' /\ dir'[x][1] = x
    BY <1>1, <1>3, <1>4 DEF Typed, TurnOK, Named
  <2>3. sessionDir'[x] # None => sessionDir'[x] \in Begun' /\ sessionDir'[x][1] = x
    BY <1>3, <1>4 DEF Typed, TurnOK, Named
  <2> QED BY <2>1, <2>2, <2>3
<1> QED BY <1>5, <1>6 DEF Named

LEMMA EndNamed ==
    ASSUME Typed, Named, NEW c \in Chats, EndTurn(c)
    PROVE  Named'
<1>1. Begun' = Begun
  BY DEF EndTurn, Begun
<1> QED BY <1>1 DEF EndTurn, diskVars, timeVars, Typed, TurnOK, Named

\* In between only directories of turns in progress are made.
LEMMA BetweenNamed ==
    ASSUME Typed, Named, UNCHANGED <<sessionDir, turns, dir>>, NEW c \in Chats,
           existing' \subseteq existing \cup ({dir[c]} \ {None}),
           \A x \in Chats : /\ listed'[x] \subseteq listed[x] \cup existing
                            /\ stale'[x] \subseteq stale[x] \cup listed[x]
    PROVE  Named'
<1>1. Begun' = Begun
  BY DEF Begun
<1>2. existing' \subseteq Begun
  BY DEF Named
<1>3. \A x \in Chats : listed'[x] \subseteq Begun /\ stale'[x] \subseteq Begun
  BY DEF Named
<1> QED BY <1>1, <1>2, <1>3 DEF Named

-----------------------------------------------------------------------------
(* Kinds of steps, as far as a rotation sees them.                         *)

\* A turn in progress uses the disk: at most its own directory becomes the newest, files
\* are added, and what is exported is there.
Uses(c) ==
    /\ dir[c] \in Dirs
    /\ UNCHANGED <<timeVars, newer>> \/ Touch(dir[c])
    /\ \A d \in Dirs : files[d] \subseteq files'[d]
    /\ artifacts' = artifacts \/ \E p \in files[dir[c]] :
                                    artifacts' = [artifacts EXCEPT ![c] = @ \cup {p}]
    /\ \A x \in Chats : listed'[x] \subseteq listed[x] \cup existing
    /\ UNCHANGED <<sessionDir, turns, dir, stale, missed>>

\* It begins, with a directory of its own or one of an earlier turn.
Begins(c, d) ==
    /\ pc[c] = "idle" /\ StartTurn(c, d)
    /\ turns[c] < MaxTurns /\ d[1] = c /\ d[2] <= turns[c] + 1
    /\ sessionDir' \in {sessionDir, [sessionDir EXCEPT ![c] = d]}

\* What is not delivered was exported and is gone.
MissesOnly(c) ==
    /\ missed'[c] # {} /\ missed[c] = {} => dir[c] \in Dirs /\ ~ artifacts[c] \subseteq files[dir[c]]
    /\ \A x \in Chats \ {c} : missed'[x] = missed[x]

\* The exports are read back.
Reads(c) ==
    /\ MissesOnly(c)
    /\ UNCHANGED <<sessionDir, diskVars, turns, dir, rotationVars, artifacts, newer>>

\* It ends.
Ends(c) == EndTurn(c) /\ MissesOnly(c)

LEMMA Kinds ==
    ASSUME Typed, Named, Next
    PROVE  \E c \in Chats :
              \/ Uses(c) \/ Reads(c) \/ Ends(c) \/ Sort(c)
              \/ \E d \in Dirs : Begins(c, d) \/ RemoveDir(c, d)
<1> USE DEF Typed
<1> SUFFICES ASSUME NEW c \in Chats,
                    \/ ReuseDir(c) \/ NameDir(c) \/ OpenDir(c)
                    \/ ListDirs(c) \/ Sort(c) \/ SortFails(c)
                    \/ \E d \in Dirs : RemoveDir(c, d)
                    \/ SaveUploads(c) \/ Look(c)
                    \/ \E f \in TopFiles : WriteFile(c, f)
                    \/ \E p \in Paths : ExportFile(c, p)
                    \/ BeginDelivery(c)
                    \/ \E p \in Paths : \/ SkipExport(c, p) \/ FindExport(c, p)
                                       \/ ReadExport(c, p) \/ OpenFails(c, p)
                    \/ Deliver(c) \/ Die(c)
             PROVE  \/ Uses(c) \/ Reads(c) \/ Ends(c) \/ Sort(c)
                    \/ \E d \in Dirs : Begins(c, d) \/ RemoveDir(c, d)
  BY DEF Next
<1>1. CASE ReuseDir(c)
  <2> DEFINE d == sessionDir[c]
  <2>1. /\ d \in existing /\ pc[c] = "idle" /\ turns[c] < MaxTurns /\ StartTurn(c, d)
        /\ UNCHANGED sessionDir
    BY <1>1 DEF ReuseDir
  <2>2. d \in Dirs /\ d # None
    BY <2>1, WorkspacesConstants DEF TimesOK
  <2>3. d[1] = c /\ d \in Begun
    BY <2>2 DEF Named
  <2>4. d[2] <= turns[c] + 1
    BY <2>3, WorkspacesConstants DEF TurnOK, Begun, Dirs
  <2> HIDE DEF d
  <2> QED BY <2>1, <2>2, <2>3, <2>4 DEF Begins
<1>2. CASE NameDir(c)
  <2> DEFINE d == <<c, turns[c] + 1>>
  <2>1. d \in Dirs /\ d[1] = c /\ d[2] <= turns[c] + 1
    BY <1>2, WorkspacesConstants DEF NameDir, TurnOK, Dirs
  <2>2. /\ pc[c] = "idle" /\ turns[c] < MaxTurns /\ StartTurn(c, d)
        /\ UNCHANGED sessionDir \/ sessionDir' = [sessionDir EXCEPT ![c] = d]
    BY <1>2 DEF NameDir
  <2> HIDE DEF d
  <2> QED BY <2>1, <2>2 DEF Begins
<1>3. CASE OpenDir(c)
  BY <1>3, DirOfTurn DEF OpenDir, MakeDirs, Uses, rotationVars, exportVars
<1>4. CASE ListDirs(c)
  <2>1. dir[c] \in Dirs
    BY <1>4, DirOfTurn DEF ListDirs
  <2>2. \A x \in Chats : listed'[x] \subseteq listed[x] \cup existing
    BY <1>4 DEF ListDirs, TurnOK
  <2> QED BY <1>4, <2>1, <2>2 DEF ListDirs, Uses, diskVars, timeVars, exportVars
<1>5. CASE SortFails(c)
  BY <1>5 DEF SortFails, Ends, MissesOnly
<1>6. CASE SaveUploads(c)
  <2>1. dir[c] \in Dirs
    BY <1>6, DirOfTurn DEF SaveUploads
  <2>2. \A d \in Dirs : files[d] \subseteq files'[d]
    BY <1>6 DEF SaveUploads, FilesOK
  <2> QED BY <1>6, <2>1, <2>2 DEF SaveUploads, Uses, rotationVars, exportVars
<1>7. CASE Look(c)
  <2>1. dir[c] \in Dirs
    BY <1>7, DirOfTurn DEF Look, InAgent
  <2> QED BY <1>7, <2>1 DEF Look, MakeDirs, Uses, rotationVars, exportVars
<1>8. ASSUME NEW f \in TopFiles, WriteFile(c, f) PROVE Uses(c)
  <2>1. dir[c] \in Dirs
    BY <1>8, DirOfTurn DEF WriteFile, InAgent
  <2>2. \A d \in Dirs : files[d] \subseteq files'[d]
    BY <1>8 DEF WriteFile, FilesOK
  <2> QED BY <1>8, <2>1, <2>2 DEF WriteFile, Uses, rotationVars, exportVars
<1>9. ASSUME NEW p \in Paths, ExportFile(c, p) PROVE Uses(c)
  <2>1. dir[c] \in Dirs
    BY <1>9, DirOfTurn DEF ExportFile, InAgent
  <2> QED BY <1>9, <2>1 DEF ExportFile, Uses, rotationVars, diskVars, timeVars
<1>10. CASE BeginDelivery(c)
  BY <1>10 DEF BeginDelivery, Reads, MissesOnly
<1>11. CASE Deliver(c) \/ Die(c)
  BY <1>11 DEF Deliver, Die, Ends, MissesOnly
<1>12. ASSUME NEW p \in Paths, SkipExport(c, p) \/ OpenFails(c, p) PROVE MissesOnly(c)
  <2>1. dir[c] \in Dirs /\ p \in artifacts[c] /\ p \notin files[dir[c]]
    BY <1>12, DirOfTurn DEF SkipExport, OpenFails, Reading, Working
  <2>2. \A x \in Chats \ {c} : missed'[x] = missed[x]
    BY <1>12 DEF SkipExport, OpenFails, TurnOK
  <2> QED BY <2>1, <2>2 DEF MissesOnly
<1>13. ASSUME NEW p \in Paths, SkipExport(c, p) PROVE Reads(c)
  BY <1>12, <1>13 DEF SkipExport, Reads
<1>14. ASSUME NEW p \in Paths, OpenFails(c, p) PROVE Ends(c)
  BY <1>12, <1>14 DEF OpenFails, Ends
<1>15. ASSUME NEW p \in Paths, FindExport(c, p) \/ ReadExport(c, p) PROVE Reads(c)
  BY <1>15 DEF FindExport, ReadExport, Reads, MissesOnly
<1> QED
  BY <1>1, <1>2, <1>3, <1>4, <1>5, <1>6, <1>7, <1>8, <1>9, <1>10, <1>11, <1>13, <1>14, <1>15

LEMMA NamedStep == ASSUME Typed, Named, [Next]_vars PROVE Named'
<1>1. CASE UNCHANGED vars
  BY <1>1 DEF vars, diskVars, timeVars, rotationVars, Named, Begun
<1>2. ASSUME NEW c \in Chats, Uses(c) PROVE Named'
  <2>1. existing' \subseteq existing \cup ({dir[c]} \ {None})
    BY <1>2, WorkspacesConstants DEF Uses, Touch, timeVars
  <2> QED BY <1>2, <2>1, BetweenNamed DEF Uses
<1>3. ASSUME NEW c \in Chats, Sort(c) PROVE Named'
  <2>1. UNCHANGED <<sessionDir, turns, dir, existing>>
    BY <1>3 DEF Sort, diskVars, timeVars
  <2>2. \A x \in Chats : listed'[x] \subseteq listed[x] /\ stale'[x] \subseteq stale[x] \cup listed[x]
    BY <1>3 DEF Sort, Overdue, Typed, TurnOK
  <2> QED BY <2>1, <2>2, BetweenNamed
<1>4. ASSUME NEW c \in Chats, NEW d \in Dirs, RemoveDir(c, d) PROVE Named'
  <2>1. UNCHANGED <<sessionDir, turns, dir, listed>> /\ existing' \subseteq existing
    BY <1>4 DEF RemoveDir
  <2>2. \A x \in Chats : stale'[x] \subseteq stale[x]
    BY <1>4 DEF RemoveDir, Typed, TurnOK
  <2> QED BY <2>1, <2>2, BetweenNamed
<1>5. ASSUME NEW c \in Chats, NEW d \in Dirs, Begins(c, d) PROVE Named'
  BY <1>5, StartNamed DEF Begins
<1>6. ASSUME NEW c \in Chats, Ends(c) PROVE Named'
  BY <1>6, EndNamed DEF Ends
<1>7. ASSUME NEW c \in Chats, Reads(c) PROVE Named'
  BY <1>7 DEF Reads, diskVars, timeVars, rotationVars, Named, Begun
<1> QED BY <1>1, <1>2, <1>3, <1>4, <1>5, <1>6, <1>7, Kinds

-----------------------------------------------------------------------------
(* Exports of fresh directories.                                           *)

\* Whatever becomes the newest is noticed by every other turn, or was newer already.
LEMMA TouchRanked ==
    ASSUME Typed, Ranked, NEW d \in Dirs, Touch(d), UNCHANGED <<dir, turns>>
    PROVE  Ranked' /\ \A c \in Chats : newer[c] \subseteq newer'[c]
<1>1. \A c \in Chats : newer'[c] \in {newer[c], newer[c] \cup {d}}
  BY DEF Touch
<1>2. \A c \in Chats : IsFiniteSet(newer'[c])
  BY <1>1, FS_AddElement DEF Ranked
<1>3. ASSUME NEW c \in Chats, Fresh(c)
      PROVE  later'[dir[c]] \subseteq newer'[c]
  <2>1. dir[c] \in Dirs /\ later[dir[c]] \subseteq newer[c]
    BY <1>3 DEF Ranked, Fresh
  <2>2. CASE dir[c] = d \/ dir[c] \notin existing
    BY <2>1, <2>2 DEF Touch
  <2>3. CASE dir[c] # d /\ dir[c] \in existing
    <3>1. later'[dir[c]] = later[dir[c]] \cup {d} /\ dir[c] \notin {None, d}
      BY <2>1, <2>3, WorkspacesConstants DEF Touch
    <3>2. CASE IsNewest(d)
      <4>1. d \in later[dir[c]]
        BY <2>3, <3>2 DEF IsNewest, Typed, Ordered
      <4> QED BY <2>1, <3>1, <4>1, <1>1
    <3>3. CASE ~ IsNewest(d)
      BY <2>1, <3>1, <3>3 DEF Touch
    <3> QED BY <3>2, <3>3
  <2> QED BY <2>2, <2>3
<1>4. \A c \in Chats : Fresh(c)' <=> Fresh(c)
  BY DEF Fresh
<1> QED BY <1>1, <1>2, <1>3, <1>4 DEF Ranked

\* More that is noticed is more to be kept.
LEMMA MoreNoticed ==
    ASSUME NEW S, NEW T, IsFiniteSet(T), S \subseteq T, ~ Cardinality(T) >= Keep
    PROVE  ~ Cardinality(S) >= Keep
<1>1. IsFiniteSet(S) /\ Cardinality(S) <= Cardinality(T)
  BY FS_Subset
<1>2. Cardinality(S) \in Nat /\ Cardinality(T) \in Nat
  BY <1>1, FS_CardinalityType
<1> QED BY <1>1, <1>2, WorkspacesConstants

\* Whether a turn made its directory, and nothing of it is overdue.
LEMMA SparedKept ==
    ASSUME Typed, Ranked', Spared, UNCHANGED <<dir, turns>>,
           \A c \in Chats : newer[c] \subseteq newer'[c],
           \A c \in Chats : stale'[c] \subseteq stale[c],
           \A c \in Chats : Fresh(c) /\ ~ Cardinality(newer[c]) >= Keep =>
               /\ files[dir[c]] \subseteq files'[dir[c]]
               /\ artifacts'[c] \subseteq artifacts[c] \cup files[dir[c]]
    PROVE  Spared'
<1> SUFFICES ASSUME NEW c \in Chats, Fresh(c)', ~ Cardinality(newer'[c]) >= Keep
             PROVE  /\ \A x \in Chats : dir[c] \notin stale'[x]
                    /\ artifacts'[c] \subseteq files'[dir[c]]
  BY DEF Spared
<1>1. Fresh(c)
  BY DEF Fresh
<1>2. ~ Cardinality(newer[c]) >= Keep
  BY MoreNoticed DEF Ranked
<1>3. /\ \A x \in Chats : dir[c] \notin stale[x]
      /\ artifacts[c] \subseteq files[dir[c]]
  BY <1>1, <1>2 DEF Spared
<1> QED BY <1>1, <1>2, <1>3

\* Where less has changed than is kept, a fresh directory is not overdue.
LEMMA FreshNotOverdue ==
    ASSUME Ranked, NEW c \in Chats, Fresh(c), ~ Cardinality(newer[c]) >= Keep, NEW x \in Chats
    PROVE  dir[c] \notin Overdue(x)
<1>1. later[dir[c]] \cap listed[x] \subseteq newer[c] /\ IsFiniteSet(newer[c])
  BY DEF Ranked
<1>2. ~ Cardinality(later[dir[c]] \cap listed[x]) >= Keep
  BY <1>1, MoreNoticed
<1> QED BY <1>2 DEF Overdue

LEMMA RotationStep ==
    ASSUME RotationInv, [Next]_vars
    PROVE  Ranked' /\ Spared'
<1> USE DEF RotationInv
<1>0. Typed' /\ Named'
  BY TypedStep, NamedStep
<1>1. CASE UNCHANGED vars
  BY <1>1 DEF vars, diskVars, timeVars, rotationVars, exportVars, Ranked, Spared, Fresh
<1>2. ASSUME NEW c \in Chats, Uses(c) PROVE Ranked' /\ Spared'
  <2>1. Ranked' /\ \A x \in Chats : newer[x] \subseteq newer'[x]
    <3>1. CASE UNCHANGED <<timeVars, newer>>
      BY <1>2, <3>1 DEF Uses, timeVars, Ranked, Fresh
    <3>2. CASE Touch(dir[c])
      BY <1>2, <3>2, TouchRanked DEF Uses
    <3> QED BY <1>2, <3>1, <3>2 DEF Uses
  <2>2. \A x \in Chats : artifacts'[x] \subseteq artifacts[x] \cup files[dir[x]]
    BY <1>2 DEF Uses, Typed, TurnOK
  <2> QED BY <1>2, <2>1, <2>2, SparedKept DEF Uses, Fresh
<1>3. ASSUME NEW c \in Chats, Sort(c) PROVE Ranked' /\ Spared'
  <2>1. UNCHANGED <<dir, turns, existing, later, files, artifacts, newer>>
    BY <1>3 DEF Sort, diskVars, timeVars, exportVars
  <2>2. Ranked'
    BY <2>1 DEF Ranked, Fresh
  <2>3. \A x \in Chats : stale'[x] = stale[x] \/ stale'[x] = Overdue(c)
    BY <1>3 DEF Sort, Typed, TurnOK
  <2>4. ASSUME NEW x \in Chats, Fresh(x), ~ Cardinality(newer[x]) >= Keep, NEW y \in Chats
        PROVE  dir[x] \notin stale'[y]
    BY <2>3, <2>4, FreshNotOverdue DEF Spared
  <2> QED BY <2>1, <2>2, <2>4 DEF Spared, Fresh
<1>4. ASSUME NEW c \in Chats, NEW d \in Dirs, RemoveDir(c, d) PROVE Ranked' /\ Spared'
  <2>1. UNCHANGED <<dir, turns, artifacts, newer>> /\ d \in stale[c]
    BY <1>4 DEF RemoveDir, exportVars
  <2>2. \A e \in Dirs : later'[e] \subseteq later[e]
    BY <1>4 DEF RemoveDir
  <2>3. Ranked'
    BY <2>1, <2>2 DEF Ranked, Fresh
  <2>4. \A x \in Chats : stale'[x] \subseteq stale[x]
    BY <1>4 DEF RemoveDir, Typed, TurnOK
  <2>5. ASSUME NEW x \in Chats, Fresh(x), ~ Cardinality(newer[x]) >= Keep
        PROVE  files[dir[x]] \subseteq files'[dir[x]]
    <3>1. dir[x] # d /\ dir[x] \in Dirs
      BY <2>1, <2>5 DEF Spared, Fresh
    <3> QED BY <1>4, <3>1 DEF RemoveDir, Typed, FilesOK
  <2> QED BY <2>1, <2>3, <2>4, <2>5, SparedKept
<1>5. ASSUME NEW c \in Chats, NEW d \in Dirs, Begins(c, d) PROVE Ranked' /\ Spared'
  <2>1. /\ UNCHANGED <<existing, later, files, stale, artifacts, newer>>
        /\ dir' = [dir EXCEPT ![c] = d] /\ turns' = [turns EXCEPT ![c] = @ + 1]
        /\ pc[c] = "idle"
    BY <1>5 DEF Begins, StartTurn, diskVars, timeVars, rotationVars, exportVars
  <2>2. \A x \in Chats \ {c} : Fresh(x)' <=> Fresh(x) /\ dir'[x] = dir[x]
    BY <2>1 DEF Fresh, Typed, TurnOK
  <2>3. ASSUME Fresh(c)'
        PROVE  dir'[c] \in Dirs \ Begun
    <3>1. dir'[c] \in Dirs /\ dir'[c] = <<c, turns[c] + 1>>
      BY <2>1, <2>3 DEF Fresh, Typed, TurnOK
    <3>2. turns[c] \in Nat
      BY WorkspacesConstants DEF Typed, TurnOK
    <3> QED BY <3>1, <3>2 DEF Begun
  <2>4. Fresh(c)' => later[dir'[c]] = {} /\ \A x \in Chats : dir'[c] \notin stale[x]
    BY <2>3 DEF Named, Typed, TimesOK
  <2>5. artifacts[c] = {}
    BY <2>1 DEF Typed, Working
  <2>6. \A x \in Chats \ {c} : dir'[x] = dir[x]
    BY <2>1 DEF Typed, TurnOK
  <2>7. Ranked'
    BY <2>1, <2>2, <2>4, <2>6 DEF Ranked
  <2>8. Spared'
    BY <2>1, <2>2, <2>4, <2>5, <2>6 DEF Spared
  <2> QED BY <2>7, <2>8
<1>6. ASSUME NEW c \in Chats, Ends(c) PROVE Ranked' /\ Spared'
  <2>1. /\ UNCHANGED <<existing, later, files, turns>>
        /\ dir' = [dir EXCEPT ![c] = None] /\ newer' = [newer EXCEPT ![c] = {}]
        /\ stale' = [stale EXCEPT ![c] = {}] /\ artifacts' = [artifacts EXCEPT ![c] = {}]
    BY <1>6 DEF Ends, EndTurn, diskVars, timeVars
  <2>2. ~ Fresh(c)' /\ newer'[c] = {}
    BY <2>1, WorkspacesConstants DEF Fresh, Typed, TurnOK
  <2>3. \A x \in Chats \ {c} : /\ dir'[x] = dir[x] /\ newer'[x] = newer[x]
                               /\ artifacts'[x] = artifacts[x] /\ Fresh(x)' = Fresh(x)
    BY <2>1 DEF Fresh, Typed, TurnOK
  <2>4. \A x \in Chats : stale'[x] \subseteq stale[x]
    BY <2>1 DEF Typed, TurnOK
  <2>5. Ranked'
    BY <2>1, <2>2, <2>3, FS_EmptySet DEF Ranked
  <2>6. Spared'
    BY <2>1, <2>2, <2>3, <2>4 DEF Spared
  <2> QED BY <2>5, <2>6
<1>7. ASSUME NEW c \in Chats, Reads(c) PROVE Ranked' /\ Spared'
  BY <1>7 DEF Reads, diskVars, timeVars, rotationVars, Ranked, Spared, Fresh
<1> QED BY <1>1, <1>2, <1>3, <1>4, <1>5, <1>6, <1>7, Kinds

LEMMA RotationInit == ASSUME Init PROVE RotationInv
<1>1. Named
  BY DEF Init, Named
<1>2. \A c \in Chats : ~ Fresh(c) /\ newer[c] = {}
  BY WorkspacesConstants DEF Init, Fresh
<1> QED BY <1>1, <1>2, TypedInit, FS_EmptySet DEF RotationInv, Ranked, Spared

\* What misses an export is a turn whose directory was not its own, or that had noticed as
\* many others as are kept.
LEMMA MissedStep ==
    ASSUME RotationInv, [Next]_vars
    PROVE  [\A c \in Chats :
              missed[c] = {} /\ missed'[c] # {} =>
                  dir[c] # <<c, turns[c]>> \/ Cardinality(newer[c]) >= Keep]_vars
<1> SUFFICES ASSUME Next, NEW c \in Chats, missed[c] = {}, missed'[c] # {},
                    dir[c] = <<c, turns[c]>>
             PROVE  Cardinality(newer[c]) >= Keep
  OBVIOUS
<1>1. MissesOnly(c)
  <2>1. PICK x \in Chats : \/ Uses(x) \/ Reads(x) \/ Ends(x) \/ Sort(x)
                           \/ \E d \in Dirs : Begins(x, d) \/ RemoveDir(x, d)
    BY Kinds DEF RotationInv
  <2>2. ~ Uses(x) /\ ~ Sort(x) /\ \A d \in Dirs : ~ RemoveDir(x, d)
    BY DEF Uses, Sort, RemoveDir
  <2>3. \A d \in Dirs : ~ Begins(x, d)
    BY DEF Begins, StartTurn, RotationInv, Typed, TurnOK
  <2> QED BY <2>1, <2>2, <2>3 DEF Ends, Reads, MissesOnly
<1>2. Fresh(c) /\ ~ artifacts[c] \subseteq files[dir[c]]
  BY <1>1 DEF MissesOnly, Fresh
<1> QED BY <1>2 DEF RotationInv, Spared

\* A turn that made its own directory gets every export delivered, unless as many other
\* directories as are kept were made or changed since: for any number of conversations
\* and turns, in any order of their rotations (workspace.py:80-99, my_claw_tool.py:239-240).
THEOREM RotationSparesFresh == Spec => FreshExportsDelivered
<1>1. RotationInv /\ [Next]_vars => RotationInv'
  BY TypedStep, NamedStep, RotationStep DEF RotationInv
<1>2. Spec => []RotationInv
  BY <1>1, RotationInit, PTL DEF Spec
<1>3. RotationInv /\ [Next]_vars =>
        [\A c \in Chats :
              missed[c] = {} /\ missed'[c] # {} =>
                  dir[c] # <<c, turns[c]>> \/ Cardinality(newer[c]) >= Keep]_vars
  BY MissedStep
<1>4. Spec => [][\A c \in Chats :
              missed[c] = {} /\ missed'[c] # {} =>
                  dir[c] # <<c, turns[c]>> \/ Cardinality(newer[c]) >= Keep]_vars
  BY <1>2, <1>3, PTL DEF Spec
<1> QED BY <1>4 DEF FreshExportsDelivered
=============================================================================
