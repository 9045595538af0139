-------------------------- MODULE SkillStoreProofs --------------------------
(***************************************************************************)
(* What holds of the skill packs for every number of conversations, packs, *)
(* archives and faults: a pack has the files of one archive, what an       *)
(* install reports is there, a number means what the user saw, a download  *)
(* is the directory of one moment, what pip may be asked for is there when *)
(* it has succeeded; each but for the interference the property names.     *)
(***************************************************************************)
EXTENDS SkillStore, FiniteSetTheorems, TLAPS

-----------------------------------------------------------------------------
(* Types.                                                                  *)

Phases == {"idle", "fetch", "extract", "zip", "pip"}

\* What a command at work has in hand.
Working(c) ==
    /\ pc[c] = "extract" => /\ archive[c] \in Archives /\ target[c] = DirOf[archive[c]]
                            /\ todo[c] \subseteq FilesOf[archive[c]]
    /\ pc[c] = "zip" => target[c] \in Packs

Typed == TypeOK /\ \A c \in Chats : Working(c)

Step(c) ==
    \/ List(c)
    \/ \E b \in Batches : Install(c, b)
    \/ Refuse(c) \/ Stuck(c) \/ Clear(c) \/ \E f \in Names : Extract(c, f)
    \/ Break(c) \/ Validate(c) \/ Report(c)
    \/ \E n \in 1 .. Cardinality(Packs) : RemovePack(c, n) \/ Download(c, n)
    \/ \E f \in Names : AddFile(c, f)
    \/ Send(c)
    \/ Depend(c) \/ PipSucceeds(c) \/ PipFails(c)
    \/ Die(c)

LEMMA Constants ==
    /\ \A a \in Archives : DirOf[a] \in Packs /\ Manifest \in FilesOf[a] /\ FilesOf[a] \subseteq Names
    /\ \A a \in Archives : Manifest \in Names
    /\ Valid \subseteq Archives /\ Batches \subseteq Seq(Archives)
    /\ Plain \subseteq Libs
    /\ MaxOps \in Nat /\ MaxFaults \in Nat
    /\ None \notin Archives /\ None \notin Dir
    /\ Packs \subseteq Nat /\ IsFiniteSet(Packs)
<1>1. \A a \in Archives : FilesOf[a] \subseteq Names
  BY DEF Names
<1>2. \A a \in Archives : Manifest \in FilesOf[a]
  BY SkillStoreConstants
<1>3. \A a \in Archives : Manifest \in Names
  BY <1>1, <1>2
<1>4. \A a \in Archives : DirOf[a] \in Packs
  BY SkillStoreConstants
<1> QED BY <1>1, <1>2, <1>3, <1>4, SkillStoreConstants

LEMMA Directories ==
    /\ Empty \in Dir
    /\ \A a \in Archives : Whole(a) \in Dir
BY DEF Empty, Dir, Whole

\* The end of a command.
LEMMA EndTyped ==
    ASSUME TypeOK, NEW c \in Chats, End(c)
    PROVE  /\ pc' \in [Chats -> Phases] /\ pc'[c] = "idle"
           /\ uploads' \in [Chats -> Seq(Archives)]
           /\ archive' \in [Chats -> Archives \cup {None}] /\ target' \in [Chats -> Packs \cup {None}]
           /\ todo' \in [Chats -> SUBSET Names] /\ installed' \in [Chats -> SUBSET Packs]
           /\ zip' \in [Chats -> Dir]
           /\ wanted' \in [Chats -> SUBSET Libs]
           /\ touched' \in [Chats -> SUBSET Packs] /\ retried' \in [Chats -> SUBSET Packs]
<1>1. << >> \in Seq(Archives) /\ Empty \in Dir
  BY Directories
<1> QED BY <1>1 DEF TypeOK, End, Phases

LEMMA ShowTyped ==
    ASSUME TypeOK, NEW c \in Chats
    PROVE  /\ Show(c) => shown' \in [Chats -> SUBSET Packs] /\ outdated' \in [Chats -> BOOLEAN]
           /\ \A failed \in BOOLEAN :
                 ShowNone(c, failed) \/ ShowIfListable(c, failed) =>
                     shown' \in [Chats -> SUBSET Packs] /\ outdated' \in [Chats -> BOOLEAN]
<1>1. ListOf(store') \subseteq Packs /\ shown \in [Chats -> SUBSET Packs]
  BY DEF ListOf, TypeOK
<1>2. Show(c) => shown' \in [Chats -> SUBSET Packs]
  BY <1>1 DEF Show
<1>3. Show(c) => outdated' \in [Chats -> BOOLEAN]
  BY DEF Show
<1>4. \A failed \in BOOLEAN : ShowNone(c, failed) => outdated' \in [Chats -> BOOLEAN]
  <2> DEFINE other(failed, x) == IF x = c THEN failed ELSE ListOf(store') # Listing
  <2>1. \A failed \in BOOLEAN : \A x \in Chats : other(failed, x) \in BOOLEAN
    OBVIOUS
  <2>2. \A failed \in BOOLEAN : ShowNone(c, failed) =>
            outdated' = [x \in Chats |-> outdated[x] \/ other(failed, x)]
    BY DEF ShowNone
  <2> HIDE DEF other
  <2> QED BY <2>1, <2>2 DEF TypeOK
<1>5. \A failed \in BOOLEAN : ShowNone(c, failed) => shown' \in [Chats -> SUBSET Packs]
  BY <1>1 DEF ShowNone
<1>6. \A failed \in BOOLEAN : ShowIfListable(c, failed) => Show(c) \/ ShowNone(c, failed)
  BY DEF ShowIfListable
<1> HIDE DEF Show, ShowNone, ShowIfListable
<1> QED BY <1>2, <1>3, <1>4, <1>5, <1>6, Zenon

LEMMA TouchTyped ==
    ASSUME TypeOK, NEW c \in Chats, NEW p \in Packs, Touch(c, p)
    PROVE  touched' \in [Chats -> SUBSET Packs]
BY DEF TypeOK, Touch

LEMMA FaultBounds ==
    ASSUME TypeOK, Fault \/ UNCHANGED faults
    PROVE  faults' \in 0 .. MaxFaults
BY Constants DEF Fault, TypeOK

LEMMA BeginTyped ==
    ASSUME TypeOK, NEW c \in Chats, NEW phase \in Phases, Begin(c, phase)
    PROVE  /\ pc' \in [Chats -> Phases] /\ pc'[c] = phase
           /\ ops' \in [Chats -> 0 .. MaxOps]
<1>1. ops[c] \in 0 .. MaxOps /\ ops[c] < MaxOps /\ MaxOps \in Nat
  BY Constants DEF TypeOK, Begin
<1>2. ops[c] + 1 \in 0 .. MaxOps
  BY <1>1
<1> QED BY <1>2 DEF Begin, TypeOK, Phases

\* A removal that stops halfway leaves a directory,
LEMMA CutOne ==
    ASSUME TypeOK, NEW p \in Packs, Cut(p)
    PROVE  /\ store' \in [Packs -> Dir \cup {None}]
           /\ store'[p] # None
           /\ \A q \in Packs : q # p => store'[q] = store[q]
<1>1. store[p] \in Dir
  BY DEF Cut, TypeOK
<1>2. PICK stay \in SUBSET Present(p) :
        store' = [store EXCEPT ![p] = [f \in Names |-> IF f \in stay THEN store[p][f] ELSE None]]
  BY DEF Cut
<1> DEFINE left == [f \in Names |-> IF f \in stay THEN store[p][f] ELSE None]
<1>3. left \in Dir
  BY <1>1 DEF Dir
<1>4. left # None
  BY <1>3, Constants
<1>5. store' = [store EXCEPT ![p] = left]
  BY <1>2
<1> HIDE DEF left
<1> QED BY <1>3, <1>4, <1>5 DEF TypeOK

\* and a fault, when nobody is told.
LEMMA DiscardOne ==
    ASSUME TypeOK, NEW p \in Packs, Discard(p)
    PROVE  /\ store' \in [Packs -> Dir \cup {None}]
           /\ faults' \in 0 .. MaxFaults
           /\ store'[p] = None \/ faults' > faults
           /\ \A q \in Packs : q # p => store'[q] = store[q]
<1>1. CASE store' = [store EXCEPT ![p] = None] /\ UNCHANGED faults
  BY <1>1 DEF TypeOK
<1>2. CASE Fault /\ Cut(p)
  <2>1. faults' > faults
    BY <1>2 DEF Fault, TypeOK
  <2> QED BY <1>2, <2>1, CutOne, FaultBounds
<1> QED BY <1>1, <1>2 DEF Discard

\* An install that is refused takes its directory with it, if it can be read.
LEMMA ValidateOne ==
    ASSUME Typed, NEW c \in Chats, Validate(c)
    PROVE  /\ target[c] \in Packs
           /\ \/ UNCHANGED <<store, faults, touched, mixed>>
              \/ /\ Discard(target[c]) /\ Touch(c, target[c])
                 /\ mixed' = IF store'[target[c]] = None THEN mixed ELSE mixed \cup {target[c]}
<1>1. target[c] \in Packs
  BY Constants DEF Validate, Typed, Working
<1> QED BY <1>1 DEF Validate

\* Directories stay directories.
LEMMA StoreTyped ==
    ASSUME Typed, NEW c \in Chats, Step(c)
    PROVE  store' \in [Packs -> Dir \cup {None}]
<1>1. CASE Clear(c)
  <2>1. Head(uploads[c]) \in Archives
    BY <1>1 DEF Clear, Typed, TypeOK
  <2> QED BY <1>1, <2>1, Directories DEF Clear, Cleared, Typed, TypeOK
<1>2. CASE Stuck(c)
  <2>1. Head(uploads[c]) \in Archives
    BY <1>2 DEF Stuck, Typed, TypeOK
  <2>2. DirOf[Head(uploads[c])] \in Packs
    BY <2>1, Constants
  <2> QED BY <1>2, <2>2, CutOne DEF Stuck, Typed
<1>3. ASSUME NEW f \in Names, Extract(c, f) PROVE store' \in [Packs -> Dir \cup {None}]
  <2> DEFINE p == target[c]
             was == IF store[p] = None THEN Empty ELSE store[p]
             now == [was EXCEPT ![f] = archive[c]]
  <2>1. p \in Packs /\ archive[c] \in Archives
    BY <1>3, Constants DEF Extract, Typed, Working
  <2>2. was \in Dir
    BY <2>1, Directories DEF Typed, TypeOK
  <2> HIDE DEF was
  <2>3. now \in Dir
    BY <2>1, <2>2 DEF Dir
  <2>4. store' = [store EXCEPT ![p] = now]
    BY <1>3 DEF Extract, was
  <2> HIDE DEF now
  <2> QED BY <2>1, <2>3, <2>4 DEF Typed, TypeOK
<1>4. CASE Validate(c)
  <2>1. CASE UNCHANGED store
    BY <2>1 DEF Typed, TypeOK
  <2>2. CASE ~ UNCHANGED store
    BY <1>4, <2>2, ValidateOne, DiscardOne DEF Typed
  <2> QED BY <2>1, <2>2
<1>5. ASSUME NEW n \in 1 .. Cardinality(Packs), RemovePack(c, n) PROVE store' \in [Packs -> Dir \cup {None}]
  <2>1. PICK p \in Numbered(Listing, n) : Discard(p)
    BY <1>5 DEF RemovePack
  <2>2. p \in Packs
    BY DEF Numbered, Listing, ListOf
  <2> QED BY <2>1, <2>2, DiscardOne DEF Typed
<1>6. CASE UNCHANGED store
  BY <1>6 DEF Typed, TypeOK
<1> QED
  BY <1>1, <1>2, <1>3, <1>4, <1>5, <1>6
  DEF Step, List, Install, Refuse, Break, Report, Download, AddFile, Send, Depend, PipSucceeds,
      PipFails, Die

-----------------------------------------------------------------------------
(* What a step of one conversation does to the others.                     *)

\* Their variables stay.
Apart(c) ==
    \A x \in Chats \ {c} :
        /\ pc'[x] = pc[x] /\ uploads'[x] = uploads[x] /\ archive'[x] = archive[x]
        /\ target'[x] = target[x] /\ todo'[x] = todo[x] /\ installed'[x] = installed[x]
        /\ retried'[x] = retried[x] /\ zip'[x] = zip[x] /\ wanted'[x] = wanted[x]

\* What they have noticed they remember.
Remembered(c) == \A x \in Chats \ {c} : touched[x] \subseteq touched'[x]

\* No directory changes without the others at work being told.
Noticed(c) ==
    \A p \in Packs : store'[p] # store[p] =>
        \A x \in Chats \ {c} : Busy(x) => p \in touched'[x]

Laws(c) == Apart(c) /\ Remembered(c) /\ Noticed(c)

LEMMA EndOthers ==
    ASSUME TypeOK, NEW c \in Chats, End(c)
    PROVE  Apart(c) /\ Remembered(c)
BY DEF End, Apart, Remembered, TypeOK

\* A step that leaves the directories alone leaves the others alone.
Quiet(c) == Apart(c) /\ Remembered(c) /\ UNCHANGED store

LEMMA QuietLaws ==
    ASSUME NEW c \in Chats, Quiet(c)
    PROVE  Laws(c)
BY DEF Quiet, Laws, Noticed

LEMMA QuietSteps ==
    ASSUME Typed, NEW c \in Chats
    PROVE  /\ List(c) \/ Refuse(c) \/ Break(c) \/ Report(c) \/ Send(c) \/ Depend(c) => Quiet(c)
           /\ PipSucceeds(c) \/ PipFails(c) \/ Die(c) => Quiet(c)
           /\ \A b \in Batches : Install(c, b) => Quiet(c)
           /\ \A n \in Nat : Download(c, n) => Quiet(c)
           /\ \A f \in Names : AddFile(c, f) => Quiet(c)
<1> USE DEF Quiet, Apart, Remembered, Typed, TypeOK, installVars, listVars
<1>1. List(c) => Quiet(c)
  BY DEF List
<1>2. Refuse(c) => Quiet(c)
  BY DEF Refuse
<1>3. Break(c) => Quiet(c)
  BY DEF Break, NextUpload
<1>4. Report(c) => Quiet(c)
  BY EndOthers DEF Report
<1>5. Send(c) => Quiet(c)
  BY EndOthers DEF Send
<1>6. Depend(c) => Quiet(c)
  BY DEF Depend, Begin
<1>7. PipSucceeds(c) \/ PipFails(c) => Quiet(c)
  BY EndOthers DEF PipSucceeds, PipFails
<1>8. Die(c) => Quiet(c)
  BY EndOthers DEF Die
<1>9. \A b \in Batches : Install(c, b) => Quiet(c)
  BY DEF Install, Begin
<1>10. \A n \in Nat : Download(c, n) => Quiet(c)
  BY DEF Download, Begin
<1>11. \A f \in Names : AddFile(c, f) => Quiet(c)
  <2> SUFFICES ASSUME NEW f \in Names, AddFile(c, f) PROVE Quiet(c)
    BY Zenon
  <2>1. CASE End(c)
    BY <2>1, EndOthers DEF AddFile
  <2>2. CASE ~ End(c)
    BY <2>2 DEF AddFile
  <2> QED BY <2>1, <2>2
<1> HIDE DEF Quiet
<1> QED BY <1>1, <1>2, <1>3, <1>4, <1>5, <1>6, <1>7, <1>8, <1>9, <1>10, <1>11, Zenon

\* The directory a step writes to is the only one that changes.
LEMMA WriteLaws ==
    ASSUME Typed, NEW c \in Chats, NEW p \in Packs, Apart(c), Touch(c, p),
           \A q \in Packs : q # p => store'[q] = store[q]
    PROVE  Laws(c)
BY DEF Laws, Remembered, Noticed, Touch

LEMMA ClearLaws ==
    ASSUME Typed, NEW c \in Chats, Clear(c) \/ Stuck(c)
    PROVE  Laws(c)
<1> DEFINE p == DirOf[Head(uploads[c])]
<1>1. p \in Packs
  <2>1. uploads[c] # << >> /\ uploads[c] \in Seq(Archives)
    BY DEF Clear, Stuck, Typed, TypeOK
  <2>2. Head(uploads[c]) \in Archives
    BY <2>1
  <2> QED BY <2>2, Constants
<1>2. Apart(c)
  BY DEF Clear, Stuck, Apart, Typed, TypeOK
<1>3. Touch(c, p) /\ (store' = [store EXCEPT ![p] = Empty] \/ Cut(p))
  BY DEF Clear, Stuck, Cleared
<1> HIDE DEF p
<1>4. \A q \in Packs : q # p => store'[q] = store[q]
  BY <1>1, <1>3, CutOne DEF Typed, TypeOK
<1> QED BY <1>1, <1>2, <1>3, <1>4, WriteLaws

LEMMA ExtractLaws ==
    ASSUME Typed, NEW c \in Chats, NEW f \in Names, Extract(c, f)
    PROVE  Laws(c)
<1>1. target[c] \in Packs
  BY Constants DEF Extract, Typed, Working
<1>2. Apart(c)
  BY DEF Extract, Apart, Typed, TypeOK, installVars
<1>3. Touch(c, target[c]) /\ \A q \in Packs : q # target[c] => store'[q] = store[q]
  BY <1>1 DEF Extract, Typed, TypeOK
<1> QED BY <1>1, <1>2, <1>3, WriteLaws

LEMMA ValidateLaws ==
    ASSUME Typed, NEW c \in Chats, Validate(c)
    PROVE  Laws(c)
<1>1. Apart(c)
  BY DEF Validate, NextUpload, Apart, Typed, TypeOK
<1>2. CASE UNCHANGED <<store, touched>>
  BY <1>1, <1>2, QuietLaws DEF Quiet, Remembered
<1>3. CASE Discard(target[c]) /\ Touch(c, target[c])
  <2>1. target[c] \in Packs
    BY ValidateOne
  <2> QED BY <1>1, <1>3, <2>1, DiscardOne, WriteLaws DEF Typed
<1> QED BY <1>2, <1>3, ValidateOne

LEMMA RemovePackLaws ==
    ASSUME Typed, NEW c \in Chats, NEW n, RemovePack(c, n)
    PROVE  Laws(c)
<1>1. Apart(c)
  BY DEF RemovePack, Apart, Typed, TypeOK, installVars
<1>2. PICK p \in Numbered(Listing, n) : Discard(p) /\ Touch(c, p)
  BY DEF RemovePack
<1>3. p \in Packs
  BY DEF Numbered, Listing, ListOf
<1> QED BY <1>1, <1>2, <1>3, DiscardOne, WriteLaws DEF Typed

LEMMA StepLaws ==
    ASSUME Typed, NEW c \in Chats, Step(c)
    PROVE  Laws(c)
<1>1. ASSUME Quiet(c) PROVE Laws(c)
  BY <1>1, QuietLaws
<1>2. 1 .. Cardinality(Packs) \subseteq Nat
  <2>1. Cardinality(Packs) \in Nat
    BY Constants, FS_CardinalityType
  <2> QED BY <2>1
<1>3. \A n \in 1 .. Cardinality(Packs) : Download(c, n) => Quiet(c)
  BY <1>2, QuietSteps, Zenon
<1>4. \A n \in 1 .. Cardinality(Packs) : RemovePack(c, n) => Laws(c)
  BY RemovePackLaws, Zenon
<1>5. \A f \in Names : Extract(c, f) => Laws(c)
  BY ExtractLaws, Zenon
<1>6. Clear(c) \/ Stuck(c) \/ Validate(c) => Laws(c)
  BY ClearLaws, ValidateLaws, Zenon
<1> HIDE DEF Laws, Quiet
<1> QED BY <1>1, <1>3, <1>4, <1>5, <1>6, QuietSteps DEF Step

-----------------------------------------------------------------------------
(* Every step keeps the types.                                             *)

LEMMA OthersWorking ==
    ASSUME Typed, NEW c \in Chats, Laws(c), NEW x \in Chats \ {c}
    PROVE  Working(x)'
BY DEF Laws, Apart, Typed, Working

\* A command that has ended has nothing in hand.
LEMMA IdleWorking ==
    ASSUME NEW c \in Chats, pc'[c] \in {"idle", "fetch", "pip"}
    PROVE  Working(c)'
BY DEF Working

LEMMA InstallStepsTyped ==
    ASSUME Typed, NEW c \in Chats,
           \/ (\E b \in Batches : Install(c, b)) \/ Refuse(c) \/ Stuck(c) \/ Clear(c)
           \/ (\E f \in Names : Extract(c, f))
    PROVE  TypeOK' /\ Working(c)'
<1>1. store' \in [Packs -> Dir \cup {None}]
  BY StoreTyped DEF Step
<1>2. ASSUME NEW b \in Batches, Install(c, b) PROVE TypeOK' /\ Working(c)'
  <2>1. b \in Seq(Archives)
    BY Constants
  <2>2. pc' \in [Chats -> Phases] /\ pc'[c] = "fetch" /\ ops' \in [Chats -> 0 .. MaxOps]
    BY <1>2, BeginTyped DEF Install, Typed, Phases
  <2>3. TypeOK'
    BY <1>1, <1>2, <2>1, <2>2 DEF Install, Typed, TypeOK, Phases, listVars
  <2> QED BY <2>2, <2>3, IdleWorking
<1>3. CASE Refuse(c)
  <2>1. faults' \in 0 .. MaxFaults
    BY <1>3, FaultBounds DEF Refuse, Typed
  <2>2. uploads' \in [Chats -> Seq(Archives)]
    <3>1. Tail(uploads[c]) \in Seq(Archives)
      BY <1>3 DEF Refuse, Typed, TypeOK
    <3> QED BY <1>3, <3>1 DEF Refuse, Typed, TypeOK
  <2>3. TypeOK'
    BY <1>1, <1>3, <2>1, <2>2 DEF Refuse, Typed, TypeOK, listVars
  <2> QED BY <1>3, <2>3, IdleWorking DEF Refuse
<1>4. CASE Clear(c)
  <2> DEFINE a == Head(uploads[c])
             p == DirOf[a]
  <2>1. a \in Archives /\ Tail(uploads[c]) \in Seq(Archives)
    BY <1>4 DEF Clear, Typed, TypeOK
  <2>2. p \in Packs /\ FilesOf[a] \subseteq Names
    BY <2>1, Constants
  <2>3. touched' \in [Chats -> SUBSET Packs]
    BY <1>4, <2>2, TouchTyped DEF Clear, Typed
  <2>4. shown' \in [Chats -> SUBSET Packs] /\ outdated' \in [Chats -> BOOLEAN]
    BY <1>4, ShowTyped DEF Clear, Typed
  <2>5. /\ archive' = [archive EXCEPT ![c] = a] /\ target' = [target EXCEPT ![c] = p]
        /\ todo' = [todo EXCEPT ![c] = FilesOf[a]] /\ pc' = [pc EXCEPT ![c] = "extract"]
        /\ uploads' = [uploads EXCEPT ![c] = Tail(uploads[c])]
        /\ retried' = [retried EXCEPT ![c] = retried[c] \cup ({p} \cap installed[c])]
        /\ mixed' \in {mixed \ {p}, mixed \cup {p}}
        /\ UNCHANGED <<libs, ops, installed, zip, wanted, faults>>
    BY <1>4 DEF Clear
  <2>6. Working(c)'
    BY <2>1, <2>5 DEF Working, Typed, TypeOK
  <2> HIDE DEF a, p
  <2>7. /\ archive' \in [Chats -> Archives \cup {None}] /\ target' \in [Chats -> Packs \cup {None}]
        /\ todo' \in [Chats -> SUBSET Names] /\ pc' \in [Chats -> Phases]
        /\ uploads' \in [Chats -> Seq(Archives)] /\ retried' \in [Chats -> SUBSET Packs]
        /\ mixed' \subseteq Packs
    BY <2>1, <2>2, <2>5 DEF Typed, TypeOK, Phases
  <2>8. TypeOK'
    BY <1>1, <2>3, <2>4, <2>5, <2>7 DEF Typed, TypeOK, Phases
  <2> QED BY <2>6, <2>8
<1>5. ASSUME NEW f \in Names, Extract(c, f) PROVE TypeOK' /\ Working(c)'
  <2>1. target[c] \in Packs
    BY <1>5, Constants DEF Extract, Typed, Working
  <2>2. touched' \in [Chats -> SUBSET Packs]
    BY <1>5, <2>1, TouchTyped DEF Extract, Typed
  <2>4. shown' \in [Chats -> SUBSET Packs] /\ outdated' \in [Chats -> BOOLEAN]
    BY <1>5, ShowTyped DEF Extract, Typed
  <2>5. todo' \in [Chats -> SUBSET Names]
    BY <1>5 DEF Extract, Typed, TypeOK
  <2>6. TypeOK'
    BY <1>1, <1>5, <2>2, <2>4, <2>5 DEF Extract, Typed, TypeOK, installVars
  <2>7. Working(c)'
    BY <1>5 DEF Extract, Typed, TypeOK, Working, installVars
  <2> QED BY <2>6, <2>7
<1>6. CASE Stuck(c)
  <2> DEFINE p == DirOf[Head(uploads[c])]
  <2>1. uploads[c] # << >> /\ uploads[c] \in Seq(Archives) /\ pc[c] = "fetch"
    BY <1>6 DEF Stuck, Typed, TypeOK
  <2>2. Head(uploads[c]) \in Archives /\ Tail(uploads[c]) \in Seq(Archives)
    BY <2>1
  <2>3. p \in Packs
    BY <2>2, Constants
  <2>4. faults' \in 0 .. MaxFaults /\ touched' \in [Chats -> SUBSET Packs]
    BY <1>6, <2>3, FaultBounds, TouchTyped DEF Stuck, Typed
  <2>5. shown' \in [Chats -> SUBSET Packs] /\ outdated' \in [Chats -> BOOLEAN]
    BY <1>6, ShowTyped DEF Stuck, Typed
  <2>6. /\ uploads' = [uploads EXCEPT ![c] = Tail(uploads[c])]
        /\ retried' = [retried EXCEPT ![c] = retried[c] \cup ({p} \cap installed[c])]
        /\ mixed' = mixed \cup {p}
        /\ UNCHANGED <<libs, pc, ops, archive, target, todo, installed, zip, wanted>>
    BY <1>6 DEF Stuck
  <2> HIDE DEF p
  <2>7. /\ uploads' \in [Chats -> Seq(Archives)] /\ retried' \in [Chats -> SUBSET Packs]
        /\ mixed' \subseteq Packs
    BY <2>2, <2>3, <2>6 DEF Typed, TypeOK
  <2>8. TypeOK'
    BY <1>1, <2>4, <2>5, <2>6, <2>7 DEF Typed, TypeOK
  <2> QED BY <2>1, <2>6, <2>8, IdleWorking
<1> QED BY <1>2, <1>3, <1>4, <1>5, <1>6

LEMMA OutcomeTyped ==
    ASSUME Typed, NEW c \in Chats, Break(c) \/ Validate(c)
    PROVE  TypeOK' /\ Working(c)'
<1>1. store' \in [Packs -> Dir \cup {None}]
  BY StoreTyped DEF Step
<1>2. target[c] \in Packs /\ NextUpload(c)
  BY Constants DEF Break, Validate, Typed, Working
<1>3. /\ pc' \in [Chats -> Phases] /\ pc'[c] = "fetch" /\ archive' \in [Chats -> Archives \cup {None}]
      /\ target' \in [Chats -> Packs \cup {None}] /\ todo' \in [Chats -> SUBSET Names]
  BY <1>2 DEF NextUpload, Typed, TypeOK, Phases
<1>4. Working(c)'
  BY <1>3, IdleWorking
<1>5. CASE Break(c)
  <2>1. faults' \in 0 .. MaxFaults
    BY <1>5, FaultBounds DEF Break, Typed
  <2>2. shown' \in [Chats -> SUBSET Packs] /\ outdated' \in [Chats -> BOOLEAN]
    BY <1>5, ShowTyped DEF Break, Typed
  <2>3. mixed' \subseteq Packs
    BY <1>2, <1>5 DEF Break, Typed, TypeOK
  <2>4. TypeOK'
    BY <1>1, <1>3, <1>5, <2>1, <2>2, <2>3 DEF Break, Typed, TypeOK, Phases
  <2> QED BY <1>4, <2>4
<1>6. CASE Validate(c)
  <2>1. installed' \in [Chats -> SUBSET Packs]
    <3>1. \/ installed' = [installed EXCEPT ![c] = installed[c] \cup {target[c]}]
          \/ installed' = installed
      BY <1>6 DEF Validate
    <3>2. installed \in [Chats -> SUBSET Packs] /\ installed[c] \cup {target[c]} \in SUBSET Packs
      BY <1>2 DEF Typed, TypeOK
    <3> QED BY <3>1, <3>2
  <2>2. faults' \in 0 .. MaxFaults /\ touched' \in [Chats -> SUBSET Packs] /\ mixed' \subseteq Packs
    <3>1. CASE UNCHANGED <<store, faults, touched, mixed>>
      BY <3>1 DEF Typed, TypeOK
    <3>2. CASE /\ Discard(target[c]) /\ Touch(c, target[c])
               /\ mixed' = IF store'[target[c]] = None THEN mixed ELSE mixed \cup {target[c]}
      <4>1. mixed' \subseteq Packs
        BY <1>2, <3>2 DEF Typed, TypeOK
      <4> QED BY <1>2, <3>2, <4>1, DiscardOne, TouchTyped DEF Typed
    <3> QED BY <1>6, <3>1, <3>2, ValidateOne
  <2>3. shown' \in [Chats -> SUBSET Packs] /\ outdated' \in [Chats -> BOOLEAN]
    <3>1. CASE UNCHANGED listVars
      BY <3>1 DEF listVars, Typed, TypeOK
    <3>2. CASE ShowNone(c, TRUE)
      BY <3>2, ShowTyped DEF Typed
    <3> QED BY <1>6, <3>1, <3>2 DEF Validate
  <2>4. TypeOK'
    BY <1>1, <1>3, <1>6, <2>1, <2>2, <2>3 DEF Validate, Typed, TypeOK, Phases
  <2> QED BY <1>4, <2>4
<1> QED BY <1>5, <1>6

LEMMA EndStepsTyped ==
    ASSUME Typed, NEW c \in Chats, End(c), store' = store, libs' \subseteq Libs, ops' = ops,
           faults' \in 0 .. MaxFaults, mixed' \subseteq Packs,
           shown' \in [Chats -> SUBSET Packs], outdated' \in [Chats -> BOOLEAN]
    PROVE  TypeOK' /\ Working(c)'
<1>1. TypeOK'
  BY EndTyped DEF Typed, TypeOK, Phases
<1>2. Working(c)'
  BY EndTyped, IdleWorking DEF Typed
<1> QED BY <1>1, <1>2

LEMMA CommandStepsTyped ==
    ASSUME Typed, NEW c \in Chats,
           \/ List(c) \/ Report(c) \/ Send(c) \/ Depend(c) \/ PipSucceeds(c) \/ PipFails(c)
           \/ Die(c)
    PROVE  TypeOK' /\ Working(c)'
<1>1. store' = store /\ store \in [Packs -> Dir \cup {None}]
  BY DEF List, Report, Send, Depend, PipSucceeds, PipFails, Die, Typed, TypeOK
<1>2. CASE List(c)
  <2>1. shown' \in [Chats -> SUBSET Packs] /\ outdated' \in [Chats -> BOOLEAN]
    BY <1>2, ShowTyped DEF List, Typed
  <2>2. ops' \in [Chats -> 0 .. MaxOps]
    <3>1. ops[c] \in 0 .. MaxOps /\ ops[c] < MaxOps /\ MaxOps \in Nat
      BY <1>2, Constants DEF List, Typed, TypeOK
    <3>2. ops[c] + 1 \in 0 .. MaxOps
      BY <3>1
    <3> QED BY <1>2, <3>2 DEF List, Typed, TypeOK
  <2>3. TypeOK'
    BY <1>2, <2>1, <2>2 DEF List, Typed, TypeOK, installVars
  <2>4. Working(c)'
    BY <1>2, IdleWorking DEF List
  <2> QED BY <2>3, <2>4
<1>3. CASE Report(c)
  <2>1. shown' \in [Chats -> SUBSET Packs] /\ outdated' \in [Chats -> BOOLEAN]
    <3>1. CASE UNCHANGED listVars
      BY <3>1 DEF listVars, Typed, TypeOK
    <3>2. CASE ShowIfListable(c, TRUE)
      BY <3>2, ShowTyped DEF Typed
    <3> QED BY <1>3, <3>1, <3>2 DEF Report
  <2> QED BY <1>1, <1>3, <2>1, EndStepsTyped DEF Report, Typed, TypeOK
<1>4. CASE Send(c)
  BY <1>1, <1>4, EndStepsTyped DEF Send, listVars, Typed, TypeOK
<1>5. CASE Depend(c)
  <2>1. Missing \subseteq Libs
    <3>1. \A a \in Archives : Asked(a) \subseteq Libs
      BY Constants DEF Asked
    <3>2. \A p \in Packs : Sound(p) => store[p][Manifest] \in Archives
      BY Constants DEF Sound
    <3> QED BY <3>1, <3>2 DEF Missing
  <2>2. wanted' \in [Chats -> SUBSET Libs]
    BY <1>5, <2>1 DEF Depend, Typed, TypeOK
  <2>3. pc' \in [Chats -> Phases] /\ pc'[c] = "pip" /\ ops' \in [Chats -> 0 .. MaxOps]
    BY <1>5, BeginTyped DEF Depend, Typed, Phases
  <2>4. TypeOK'
    BY <1>1, <1>5, <2>2, <2>3 DEF Depend, Typed, TypeOK, Phases, installVars, listVars
  <2> QED BY <2>3, <2>4, IdleWorking
<1>6. CASE PipSucceeds(c) \/ PipFails(c)
  <2>1. End(c) /\ libs' \subseteq Libs /\ ops' = ops /\ faults' \in 0 .. MaxFaults /\ mixed' \subseteq Packs
    <3>1. wanted[c] \subseteq Libs /\ libs \subseteq Libs /\ mixed \subseteq Packs /\ faults \in 0 .. MaxFaults
      BY DEF Typed, TypeOK
    <3>2. /\ End(c) /\ UNCHANGED <<ops, faults, mixed>>
          /\ (libs' = libs \cup wanted[c] \/ \E some \in SUBSET wanted[c] : libs' = libs \cup some)
      BY <1>6 DEF PipSucceeds, PipFails
    <3> QED BY <3>1, <3>2
  <2>2. shown' \in [Chats -> SUBSET Packs] /\ outdated' \in [Chats -> BOOLEAN]
    <3>1. CASE PipSucceeds(c)
      BY <3>1, ShowTyped DEF PipSucceeds, Typed
    <3>2. CASE PipFails(c)
      BY <3>2 DEF PipFails, listVars, Typed, TypeOK
    <3> QED BY <1>6, <3>1, <3>2
  <2> QED BY <1>1, <2>1, <2>2, EndStepsTyped
<1>7. CASE Die(c)
  <2>1. faults' \in 0 .. MaxFaults
    BY <1>7, FaultBounds DEF Die, Typed
  <2>2. mixed' \subseteq Packs
    <3>1. pc[c] = "extract" => target[c] \in Packs
      BY Constants DEF Typed, Working
    <3> QED BY <1>7, <3>1 DEF Die, Typed, TypeOK
  <2>3. shown' \in [Chats -> SUBSET Packs] /\ outdated' \in [Chats -> BOOLEAN]
    BY <1>7, ShowTyped DEF Die, Typed
  <2>4. libs' \subseteq Libs /\ ops' = ops /\ End(c)
    BY <1>7 DEF Die, Typed, TypeOK
  <2> QED BY <1>1, <2>1, <2>2, <2>3, <2>4, EndStepsTyped
<1> QED BY <1>2, <1>3, <1>4, <1>5, <1>6, <1>7

LEMMA PackStepsTyped ==
    ASSUME Typed, NEW c \in Chats,
           \/ \E n \in 1 .. Cardinality(Packs) : RemovePack(c, n) \/ Download(c, n)
           \/ \E f \in Names : AddFile(c, f)
    PROVE  TypeOK' /\ Working(c)'
<1>1. store' \in [Packs -> Dir \cup {None}]
  BY StoreTyped DEF Step
<1>2. ASSUME NEW n \in 1 .. Cardinality(Packs), RemovePack(c, n) PROVE TypeOK' /\ Working(c)'
  <2>1. PICK p \in Numbered(Listing, n) :
          /\ Discard(p) /\ Touch(c, p)
          /\ mixed' = IF store'[p] = None /\ Extracting(p) = {} THEN mixed ELSE mixed \cup {p}
    BY <1>2 DEF RemovePack
  <2>2. p \in Packs
    BY DEF Numbered, Listing, ListOf
  <2>3. touched' \in [Chats -> SUBSET Packs] /\ faults' \in 0 .. MaxFaults
    BY <2>1, <2>2, TouchTyped, DiscardOne DEF Typed
  <2>4. mixed' \subseteq Packs
    BY <2>1, <2>2 DEF Typed, TypeOK
  <2>5. shown' \in [Chats -> SUBSET Packs] /\ outdated' \in [Chats -> BOOLEAN]
    BY <1>2, ShowTyped DEF RemovePack, Typed
  <2>6. ops' \in [Chats -> 0 .. MaxOps]
    <3>1. ops[c] \in 0 .. MaxOps /\ ops[c] < MaxOps /\ MaxOps \in Nat
      BY <1>2, Constants DEF RemovePack, Typed, TypeOK
    <3>2. ops[c] + 1 \in 0 .. MaxOps
      BY <3>1
    <3> QED BY <1>2, <3>2 DEF RemovePack, Typed, TypeOK
  <2>7. TypeOK'
    BY <1>1, <1>2, <2>3, <2>4, <2>5, <2>6 DEF RemovePack, Typed, TypeOK, installVars
  <2>8. Working(c)'
    BY <1>2, IdleWorking DEF RemovePack
  <2> QED BY <2>7, <2>8
<1>3. ASSUME NEW n \in 1 .. Cardinality(Packs), Download(c, n) PROVE TypeOK' /\ Working(c)'
  <2>1. PICK p \in Numbered(Listing, n) :
          target' = [target EXCEPT ![c] = p] /\ todo' = [todo EXCEPT ![c] = Present(p)]
    BY <1>3 DEF Download
  <2>2. p \in Packs /\ Present(p) \subseteq Names
    BY DEF Numbered, Listing, ListOf, Present
  <2>3. pc' \in [Chats -> Phases] /\ pc'[c] = "zip" /\ ops' \in [Chats -> 0 .. MaxOps]
    BY <1>3, BeginTyped DEF Download, Typed, Phases
  <2>4. /\ target' \in [Chats -> Packs \cup {None}] /\ todo' \in [Chats -> SUBSET Names]
        /\ target'[c] \in Packs
    BY <2>1, <2>2 DEF Typed, TypeOK
  <2>5. TypeOK'
    BY <1>1, <1>3, <2>3, <2>4 DEF Download, Typed, TypeOK, Phases, installVars, listVars
  <2> QED BY <2>3, <2>4, <2>5 DEF Working
<1>4. ASSUME NEW f \in Names, AddFile(c, f) PROVE TypeOK' /\ Working(c)'
  <2>1. CASE End(c)
    BY <1>1, <1>4, <2>1, EndStepsTyped DEF AddFile, listVars, Typed, TypeOK
  <2>2. CASE ~ End(c)
    <3> DEFINE p == target[c]
    <3>1. /\ store[p] # None /\ p \in Packs
          /\ zip' = [zip EXCEPT ![c] = [zip[c] EXCEPT ![f] = store[p][f]]]
          /\ todo' = [todo EXCEPT ![c] = todo[c] \ {f}]
          /\ UNCHANGED <<store, libs, ops, faults, listVars, mixed, pc, installVars, target, wanted,
                         touched>>
      BY <1>4, <2>2 DEF AddFile, Typed, Working
    <3>2. store[p] \in Dir /\ zip[c] \in Dir
      BY <3>1 DEF Typed, TypeOK
    <3>3. [zip[c] EXCEPT ![f] = store[p][f]] \in Dir
      BY <3>2 DEF Dir
    <3>4. zip' \in [Chats -> Dir] /\ todo' \in [Chats -> SUBSET Names]
      BY <3>1, <3>3 DEF Typed, TypeOK
    <3>5. TypeOK'
      BY <1>1, <3>1, <3>4 DEF Typed, TypeOK, installVars, listVars
    <3>6. pc'[c] = "zip" /\ target'[c] \in Packs
      BY <1>4, <3>1 DEF AddFile
    <3> QED BY <3>5, <3>6 DEF Working
  <2> QED BY <2>1, <2>2
<1> QED BY <1>2, <1>3, <1>4

LEMMA NextTyped == Typed /\ [Next]_vars => Typed'
<1> SUFFICES ASSUME Typed, [Next]_vars PROVE Typed'
  OBVIOUS
<1>1. ASSUME NEW c \in Chats, Step(c) PROVE Typed'
  <2>1. TypeOK' /\ Working(c)'
    BY <1>1, InstallStepsTyped, OutcomeTyped, CommandStepsTyped, PackStepsTyped DEF Step
  <2>2. Laws(c)
    BY <1>1, StepLaws
  <2>3. \A x \in Chats \ {c} : Working(x)'
    BY <2>2, OthersWorking
  <2> QED BY <2>1, <2>3 DEF Typed
<1>2. CASE UNCHANGED vars
  BY <1>2 DEF vars, installVars, listVars, Typed, TypeOK, Working
<1> QED BY <1>1, <1>2 DEF Next, Step

LEMMA InitTyped == Init => Typed
<1> SUFFICES ASSUME Init PROVE Typed
  OBVIOUS
<1>1. store \in [Packs -> Dir \cup {None}]
  BY Directories, Constants DEF Init
<1>2. << >> \in Seq(Archives) /\ Listing \subseteq Packs /\ 0 \in 0 .. MaxOps /\ 0 \in 0 .. MaxFaults
  BY Constants DEF Listing, ListOf
<1>3. TypeOK
  BY <1>1, <1>2, Directories DEF Init, TypeOK
<1>4. \A c \in Chats : Working(c)
  BY DEF Init, Working
<1> QED BY <1>3, <1>4 DEF Typed

LEMMA AlwaysTyped == Spec => []Typed
BY InitTyped, NextTyped, PTL DEF Spec

\* A directory is one of files, each from an archive, and a command has in hand what
\* its phase needs, whatever the others do meanwhile.
THEOREM SkillStoreTypeOK == Spec => []TypeOK
<1>1. Typed => TypeOK
  BY DEF Typed
<1> QED BY <1>1, AlwaysTyped, PTL

-----------------------------------------------------------------------------
(* Numbers and lists.                                                      *)

\* A user who has been told of every change has the list as it is, but while a pack is
\* being installed, or one has been and is to be told.
ShownOf(c) ==
    ~ outdated[c] /\ pc[c] # "extract" /\ (pc[c] = "fetch" => installed[c] = {}) =>
        shown[c] = Listing

ShownInv == \A c \in Chats : ShownOf(c)

\* The others are told that their lists are outdated.
ListedOthers(c) ==
    \A x \in Chats \ {c} :
        /\ shown'[x] = shown[x]
        /\ ~ outdated'[x] => ~ outdated[x] /\ ListOf(store') = Listing

LEMMA ShowOthers ==
    ASSUME Typed, NEW c \in Chats
    PROVE  /\ Show(c) => ListedOthers(c) /\ shown'[c] = ListOf(store')
           /\ ShowNone(c, FALSE) => ListedOthers(c)
           /\ ShowNone(c, TRUE) => ListedOthers(c) /\ outdated'[c]
           /\ ShowIfListable(c, TRUE) => /\ ListedOthers(c)
                                         /\ outdated'[c] \/ shown'[c] = ListOf(store')
           /\ ShowIfListable(c, FALSE) => /\ ListedOthers(c)
                                          /\ \/ shown'[c] = ListOf(store')
                                             \/ shown'[c] = shown[c] /\ outdated'[c] = outdated[c]
           /\ UNCHANGED <<store, listVars>> => ListedOthers(c)
<1>1. Show(c) => ListedOthers(c) /\ shown'[c] = ListOf(store')
  BY DEF Show, ListedOthers, Typed, TypeOK
<1>2. ShowNone(c, FALSE) => ListedOthers(c)
  BY DEF ShowNone, ListedOthers
<1>3. ShowNone(c, TRUE) => ListedOthers(c) /\ outdated'[c]
  BY DEF ShowNone, ListedOthers
<1>4. UNCHANGED <<store, listVars>> => ListedOthers(c)
  BY DEF ListedOthers, listVars, Listing
<1>5. ShowNone(c, FALSE) => shown'[c] = shown[c] /\ outdated'[c] = outdated[c]
  BY DEF ShowNone, Typed, TypeOK
<1>6. /\ ShowIfListable(c, TRUE) => Show(c) \/ ShowNone(c, TRUE)
      /\ ShowIfListable(c, FALSE) => Show(c) \/ ShowNone(c, FALSE)
  BY DEF ShowIfListable
<1> HIDE DEF Show, ShowNone, ShowIfListable, ListedOthers
<1> QED BY <1>1, <1>2, <1>3, <1>4, <1>5, <1>6

LEMMA NextShown == Typed /\ ShownInv /\ [Next]_vars => ShownInv'
<1> SUFFICES ASSUME Typed, ShownInv, [Next]_vars PROVE ShownInv'
  OBVIOUS
<1>1. ASSUME NEW c \in Chats, Step(c) PROVE ShownInv'
  <2>1. Apart(c)
    BY <1>1, StepLaws DEF Laws
  <2>2. ListedOthers(c) /\ ShownOf(c)'
    <3>1. CASE List(c)
      BY <3>1, ShowOthers DEF List, ShownOf, Listing
    <3>2. ASSUME NEW b \in Batches, Install(c, b) PROVE ListedOthers(c) /\ ShownOf(c)'
      BY <3>2, ShowOthers DEF Install, Begin, ShownInv, ShownOf, Listing, listVars
    <3>3. CASE Refuse(c)
      BY <3>3, ShowOthers DEF Refuse, ShownInv, ShownOf, Listing, listVars
    <3>4. CASE Clear(c)
      <4>1. pc'[c] = "extract"
        BY <3>4 DEF Clear, Typed, TypeOK
      <4> QED BY <3>4, <4>1, ShowOthers DEF Clear, ShownOf
    <3>5. ASSUME NEW f \in Names, Extract(c, f) PROVE ListedOthers(c) /\ ShownOf(c)'
      BY <3>5, ShowOthers DEF Extract, ShownOf
    <3>6. CASE Break(c)
      BY <3>6, ShowOthers DEF Break, ShownOf
    <3>7. CASE Validate(c)
      <4>1. CASE Sound(target[c])
        <5>1. c \in Chats /\ pc'[c] = "fetch" /\ installed'[c] # {}
          BY <3>7, <4>1 DEF Validate, NextUpload, Typed, TypeOK
        <5> QED BY <3>7, <4>1, <5>1, ShowOthers DEF Validate, ShownOf
      <4>2. CASE ~ Sound(target[c])
        BY <3>7, <4>2, ShowOthers DEF Validate, ShownOf
      <4> QED BY <4>1, <4>2
    <3>8. CASE Report(c)
      BY <3>8, ShowOthers DEF Report, ShownInv, ShownOf, Listing, listVars
    <3>9. ASSUME NEW n \in 1 .. Cardinality(Packs), RemovePack(c, n) PROVE ListedOthers(c) /\ ShownOf(c)'
      BY <3>9, ShowOthers DEF RemovePack, ShownOf, Listing
    <3>10. ASSUME NEW n \in 1 .. Cardinality(Packs), Download(c, n) PROVE ListedOthers(c) /\ ShownOf(c)'
      BY <3>10, ShowOthers DEF Download, Begin, ShownInv, ShownOf, Listing, listVars
    <3>11. ASSUME NEW f \in Names, AddFile(c, f) PROVE ListedOthers(c) /\ ShownOf(c)'
      BY <3>11, ShowOthers DEF AddFile, ShownInv, ShownOf, Listing, listVars
    <3>12. CASE Send(c)
      BY <3>12, ShowOthers DEF Send, ShownInv, ShownOf, Listing, listVars
    <3>13. CASE Depend(c)
      BY <3>13, ShowOthers DEF Depend, Begin, ShownInv, ShownOf, Listing, listVars
    <3>14. CASE PipSucceeds(c)
      <4>1. /\ ListedOthers(c) /\ store' = store /\ pc[c] = "pip"
            /\ \/ shown'[c] = ListOf(store')
               \/ shown'[c] = shown[c] /\ outdated'[c] = outdated[c]
        BY <3>14, ShowOthers DEF PipSucceeds
      <4> QED BY <4>1 DEF ShownInv, ShownOf, Listing
    <3>15. CASE PipFails(c)
      BY <3>15, ShowOthers DEF PipFails, ShownInv, ShownOf, Listing, listVars
    <3>16. CASE Stuck(c)
      BY <3>16, ShowOthers DEF Stuck, ShownOf
    <3>17. CASE Die(c)
      BY <3>17, ShowOthers DEF Die, ShownOf
    <3> QED
      BY <1>1, <3>1, <3>2, <3>3, <3>4, <3>5, <3>6, <3>7, <3>8, <3>9, <3>10, <3>11, <3>12, <3>13,
         <3>14, <3>15, <3>16, <3>17
      DEF Step
  <2>3. ASSUME NEW x \in Chats \ {c} PROVE ShownOf(x)'
    BY <2>1, <2>2 DEF Apart, ListedOthers, ShownInv, ShownOf, Listing
  <2> QED BY <2>2, <2>3 DEF ShownInv
<1>2. CASE UNCHANGED vars
  BY <1>2 DEF vars, installVars, listVars, ShownInv, ShownOf, Listing
<1> QED BY <1>1, <1>2 DEF Next, Step

\* The number of a remove means the pack that stood there in the list the user saw last,
\* and nothing else goes, unless others, or a failed install, have changed the directories
\* since: what a conversation does itself ends with a list, or with an error.
THEOREM NumbersMeanWhatWasShown == Spec => RemovedAsShown
<1>1. Init => ShownInv
  BY DEF Init, ShownInv, ShownOf
<1>2. Typed /\ ShownInv =>
        \A c \in Chats, n \in 1 .. Cardinality(Packs) : RemovePack(c, n) /\ ~ outdated[c] =>
           \E p \in Numbered(shown[c], n) :
               /\ store'[p] = None \/ faults' > faults
               /\ \A q \in Packs \ {p} : store'[q] = store[q]
  <2> SUFFICES ASSUME Typed, ShownInv, NEW c \in Chats, NEW n \in 1 .. Cardinality(Packs),
                      RemovePack(c, n), ~ outdated[c]
               PROVE  \E p \in Numbered(shown[c], n) :
                         /\ store'[p] = None \/ faults' > faults
                         /\ \A q \in Packs \ {p} : store'[q] = store[q]
    BY Zenon
  <2>1. shown[c] = Listing
    BY DEF RemovePack, ShownInv, ShownOf
  <2>2. PICK p \in Numbered(Listing, n) : Discard(p)
    BY DEF RemovePack
  <2>3. p \in Packs
    BY DEF Numbered, Listing, ListOf
  <2>4. /\ store'[p] = None \/ faults' > faults
        /\ \A q \in Packs \ {p} : store'[q] = store[q]
    BY <2>2, <2>3, DiscardOne DEF Typed
  <2> QED BY <2>1, <2>2, <2>4
<1> QED BY <1>1, <1>2, NextShown, AlwaysTyped, PTL DEF Spec, RemovedAsShown

-----------------------------------------------------------------------------
(* Commands by their phases.                                               *)

LEMMA EndClears ==
    ASSUME TypeOK, NEW c \in Chats, End(c)
    PROVE  /\ pc'[c] = "idle" /\ installed'[c] = {} /\ zip'[c] = Empty
BY DEF End, TypeOK

\* How a command comes into a phase, or stays in it.
Arrival(c) ==
    /\ pc'[c] = "fetch" => \/ (\E b \in Batches : Install(c, b)) \/ Refuse(c) \/ Stuck(c)
                           \/ Break(c) \/ Validate(c)
    /\ pc'[c] = "extract" => Clear(c) \/ \E f \in Names : Extract(c, f)
    /\ pc'[c] = "zip" => \/ \E n \in Nat : Download(c, n)
                         \/ \E f \in Names : AddFile(c, f) /\ UNCHANGED <<pc, target>>
    /\ pc'[c] = "pip" => Depend(c)
    /\ pc'[c] = "idle" =>
          \/ End(c)
          \/ pc[c] = "idle" /\ UNCHANGED <<installed, zip>>

LEMMA StepArrival ==
    ASSUME Typed, NEW c \in Chats, Step(c)
    PROVE  Arrival(c)
<1> USE DEF Arrival, Typed, TypeOK, Phases
<1>1. CASE List(c)
  BY <1>1 DEF List, installVars
<1>2. ASSUME NEW b \in Batches, Install(c, b) PROVE Arrival(c)
  <2>1. pc'[c] = "fetch"
    BY <1>2 DEF Install, Begin
  <2> QED BY <1>2, <2>1
<1>3. CASE Refuse(c) \/ Stuck(c)
  <2>1. pc'[c] = "fetch"
    BY <1>3 DEF Refuse, Stuck
  <2> QED BY <1>3, <2>1
<1>4. CASE Clear(c)
  <2>1. pc'[c] = "extract"
    BY <1>4 DEF Clear
  <2> QED BY <1>4, <2>1
<1>5. ASSUME NEW f \in Names, Extract(c, f) PROVE Arrival(c)
  <2>1. pc'[c] = "extract"
    BY <1>5 DEF Extract
  <2> QED BY <1>5, <2>1
<1>6. CASE Break(c) \/ Validate(c)
  <2>1. pc'[c] = "fetch"
    BY <1>6 DEF Break, Validate, NextUpload
  <2> QED BY <1>6, <2>1
<1>7. CASE End(c)
  <2>1. pc'[c] = "idle"
    BY <1>7, EndClears
  <2> QED BY <1>7, <2>1
<1>8. CASE Report(c) \/ Send(c) \/ PipSucceeds(c) \/ PipFails(c) \/ Die(c)
  BY <1>7, <1>8 DEF Report, Send, PipSucceeds, PipFails, Die
<1>9. ASSUME NEW n \in 1 .. Cardinality(Packs), RemovePack(c, n) PROVE Arrival(c)
  BY <1>9 DEF RemovePack, installVars
<1>10. ASSUME NEW n \in 1 .. Cardinality(Packs), Download(c, n) PROVE Arrival(c)
  <2>1. pc'[c] = "zip"
    BY <1>10 DEF Download, Begin
  <2>2. n \in Nat
    <3>1. Cardinality(Packs) \in Nat
      BY Constants, FS_CardinalityType
    <3> QED BY <3>1
  <2> QED BY <1>10, <2>1, <2>2
<1>11. ASSUME NEW f \in Names, AddFile(c, f) PROVE Arrival(c)
  <2>1. CASE End(c)
    BY <1>7, <2>1
  <2>2. CASE ~ End(c)
    <3>1. pc' = pc /\ target' = target /\ pc[c] = "zip"
      BY <1>11, <2>2 DEF AddFile
    <3> QED BY <1>11, <3>1
  <2> QED BY <2>1, <2>2
<1>12. CASE Depend(c)
  <2>1. pc'[c] = "pip"
    BY <1>12 DEF Depend, Begin
  <2> QED BY <1>12, <2>1
<1> HIDE DEF Arrival
<1> QED
  BY <1>1, <1>2, <1>3, <1>4, <1>5, <1>6, <1>8, <1>9, <1>10, <1>11, <1>12
  DEF Step

-----------------------------------------------------------------------------
(* Reports of installs.                                                    *)

\* What an install is going to report is there, or others, or the install itself, have
\* written to it since.
ReportedOf(c) ==
    /\ installed[c] # {} => pc[c] \in {"fetch", "extract"}
    /\ \A p \in installed[c] : Sound(p) \/ p \in touched[c] \cup retried[c]
    /\ pc[c] = "extract" /\ target[c] \in installed[c] => target[c] \in retried[c]

ReportedInv == \A c \in Chats : ReportedOf(c)

LEMMA NextReported == Typed /\ ReportedInv /\ [Next]_vars => ReportedInv'
<1> SUFFICES ASSUME Typed, ReportedInv, [Next]_vars PROVE ReportedInv'
  OBVIOUS
<1>1. ASSUME NEW c \in Chats, Step(c) PROVE ReportedInv'
  <2>1. Laws(c) /\ Arrival(c)
    BY <1>1, StepLaws, StepArrival
  <2>2. \A x \in Chats : installed[x] \subseteq Packs
    BY DEF Typed, TypeOK
  <2>3. ASSUME NEW x \in Chats \ {c} PROVE ReportedOf(x)'
    <3>1. /\ pc'[x] = pc[x] /\ target'[x] = target[x] /\ installed'[x] = installed[x]
          /\ retried'[x] = retried[x] /\ touched[x] \subseteq touched'[x]
      BY <2>1 DEF Laws, Apart, Remembered
    <3>2. ASSUME NEW p \in installed[x] PROVE Sound(p)' \/ p \in touched'[x] \cup retried[x]
      <4>1. Busy(x) /\ p \in Packs
        BY <2>2 DEF ReportedInv, ReportedOf, Busy
      <4>2. store'[p] = store[p] \/ p \in touched'[x]
        BY <2>1, <4>1 DEF Laws, Noticed
      <4> QED BY <3>1, <4>2 DEF ReportedInv, ReportedOf, Sound
    <3> QED BY <3>1, <3>2 DEF ReportedInv, ReportedOf
  <2>4. ReportedOf(c)'
    <3>1. ASSUME pc'[c] \notin {"fetch", "extract"} PROVE ReportedOf(c)'
      <4>1. installed'[c] = {}
        <5>1. pc'[c] \in {"idle", "zip", "pip"}
          BY <1>1, <3>1, NextTyped DEF Typed, TypeOK, Next, Step
        <5>2. CASE End(c)
          BY <5>2, EndClears DEF Typed
        <5>3. CASE ~ End(c)
          <6>1. installed'[c] = installed[c] /\ pc[c] \notin {"fetch", "extract"}
            BY <2>1, <3>1, <5>1, <5>3
            DEF Arrival, Download, AddFile, Depend, Begin, installVars, Typed, TypeOK
          <6> QED BY <6>1 DEF ReportedInv, ReportedOf
        <5> QED BY <5>2, <5>3
      <4> QED BY <3>1, <4>1 DEF ReportedOf
    <3>2. ASSUME NEW b \in Batches, Install(c, b) PROVE ReportedOf(c)'
      <4>1. installed'[c] = {}
        BY <3>2 DEF Install, Begin, ReportedInv, ReportedOf
      <4>2. pc'[c] = "fetch"
        BY <3>2 DEF Install, Begin, Typed, TypeOK
      <4> QED BY <4>1, <4>2 DEF ReportedOf
    <3>3. CASE Refuse(c)
      BY <3>3 DEF Refuse, ReportedInv, ReportedOf, Sound
    <3>4. CASE Clear(c)
      <4> DEFINE p == DirOf[Head(uploads[c])]
      <4>1. /\ store' = [store EXCEPT ![p] = Empty] /\ pc'[c] = "extract" /\ target'[c] = p
            /\ installed' = installed /\ retried'[c] = retried[c] \cup ({p} \cap installed[c])
            /\ touched'[c] = touched[c]
        BY <3>4 DEF Clear, Cleared, Touch, Typed, TypeOK
      <4> HIDE DEF p
      <4>2. ASSUME NEW q \in installed[c] PROVE Sound(q)' \/ q \in touched[c] \cup retried'[c]
        <5>1. CASE q = p
          BY <4>1, <5>1
        <5>2. CASE q # p
          <6>1. store'[q] = store[q]
            BY <2>2, <4>1, <5>2 DEF Typed, TypeOK
          <6> QED BY <4>1, <6>1 DEF ReportedInv, ReportedOf, Sound
        <5> QED BY <5>1, <5>2
      <4> QED BY <4>1, <4>2 DEF ReportedOf
    <3>9. CASE Stuck(c)
      <4> DEFINE p == DirOf[Head(uploads[c])]
      <4>1. uploads[c] # << >> /\ uploads[c] \in Seq(Archives) /\ pc[c] = "fetch"
        BY <3>9 DEF Stuck, Typed, TypeOK
      <4>2. Head(uploads[c]) \in Archives
        BY <4>1
      <4>3. p \in Packs
        BY <4>2, Constants
      <4>4. /\ Cut(p) /\ pc' = pc /\ installed' = installed /\ touched'[c] = touched[c]
            /\ retried'[c] = retried[c] \cup ({p} \cap installed[c])
        BY <3>9 DEF Stuck, Touch, Typed, TypeOK
      <4> HIDE DEF p
      <4>5. \A q \in Packs : q # p => store'[q] = store[q]
        BY <4>3, <4>4, CutOne DEF Typed
      <4>6. ASSUME NEW q \in installed[c] PROVE Sound(q)' \/ q \in touched[c] \cup retried'[c]
        <5>1. CASE q = p
          BY <4>4, <5>1
        <5>2. CASE q # p
          <6>1. store'[q] = store[q]
            BY <2>2, <4>5, <5>2
          <6> QED BY <4>4, <6>1 DEF ReportedInv, ReportedOf, Sound
        <5> QED BY <5>1, <5>2
      <4> QED BY <4>1, <4>4, <4>6 DEF ReportedOf
    <3>5. ASSUME NEW f \in Names, Extract(c, f) PROVE ReportedOf(c)'
      <4>1. /\ pc' = pc /\ pc[c] = "extract" /\ target' = target /\ installed' = installed
            /\ retried' = retried /\ touched'[c] = touched[c]
        BY <3>5 DEF Extract, Touch, installVars
      <4>2. \A q \in installed[c] : q # target[c] => store'[q] = store[q]
        BY <2>2, <3>5 DEF Extract, Typed, TypeOK
      <4> QED BY <4>1, <4>2 DEF ReportedInv, ReportedOf, Sound
    <3>6. CASE Break(c)
      BY <3>6 DEF Break, NextUpload, ReportedInv, ReportedOf, Sound, Typed, TypeOK
    <3>7. CASE Validate(c)
      <4>1. pc'[c] = "fetch" /\ retried' = retried /\ pc[c] = "extract"
        BY <3>7 DEF Validate, NextUpload, Typed, TypeOK
      <4>2. CASE Sound(target[c])
        <5>1. installed'[c] = installed[c] \cup {target[c]} /\ store' = store /\ touched' = touched
          BY <3>7, <4>2 DEF Validate, Typed, TypeOK
        <5>2. Sound(target[c]) /\ \A q \in installed[c] : Sound(q) \/ q \in touched[c] \cup retried[c]
          BY <4>2 DEF ReportedInv, ReportedOf
        <5>3. \A q \in installed'[c] :
                \/ store'[q] # None /\ store'[q][Manifest] \in Valid
                \/ q \in touched'[c] \cup retried'[c]
          BY <4>1, <5>1, <5>2 DEF Sound
        <5> QED BY <4>1, <5>3 DEF ReportedOf, Sound
      <4>3. CASE ~ Sound(target[c])
        <5>1. installed' = installed /\ touched'[c] = touched[c]
          BY <3>7, <4>3 DEF Validate, Touch
        <5>2. \A q \in installed[c] : q # target[c] => store'[q] = store[q]
          <6>1. CASE UNCHANGED store
            BY <6>1
          <6>2. CASE ~ UNCHANGED store
            <7>1. target[c] \in Packs /\ Discard(target[c])
              BY <3>7, <6>2, ValidateOne
            <7> QED BY <2>2, <7>1, DiscardOne DEF Typed
          <6> QED BY <6>1, <6>2
        <5> QED BY <4>1, <5>1, <5>2 DEF ReportedInv, ReportedOf, Sound
      <4> QED BY <4>2, <4>3
    <3>8. CASE pc'[c] \in {"fetch", "extract"}
      BY <2>1, <3>2, <3>3, <3>4, <3>5, <3>6, <3>7, <3>8, <3>9 DEF Arrival
    <3> QED BY <3>1, <3>8
  <2> QED BY <2>3, <2>4 DEF ReportedInv
<1>2. CASE UNCHANGED vars
  BY <1>2 DEF vars, installVars, ReportedInv, ReportedOf, Sound
<1> QED BY <1>1, <1>2 DEF Next, Step

\* What an install reports as installed is a valid pack when it is reported, unless
\* another conversation wrote to it, or the same command installed it twice.
THEOREM ReportsAreTrue == Spec => ReportedIsThere
<1>1. Init => ReportedInv
  BY DEF Init, ReportedInv, ReportedOf
<1>2. ReportedInv =>
        \A c \in Chats : Report(c) =>
           \A p \in installed[c] : Sound(p) \/ p \in touched[c] \cup retried[c]
  BY DEF ReportedInv, ReportedOf
<1> QED BY <1>1, <1>2, NextReported, AlwaysTyped, PTL DEF Spec, ReportedIsThere

-----------------------------------------------------------------------------
(* Downloads and dependencies.                                             *)

\* A download holds what is there, as far as it has come, unless others wrote to it.
ZipOf(c) ==
    /\ pc[c] # "zip" => zip[c] = Empty
    /\ pc[c] = "zip" /\ target[c] \notin touched[c] =>
          /\ store[target[c]] # None
          /\ \A f \in Names : zip[c][f] = IF f \in todo[c] THEN None ELSE store[target[c]][f]

ZipInv == \A c \in Chats : ZipOf(c)

LEMMA NextZip == Typed /\ ZipInv /\ [Next]_vars => ZipInv'
<1> SUFFICES ASSUME Typed, ZipInv, [Next]_vars PROVE ZipInv'
  OBVIOUS
<1>1. ASSUME NEW c \in Chats, Step(c) PROVE ZipInv'
  <2>1. Laws(c) /\ Arrival(c)
    BY <1>1, StepLaws, StepArrival
  <2>2. ASSUME NEW x \in Chats \ {c} PROVE ZipOf(x)'
    <3>1. /\ pc'[x] = pc[x] /\ target'[x] = target[x] /\ zip'[x] = zip[x] /\ todo'[x] = todo[x]
          /\ touched[x] \subseteq touched'[x]
      BY <2>1 DEF Laws, Apart, Remembered
    <3>2. ZipOf(x)
      BY DEF ZipInv
    <3>3. CASE pc[x] = "zip" /\ target[x] \notin touched'[x]
      <4>1. store'[target[x]] = store[target[x]]
        BY <2>1, <3>3 DEF Laws, Noticed, Busy, Typed, Working
      <4> QED BY <3>1, <3>2, <3>3, <4>1 DEF ZipOf
    <3>4. CASE ~ (pc[x] = "zip" /\ target[x] \notin touched'[x])
      BY <3>1, <3>2, <3>4 DEF ZipOf
    <3> QED BY <3>3, <3>4
  <2>3. ZipOf(c)'
    <3>1. ASSUME pc'[c] # "zip" PROVE ZipOf(c)'
      <4>1. CASE End(c)
        BY <3>1, <4>1, EndClears DEF Typed, ZipOf
      <4>2. CASE ~ End(c)
        <5>1. pc'[c] \in {"idle", "fetch", "extract", "pip"}
          BY <1>1, <3>1, NextTyped DEF Typed, TypeOK, Next, Step
        <5>2. zip'[c] = zip[c] /\ pc[c] # "zip"
          BY <2>1, <3>1, <4>2, <5>1
          DEF Arrival, Install, Refuse, Stuck, Break, Validate, Clear, Extract, Depend, Begin, Typed, TypeOK
        <5> QED BY <3>1, <5>2 DEF ZipInv, ZipOf
      <4> QED BY <4>1, <4>2
    <3>2. ASSUME NEW n \in Nat, Download(c, n) PROVE ZipOf(c)'
      <4>1. PICK p \in Numbered(Listing, n) :
              target' = [target EXCEPT ![c] = p] /\ todo' = [todo EXCEPT ![c] = Present(p)]
        BY <3>2 DEF Download
      <4>2. store[p] # None
        BY DEF Numbered, Listing, ListOf
      <4>3. /\ pc'[c] = "zip" /\ zip'[c] = Empty /\ store' = store
            /\ target'[c] = p /\ todo'[c] = {f \in Names : store[p][f] # None}
        BY <3>2, <4>1 DEF Download, Begin, ZipInv, ZipOf, Present, Typed, TypeOK
      <4> QED BY <4>2, <4>3 DEF ZipOf, Empty
    <3>3. ASSUME NEW f \in Names, AddFile(c, f), UNCHANGED <<pc, target>> PROVE ZipOf(c)'
      <4> DEFINE p == target[c]
      <4>1. p \in Packs /\ pc[c] = "zip" /\ pc'[c] = "zip"
        BY <3>3 DEF AddFile, Typed, Working
      <4>2. ~ End(c)
        BY <4>1, EndClears DEF Typed
      <4>3. /\ zip' = [zip EXCEPT ![c][f] = store[p][f]] /\ todo'[c] = todo[c] \ {f}
            /\ store' = store /\ touched' = touched /\ target'[c] = p
        BY <3>3, <4>2 DEF AddFile, Typed, TypeOK
      <4>4. zip \in [Chats -> Dir]
        BY DEF Typed, TypeOK
      <4> HIDE DEF p
      <4>5. \A g \in Names : zip'[c][g] = IF g = f THEN store[p][f] ELSE zip[c][g]
        BY <4>3, <4>4 DEF Dir
      <4>6. p \notin touched[c] => /\ store[p] # None
                                  /\ \A g \in Names : zip[c][g] = IF g \in todo[c] THEN None ELSE store[p][g]
        BY <4>1 DEF ZipInv, ZipOf, p
      <4> QED BY <4>1, <4>3, <4>5, <4>6 DEF ZipOf
    <3>4. CASE pc'[c] = "zip"
      BY <2>1, <3>2, <3>3, <3>4 DEF Arrival
    <3> QED BY <3>1, <3>4
  <2> QED BY <2>2, <2>3 DEF ZipInv
<1>2. CASE UNCHANGED vars
  BY <1>2 DEF vars, ZipInv, ZipOf
<1> QED BY <1>1, <1>2 DEF Next, Step

\* A download is the directory as it is when it is sent, unless others wrote to it
\* meanwhile.
THEOREM DownloadsAreWhole == Spec => DownloadIsOneMoment
<1>1. Init => ZipInv
  BY DEF Init, ZipInv, ZipOf
<1>2. Typed /\ ZipInv =>
        \A c \in Chats : Send(c) =>
           zip[c] = store[target[c]] \/ target[c] \in touched[c]
  <2> SUFFICES ASSUME Typed, ZipInv, NEW c \in Chats, Send(c), target[c] \notin touched[c]
               PROVE  zip[c] = store[target[c]]
    OBVIOUS
  <2>1. /\ store[target[c]] # None /\ target[c] \in Packs
        /\ \A f \in Names : zip[c][f] = store[target[c]][f]
    BY DEF Send, ZipInv, ZipOf, Typed, Working
  <2>2. zip[c] \in Dir /\ store[target[c]] \in Dir
    BY <2>1 DEF Typed, TypeOK
  <2> QED BY <2>1, <2>2 DEF Dir
<1> QED BY <1>1, <1>2, NextZip, AlwaysTyped, PTL DEF Spec, DownloadIsOneMoment

\* pip was started for all that a valid pack may ask it for and has not, unless others
\* wrote to it.
PipOf(c) ==
    pc[c] = "pip" =>
        \A p \in Packs : Sound(p) =>
            Asked(store[p][Manifest]) \subseteq libs \cup wanted[c] \/ p \in touched[c]

PipInv == \A c \in Chats : PipOf(c)

LEMMA LibsStay ==
    ASSUME NEW c \in Chats, Step(c)
    PROVE  libs \subseteq libs'
BY DEF Step, List, Install, Refuse, Stuck, Clear, Extract, Break, Validate, Report, RemovePack, Download,
       AddFile, Send, Depend, PipSucceeds, PipFails, Die

LEMMA NextPip == Typed /\ PipInv /\ [Next]_vars => PipInv'
<1> SUFFICES ASSUME Typed, PipInv, [Next]_vars PROVE PipInv'
  OBVIOUS
<1>1. ASSUME NEW c \in Chats, Step(c) PROVE PipInv'
  <2>1. Laws(c) /\ Arrival(c) /\ libs \subseteq libs'
    BY <1>1, StepLaws, StepArrival, LibsStay
  <2>2. ASSUME NEW x \in Chats \ {c} PROVE PipOf(x)'
    <3>1. pc'[x] = pc[x] /\ wanted'[x] = wanted[x] /\ touched[x] \subseteq touched'[x]
      BY <2>1 DEF Laws, Apart, Remembered
    <3>2. pc[x] = "pip" => \A p \in Packs : store'[p] = store[p] \/ p \in touched'[x]
      BY <2>1 DEF Laws, Noticed, Busy
    <3>3. PipOf(x)
      BY DEF PipInv
    <3> QED BY <2>1, <3>1, <3>2, <3>3 DEF PipOf, Sound
  <2>3. PipOf(c)'
    <3>1. CASE Depend(c)
      <4>1. wanted'[c] = Missing /\ libs' = libs /\ store' = store
        BY <3>1 DEF Depend, Typed, TypeOK
      <4>2. \A p \in Packs : Sound(p) => Asked(store[p][Manifest]) \subseteq libs \cup Missing
        BY DEF Missing
      <4> QED BY <4>1, <4>2 DEF PipOf, Sound
    <3>2. CASE pc'[c] # "pip"
      BY <3>2 DEF PipOf
    <3> QED BY <2>1, <3>1, <3>2 DEF Arrival
  <2> QED BY <2>2, <2>3 DEF PipInv
<1>2. CASE UNCHANGED vars
  BY <1>2 DEF vars, PipInv, PipOf, Sound
<1> QED BY <1>1, <1>2 DEF Next, Step

\* When pip has succeeded every valid pack has what pip may be asked for on its account,
\* the mere names among its first requirements, but for packs others wrote to meanwhile.
THEOREM DependenciesAreThere == Spec => DependenciesServed
<1>1. Init => PipInv
  BY DEF Init, PipInv, PipOf
<1>2. PipInv =>
        \A c \in Chats : PipSucceeds(c) =>
           \A p \in Packs : Sound(p) =>
               Asked(store[p][Manifest]) \subseteq libs' \/ p \in touched[c]
  BY DEF PipInv, PipOf, PipSucceeds
<1> QED BY <1>1, <1>2, NextPip, AlwaysTyped, PTL DEF Spec, DependenciesServed

-----------------------------------------------------------------------------
(* Packs that are whole.                                                   *)

\* A directory has the files of one archive,
Pure(p) == \E a \in Archives : store[p] = Whole(a)

\* or those of them that have been extracted so far.
PartOf(c) ==
    pc[c] = "extract" /\ target[c] \notin mixed =>
        /\ store[target[c]] # None
        /\ \A f \in Names :
              store[target[c]][f] = IF f \in FilesOf[archive[c]] \ todo[c] THEN archive[c] ELSE None

\* Two installs of one directory at a time mix it.
Alone(c, d) ==
    c # d /\ pc[c] = "extract" /\ pc[d] = "extract" /\ target[c] = target[d] => target[c] \in mixed

WholeInv ==
    /\ \A p \in Packs : store[p] # None /\ Extracting(p) = {} /\ p \notin mixed => Pure(p)
    /\ \A c \in Chats : PartOf(c)
    /\ \A c, d \in Chats : Alone(c, d)

\* Steps that neither begin nor end an extraction, nor write.
LEMMA WholeFrame ==
    ASSUME WholeInv, store' = store, mixed' = mixed,
           \A x \in Chats : pc'[x] = "extract" <=> pc[x] = "extract",
           \A x \in Chats : pc[x] = "extract" =>
               archive'[x] = archive[x] /\ target'[x] = target[x] /\ todo'[x] = todo[x]
    PROVE  WholeInv'
<1>1. \A p : Extracting(p)' = Extracting(p)
  BY DEF Extracting
<1> QED BY <1>1 DEF WholeInv, PartOf, Alone, Pure

\* An extraction that ends leaves the others as they are.
LEMMA ExtractingAfter ==
    ASSUME Typed, NEW c \in Chats, Apart(c), pc[c] = "extract", pc'[c] # "extract"
    PROVE  \A p : Extracting(p)' = Extracting(p) \ {c}
BY DEF Extracting, Apart

LEMMA BrokenWhole ==
    ASSUME Typed, WholeInv, NEW c \in Chats, Apart(c), pc[c] = "extract", pc'[c] # "extract",
           store' = store, mixed' = mixed \cup {target[c]}
    PROVE  WholeInv'
<1>1. \A p : Extracting(p)' = Extracting(p) \ {c}
  BY ExtractingAfter
<1>2. \A p : p # target[c] => c \notin Extracting(p)
  BY DEF Extracting
<1>3. \A p \in Packs : store[p] # None /\ Extracting(p)' = {} /\ p \notin mixed' => Pure(p)
  BY <1>1, <1>2 DEF WholeInv
<1>4. \A x \in Chats : PartOf(x)'
  BY DEF WholeInv, PartOf, Apart
<1>5. \A x, y \in Chats : Alone(x, y)'
  BY DEF WholeInv, Alone, Apart
<1> QED BY <1>3, <1>4, <1>5 DEF WholeInv, Pure

LEMMA ClearWhole ==
    ASSUME Typed, WholeInv, NEW c \in Chats, Clear(c)
    PROVE  WholeInv'
<1> DEFINE a == Head(uploads[c])
           p == DirOf[a]
<1>1. a \in Archives /\ p \in Packs
  <2>1. a \in Archives
    BY DEF Clear, Typed, TypeOK
  <2> QED BY <2>1, Constants
<1>2. Apart(c)
  BY ClearLaws DEF Laws
<1>3. /\ store' = [store EXCEPT ![p] = Empty]
      /\ mixed' = IF Extracting(p) = {} THEN mixed \ {p} ELSE mixed \cup {p}
      /\ pc[c] = "fetch" /\ pc'[c] = "extract" /\ target'[c] = p /\ archive'[c] = a
      /\ todo'[c] = FilesOf[a]
  BY DEF Clear, Cleared, Typed, TypeOK
<1> HIDE DEF a, p
<1>4. store'[p] = Empty /\ \A q \in Packs : q # p => store'[q] = store[q]
  BY <1>1, <1>3 DEF Typed, TypeOK
<1>5. \A q : Extracting(q)' = IF q = p THEN Extracting(q) \cup {c} ELSE Extracting(q)
  BY <1>2, <1>3 DEF Extracting, Apart
<1>6. Empty # None /\ \A f \in Names : Empty[f] = None
  BY Directories, Constants DEF Empty
<1>7. \A q \in Packs : store'[q] # None /\ Extracting(q)' = {} /\ q \notin mixed' => Pure(q)'
  <2> SUFFICES ASSUME NEW q \in Packs, store'[q] # None, Extracting(q)' = {}, q \notin mixed'
               PROVE  Pure(q)'
    OBVIOUS
  <2>1. q # p /\ store'[q] = store[q] /\ Extracting(q) = {} /\ q \notin mixed
    BY <1>3, <1>4, <1>5
  <2>2. Pure(q)
    BY <2>1 DEF WholeInv
  <2> QED BY <2>1, <2>2 DEF Pure
<1>8. ASSUME NEW x \in Chats PROVE PartOf(x)'
  <2>1. CASE x = c
    BY <1>3, <1>4, <1>6, <2>1 DEF PartOf
  <2>2. CASE x # c /\ pc[x] = "extract" /\ target[x] = p
    <3>1. x \in Extracting(p)
      BY <2>2 DEF Extracting
    <3>2. p \in mixed' /\ target'[x] = p
      BY <1>2, <1>3, <2>2, <3>1 DEF Apart
    <3> QED BY <3>2 DEF PartOf
  <2>3. CASE x # c /\ pc[x] = "extract" /\ target[x] # p
    <3>1. /\ pc'[x] = pc[x] /\ target'[x] = target[x] /\ archive'[x] = archive[x] /\ todo'[x] = todo[x]
      BY <1>2, <2>3 DEF Apart
    <3>2. target[x] \in Packs
      BY <2>3, Constants DEF Typed, Working
    <3>3. store'[target[x]] = store[target[x]] /\ (target[x] \notin mixed' => target[x] \notin mixed)
      BY <1>3, <1>4, <2>3, <3>2
    <3> QED BY <2>3, <3>1, <3>3 DEF WholeInv, PartOf
  <2>4. CASE x # c /\ pc[x] # "extract"
    BY <1>2, <2>4 DEF Apart, PartOf
  <2> QED BY <2>1, <2>2, <2>3, <2>4
<1>9. ASSUME NEW x \in Chats, NEW y \in Chats PROVE Alone(x, y)'
  <2> SUFFICES ASSUME x # y, pc'[x] = "extract", pc'[y] = "extract", target'[x] = target'[y]
               PROVE  target'[x] \in mixed'
    BY DEF Alone
  <2>1. CASE x # c /\ y # c
    <3>1. /\ pc[x] = "extract" /\ pc[y] = "extract" /\ target[x] = target[y] /\ target'[x] = target[x]
          /\ target[x] \in mixed
      BY <1>2, <2>1 DEF Apart, WholeInv, Alone
    <3>2. target[x] = p => Extracting(p) # {}
      BY <3>1 DEF Extracting
    <3> QED BY <1>3, <3>1, <3>2
  <2>2. CASE x = c \/ y = c
    <3>1. PICK z \in Chats : z # c /\ pc[z] = "extract" /\ target[z] = p
      BY <1>2, <1>3, <2>2 DEF Apart
    <3>2. Extracting(p) # {}
      BY <3>1 DEF Extracting
    <3> QED BY <1>3, <2>2, <3>2
  <2> QED BY <2>1, <2>2
<1> QED BY <1>7, <1>8, <1>9 DEF WholeInv

LEMMA ExtractWhole ==
    ASSUME Typed, WholeInv, NEW c \in Chats, NEW f \in Names, Extract(c, f)
    PROVE  WholeInv'
<1> DEFINE p == target[c]
           was == IF store[p] = None THEN Empty ELSE store[p]
           now == [was EXCEPT ![f] = archive[c]]
<1>1. p \in Packs /\ archive[c] \in Archives /\ pc[c] = "extract" /\ f \in FilesOf[archive[c]] /\ f \in todo[c]
  BY Constants DEF Extract, Typed, Working
<1>2. was \in Dir
  BY <1>1, Directories DEF Typed, TypeOK
<1>3. /\ store' = [store EXCEPT ![p] = now] /\ mixed' = mixed /\ pc' = pc /\ target' = target
      /\ archive' = archive /\ todo' = [todo EXCEPT ![c] = todo[c] \ {f}]
  BY DEF Extract, installVars
<1>4. store[p] # None => was = store[p]
  OBVIOUS
<1>5. c \in Extracting(p)
  BY <1>1 DEF Extracting
<1>6. \A q : Extracting(q)' = Extracting(q)
  BY <1>3 DEF Extracting
<1>7. PartOf(c)
  BY DEF WholeInv
<1> HIDE DEF was
<1>8. now \in Dir /\ now # None /\ now[f] = archive[c] /\ \A g \in Names \ {f} : now[g] = was[g]
  <2>1. now \in Dir /\ now[f] = archive[c] /\ \A g \in Names \ {f} : now[g] = was[g]
    BY <1>1, <1>2 DEF Dir
  <2>2. None \notin Dir
    BY Constants
  <2> HIDE DEF now
  <2> QED BY <2>1, <2>2
<1> HIDE DEF now
<1>9. store'[p] = now /\ \A q \in Packs : q # p => store'[q] = store[q]
  BY <1>1, <1>3 DEF Typed, TypeOK
<1>10. todo'[c] = todo[c] \ {f}
  BY <1>3 DEF Typed, TypeOK
<1>11. ASSUME NEW q \in Packs, store'[q] # None, Extracting(q)' = {}, q \notin mixed' PROVE Pure(q)'
  <2>1. q # p /\ store'[q] = store[q] /\ Extracting(q) = {} /\ q \notin mixed
    BY <1>3, <1>5, <1>6, <1>9, <1>11
  <2>2. Pure(q)
    BY <1>11, <2>1 DEF WholeInv
  <2> QED BY <2>1, <2>2 DEF Pure
<1>12. ASSUME NEW x \in Chats PROVE PartOf(x)'
  <2>1. CASE x = c
    <3> SUFFICES ASSUME p \notin mixed
                 PROVE  /\ now # None
                        /\ \A g \in Names :
                              now[g] = IF g \in FilesOf[archive[c]] \ (todo[c] \ {f}) THEN archive[c] ELSE None
      BY <1>3, <1>9, <1>10, <2>1 DEF PartOf
    <3>1. /\ was = store[p]
          /\ \A g \in Names :
                store[p][g] = IF g \in FilesOf[archive[c]] \ todo[c] THEN archive[c] ELSE None
      BY <1>1, <1>4, <1>7 DEF PartOf
    <3> QED BY <1>1, <1>8, <3>1
  <2>2. CASE x # c /\ pc[x] = "extract" /\ target[x] = p
    <3>1. p \in mixed
      BY <1>1, <2>2 DEF WholeInv, Alone
    <3> QED BY <1>3, <2>2, <3>1 DEF PartOf
  <2>3. CASE x # c /\ pc[x] = "extract" /\ target[x] # p
    <3>1. target[x] \in Packs /\ todo'[x] = todo[x]
      BY <1>3, <2>3, Constants DEF Typed, TypeOK, Working
    <3>2. store'[target[x]] = store[target[x]]
      BY <1>9, <2>3, <3>1
    <3> QED BY <1>3, <2>3, <3>1, <3>2 DEF WholeInv, PartOf
  <2>4. CASE pc[x] # "extract"
    BY <1>3, <2>4 DEF PartOf
  <2> QED BY <2>1, <2>2, <2>3, <2>4
<1>13. \A x, y \in Chats : Alone(x, y)'
  BY <1>3 DEF WholeInv, Alone
<1> QED BY <1>11, <1>12, <1>13 DEF WholeInv

\* An install that ends leaves its directory whole, or not there.
LEMMA ValidateWhole ==
    ASSUME Typed, WholeInv, NEW c \in Chats, Validate(c)
    PROVE  WholeInv'
<1> DEFINE p == target[c]
<1>1. pc[c] = "extract" /\ todo[c] = {} /\ p \in Packs /\ archive[c] \in Archives
  BY Constants DEF Validate, Typed, Working
<1>2. pc'[c] = "fetch"
  BY DEF Validate, NextUpload, Typed, TypeOK
<1>3. Apart(c)
  BY ValidateLaws DEF Laws
<1>4. /\ mixed \subseteq mixed'
      /\ store'[p] \in {store[p], None} \/ p \in mixed'
  BY ValidateOne
<1>5. \A q \in Packs : q # p => store'[q] = store[q]
  <2>1. UNCHANGED store \/ Discard(p)
    BY ValidateOne
  <2> QED BY <1>1, <2>1, DiscardOne DEF Typed
<1>7. \A q : Extracting(q)' = Extracting(q) \ {c}
  BY <1>1, <1>2, <1>3, ExtractingAfter
<1>8. p \notin mixed => Pure(p)
  <2> SUFFICES ASSUME p \notin mixed
               PROVE  store[p] = Whole(archive[c])
    BY <1>1 DEF Pure
  <2>1. PartOf(c)
    BY DEF WholeInv
  <2>2. store[p] \in Dir /\ \A f \in Names : store[p][f] = Whole(archive[c])[f]
    BY <1>1, <2>1 DEF PartOf, Whole, Typed, TypeOK
  <2> QED BY <1>1, <2>2, Directories DEF Dir
<1> HIDE DEF p
<1>9. ASSUME NEW q \in Packs, store'[q] # None, Extracting(q)' = {}, q \notin mixed' PROVE Pure(q)'
  <2>1. store'[q] = store[q]
    BY <1>4, <1>5, <1>9
  <2>2. CASE q = p
    BY <1>4, <1>8, <1>9, <2>1, <2>2 DEF Pure
  <2>3. CASE q # p
    <3>1. Extracting(q) = {}
      BY <1>7, <1>9, <2>3 DEF Extracting, p
    <3>2. Pure(q)
      BY <1>4, <1>9, <2>1, <3>1 DEF WholeInv
    <3> QED BY <2>1, <3>2 DEF Pure
  <2> QED BY <2>2, <2>3
<1>10. ASSUME NEW x \in Chats, pc'[x] = "extract", target'[x] \notin mixed' PROVE PartOf(x)'
  <2>1. /\ x # c /\ pc[x] = "extract" /\ target'[x] = target[x] /\ archive'[x] = archive[x]
        /\ todo'[x] = todo[x] /\ target[x] \notin mixed
    BY <1>2, <1>3, <1>4, <1>10 DEF Apart
  <2>2. target[x] # p
    BY <1>1, <2>1 DEF WholeInv, Alone, p
  <2>3. target[x] \in Packs
    BY <2>1, Constants DEF Typed, Working
  <2>4. store'[target[x]] = store[target[x]]
    BY <1>5, <2>2, <2>3
  <2>5. PartOf(x)
    BY DEF WholeInv
  <2> QED BY <2>1, <2>4, <2>5 DEF PartOf
<1>11. \A x \in Chats : PartOf(x)'
  BY <1>10 DEF PartOf
<1>12. \A x, y \in Chats : Alone(x, y)'
  BY <1>2, <1>3, <1>4 DEF WholeInv, Alone, Apart
<1> QED BY <1>9, <1>11, <1>12 DEF WholeInv

\* A removal leaves a directory that is mixed, or none.
LEMMA RemovalWhole ==
    ASSUME Typed, WholeInv, NEW p \in Packs,
           \A q \in Packs : q # p => store'[q] = store[q],
           mixed \subseteq mixed', p \in mixed' \/ (store'[p] = None /\ Extracting(p) = {}),
           pc' = pc, target' = target, archive' = archive, todo' = todo
    PROVE  WholeInv'
<1>1. \A q : Extracting(q)' = Extracting(q)
  BY DEF Extracting
<1>2. ASSUME NEW q \in Packs, store'[q] # None, Extracting(q)' = {}, q \notin mixed' PROVE Pure(q)'
  <2>1. store'[q] = store[q] /\ Extracting(q) = {} /\ q \notin mixed
    BY <1>1, <1>2
  <2>2. Pure(q)
    BY <1>2, <2>1 DEF WholeInv
  <2> QED BY <2>1, <2>2 DEF Pure
<1>3. ASSUME NEW x \in Chats, pc[x] = "extract", target[x] \notin mixed' PROVE PartOf(x)'
  <2>1. x \in Extracting(target[x])
    BY <1>3 DEF Extracting
  <2>2. target[x] \in Packs /\ target[x] # p
    BY <1>3, <2>1, Constants DEF Typed, Working
  <2>3. store'[target[x]] = store[target[x]] /\ target[x] \notin mixed
    BY <1>3, <2>2
  <2>4. PartOf(x)
    BY DEF WholeInv
  <2> QED BY <2>3, <2>4 DEF PartOf
<1>4. \A x \in Chats : PartOf(x)'
  BY <1>3 DEF PartOf
<1>5. \A x, y \in Chats : Alone(x, y)'
  BY DEF WholeInv, Alone
<1> QED BY <1>2, <1>4, <1>5 DEF WholeInv

LEMMA RemovePackWhole ==
    ASSUME Typed, WholeInv, NEW c \in Chats, NEW n, RemovePack(c, n)
    PROVE  WholeInv'
<1>1. PICK p \in Numbered(Listing, n) :
          /\ Discard(p)
          /\ mixed' = IF store'[p] = None /\ Extracting(p) = {} THEN mixed ELSE mixed \cup {p}
  BY DEF RemovePack
<1>2. p \in Packs
  BY DEF Numbered, Listing, ListOf
<1>3. pc' = pc /\ target' = target /\ archive' = archive /\ todo' = todo
  BY DEF RemovePack, installVars
<1>4. \A q \in Packs : q # p => store'[q] = store[q]
  BY <1>1, <1>2, DiscardOne DEF Typed
<1>5. mixed \subseteq mixed' /\ (p \in mixed' \/ (store'[p] = None /\ Extracting(p) = {}))
  BY <1>1
<1> QED BY <1>2, <1>3, <1>4, <1>5, RemovalWhole

LEMMA StuckWhole ==
    ASSUME Typed, WholeInv, NEW c \in Chats, Stuck(c)
    PROVE  WholeInv'
<1> DEFINE p == DirOf[Head(uploads[c])]
<1>1. uploads[c] # << >> /\ uploads[c] \in Seq(Archives)
  BY DEF Stuck, Typed, TypeOK
<1>2. Head(uploads[c]) \in Archives
  BY <1>1
<1>3. p \in Packs
  BY <1>2, Constants
<1>4. /\ Cut(p) /\ mixed' = mixed \cup {p}
      /\ pc' = pc /\ target' = target /\ archive' = archive /\ todo' = todo
  BY DEF Stuck
<1> HIDE DEF p
<1>5. \A q \in Packs : q # p => store'[q] = store[q]
  BY <1>3, <1>4, CutOne DEF Typed
<1>6. mixed \subseteq mixed' /\ p \in mixed'
  BY <1>4
<1> QED BY <1>3, <1>4, <1>5, <1>6, RemovalWhole

LEMMA NextWhole == Typed /\ WholeInv /\ [Next]_vars => WholeInv'
<1> SUFFICES ASSUME Typed, WholeInv, [Next]_vars PROVE WholeInv'
  OBVIOUS
<1>1. ASSUME NEW c \in Chats, Step(c) PROVE WholeInv'
  <2>1. Apart(c) /\ Arrival(c)
    BY <1>1, StepLaws, StepArrival DEF Laws
  <2>2. ASSUME Quiet(c), mixed' = mixed, pc[c] # "extract", pc'[c] # "extract" PROVE WholeInv'
    BY <2>2, WholeFrame DEF Quiet, Apart
  <2>3. List(c) \/ Refuse(c) \/ Report(c) \/ Send(c) \/ Depend(c) \/ PipSucceeds(c) \/ PipFails(c)
          => WholeInv'
    <3> SUFFICES ASSUME List(c) \/ Refuse(c) \/ Report(c) \/ Send(c) \/ Depend(c) \/ PipSucceeds(c)
                          \/ PipFails(c)
                 PROVE  WholeInv'
      OBVIOUS
    <3>1. Quiet(c)
      BY QuietSteps, Zenon
    <3>2. mixed' = mixed /\ pc[c] # "extract"
      BY DEF List, Refuse, Report, Send, Depend, Begin, PipSucceeds, PipFails
    <3>3. pc'[c] # "extract"
      BY EndClears DEF List, Refuse, Report, Send, Depend, Begin, PipSucceeds, PipFails,
                       Typed, TypeOK
    <3> QED BY <2>2, <3>1, <3>2, <3>3
  <2>4. \A b \in Batches : Install(c, b) => WholeInv'
    <3> SUFFICES ASSUME NEW b \in Batches, Install(c, b) PROVE WholeInv'
      BY Zenon
    <3>1. Quiet(c)
      BY QuietSteps, Zenon
    <3>2. mixed' = mixed /\ pc[c] # "extract" /\ pc'[c] # "extract"
      BY DEF Install, Begin, Typed, TypeOK
    <3> QED BY <2>2, <3>1, <3>2
  <2>5. \A n \in 1 .. Cardinality(Packs) : Download(c, n) => WholeInv'
    <3> SUFFICES ASSUME NEW n \in 1 .. Cardinality(Packs), Download(c, n) PROVE WholeInv'
      BY Zenon
    <3>1. n \in Nat
      <4>1. Cardinality(Packs) \in Nat
        BY Constants, FS_CardinalityType
      <4> QED BY <4>1
    <3>2. Quiet(c)
      BY <3>1, QuietSteps, Zenon
    <3>3. mixed' = mixed /\ pc[c] # "extract" /\ pc'[c] # "extract"
      BY DEF Download, Begin, Typed, TypeOK
    <3> QED BY <2>2, <3>2, <3>3
  <2>6. \A f \in Names : AddFile(c, f) => WholeInv'
    <3> SUFFICES ASSUME NEW f \in Names, AddFile(c, f) PROVE WholeInv'
      BY Zenon
    <3>1. Quiet(c)
      BY QuietSteps, Zenon
    <3>2. mixed' = mixed /\ pc[c] = "zip"
      BY DEF AddFile
    <3>3. pc'[c] # "extract"
      <4>1. CASE End(c)
        BY <4>1, EndClears DEF Typed
      <4>2. CASE ~ End(c)
        BY <3>2, <4>2 DEF AddFile
      <4> QED BY <4>1, <4>2
    <3> QED BY <2>2, <3>1, <3>2, <3>3
  <2>7. Stuck(c) => WholeInv'
    BY StuckWhole
  <2>8. Break(c) => WholeInv'
    BY <2>1, BrokenWhole DEF Break, NextUpload, Typed, TypeOK
  <2>9. Die(c) => WholeInv'
    <3> SUFFICES ASSUME Die(c) PROVE WholeInv'
      OBVIOUS
    <3>1. pc'[c] = "idle" /\ Quiet(c)
      BY EndClears, QuietSteps DEF Die, Typed
    <3>2. CASE pc[c] = "extract"
      BY <2>1, <3>1, <3>2, BrokenWhole DEF Die
    <3>3. CASE pc[c] # "extract"
      BY <2>2, <3>1, <3>3 DEF Die
    <3> QED BY <3>2, <3>3
  <2>10. \A f \in Names : Extract(c, f) => WholeInv'
    BY ExtractWhole, Zenon
  <2>11. \A n \in 1 .. Cardinality(Packs) : RemovePack(c, n) => WholeInv'
    BY RemovePackWhole, Zenon
  <2>12. Clear(c) \/ Validate(c) => WholeInv'
    BY ClearWhole, ValidateWhole, Zenon
  <2> HIDE DEF WholeInv
  <2> QED
    BY <1>1, <2>3, <2>4, <2>5, <2>6, <2>7, <2>8, <2>9, <2>10, <2>11, <2>12 DEF Step
<1>2. CASE UNCHANGED vars
  BY <1>2, WholeFrame DEF vars, installVars
<1> QED BY <1>1, <1>2 DEF Next, Step

\* Between installs a valid pack has the files of one archive and no others, unless its
\* last installs overlapped, broke or met a removal, or a removal left something of it.
THEOREM PacksAreWhole == Spec => []PacksWhole
<1>1. Init => WholeInv
  <2> SUFFICES ASSUME Init PROVE WholeInv
    OBVIOUS
  <2>1. \A p \in Packs : store[p] # None => Pure(p)
    BY Constants DEF Init, Pure
  <2>2. \A c \in Chats : pc[c] = "idle"
    BY DEF Init
  <2> QED BY <2>1, <2>2 DEF WholeInv, PartOf, Alone
<1>2. WholeInv => PacksWhole
  <2> SUFFICES ASSUME WholeInv, NEW p \in Packs, Sound(p), Extracting(p) = {}, p \notin mixed
               PROVE  store[p] = Whole(store[p][Manifest])
    BY DEF PacksWhole
  <2>1. PICK a \in Archives : store[p] = Whole(a)
    BY DEF WholeInv, Pure, Sound
  <2>2. store[p][Manifest] = a
    BY <2>1, Constants DEF Whole
  <2> QED BY <2>1, <2>2
<1> QED BY <1>1, <1>2, NextWhole, AlwaysTyped, PTL DEF Spec
=============================================================================

