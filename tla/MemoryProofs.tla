---------------------------- MODULE MemoryProofs ----------------------------
(***************************************************************************)
(* What holds of the long-term memory of a user, for every number of days, *)
(* commands, extractions and faults.  With one chat: a day's digest goes   *)
(* to the model once, but for reads that lose its marker; what a           *)
(* consolidation takes out is in the backup when the new document is       *)
(* written, and what it archives stays in the archive, unless a read was   *)
(* lost or a turn died; the numbers shown are those a command means.  With *)
(* any number of chats: no section of the document outgrows its bounds.    *)
(***************************************************************************)
EXTENDS Memory, FiniteSetTheorems, NaturalsInduction, WellFoundedInduction, TLAPS

\* A digest that has been looked up and not yet extracted counts as extracted.
Due(c, d) == IF pc[c] \in {"mark", "mine"} /\ target[c] = d THEN 1 ELSE 0

\* The fragment of TypeOK the argument needs.
Counts ==
    /\ lost \in Nat /\ day \in Days
    /\ DOMAIN pc = Chats /\ DOMAIN target = Chats /\ DOMAIN after = Chats
    /\ \A c \in Chats : target[c] \in Days /\ after[c] \in {"idle", "dream"}
    /\ extracted \in [Days -> Nat]

\* The marker is set before the model is called, and a day without a marker is
\* extracted only by runs that a lost read let in.
MarkedFirst(c) ==
    /\ pc[c] = "mine" => target[c] \in marked
    /\ \A d \in Days : d \notin marked => extracted[d] <= lost
    /\ \A d \in Days : d \in marked => extracted[d] + Due(c, d) <= 1 + lost

LEMMA CountsInit == Init => Counts
  BY RunConstants DEF Init, Counts, Days

\* Every step but the look-up, the marking and the extraction leaves the counts
\* alone, but for reads it loses, and starts no extraction.
Aside(c) ==
    /\ day' \in Days /\ lost' \in Nat /\ lost <= lost'
    /\ DOMAIN pc' = Chats /\ DOMAIN target' = Chats /\ DOMAIN after' = Chats
    /\ target'[c] \in Days /\ after'[c] \in {"idle", "dream"}
    /\ extracted' = extracted /\ marked' = marked
    /\ pc'[c] \in {"mark", "mine"} => pc'[c] = pc[c] /\ target'[c] = target[c]

LEMMA ReadsLoses ==
  ASSUME NEW value, NEW stored, NEW nothing, Reads(value, stored, nothing), lost \in Nat
  PROVE  lost' \in Nat /\ lost <= lost'
  BY DEF Reads

LEMMA FinishRests ==
  ASSUME NEW c, Chats = {c}, Counts, Finish(c)
  PROVE  /\ DOMAIN pc' = Chats /\ DOMAIN target' = Chats /\ DOMAIN after' = Chats
         /\ target'[c] \in Days /\ after'[c] = "idle" /\ pc'[c] = "idle"
  BY RunConstants DEF Finish, Forget, Goto, Counts, Days

LEMMA AsideKeeps ==
  ASSUME NEW c, Chats = {c}, Counts, MarkedFirst(c), Aside(c)
  PROVE  Counts' /\ MarkedFirst(c)'
<1>1. Counts'
  BY DEF Counts, Aside
<1>2. (pc[c] = "mine" => target[c] \in marked)'
  BY DEF Aside, MarkedFirst
<1>3. \A d \in Days : Due(c, d)' <= Due(c, d) /\ Due(c, d) \in Nat /\ Due(c, d)' \in Nat
  BY DEF Aside, Due
<1>4. \A d \in Days : extracted[d] \in Nat
  BY DEF Counts
<1>5. (\A d \in Days : d \notin marked => extracted[d] <= lost)'
  BY <1>4 DEF Aside, MarkedFirst, Counts, Days
<1>6. (\A d \in Days : d \in marked => extracted[d] + Due(c, d) <= 1 + lost)'
  <2> SUFFICES ASSUME NEW d \in Days, d \in marked'
               PROVE  extracted'[d] + Due(c, d)' <= 1 + lost'
    BY DEF Days, Aside
  <2>1. extracted[d] + Due(c, d) <= 1 + lost
    BY DEF Aside, MarkedFirst
  <2> QED
    BY <2>1, <1>3, <1>4 DEF Aside, Counts
<1> QED
  BY <1>1, <1>2, <1>5, <1>6 DEF MarkedFirst

\* Of a chat's steps, these leave the counts alone.
LEMMA AsideSteps ==
  ASSUME NEW c, Chats = {c}, Counts, Next,
         ~ TurnEnds(c), ~ Mark(c), \A new \in Extracts : ~ Mine(c, new)
  PROVE  Aside(c)
<1> USE DEF Counts, Aside
<1>1. CASE Midnight
  BY <1>1, RunConstants DEF Midnight, kvVars, localVars, history, Days
<1>2. CASE List(c)
  BY <1>2 DEF List, Commanded, kvVars, localVars
<1>3. ASSUME NEW n \in DOMAIN memory, Delete(c, n)
      PROVE  Aside(c)
  BY <1>3 DEF Delete, Commanded, ToWrite, Goto, OutOfSight, kvVars
<1>4. ASSUME NEW n \in DOMAIN memory, NEW item \in Rewordings, Edit(c, n, item)
      PROVE  Aside(c)
  BY <1>4 DEF Edit, Commanded, ToWrite, Goto, OutOfSight, kvVars
<1>5. ASSUME NEW new \in Extracts, CompactionExtracts(c, new)
      PROVE  Aside(c)
  BY <1>5, ReadsLoses DEF CompactionExtracts, ReadAndMerge, ToWrite, Goto, OutOfSight, kvVars
<1>6. CASE MineNothing(c)
  BY <1>6, FinishRests DEF MineNothing, Goto, kvVars, bounds, localVars, history
<1>7. CASE Write(c)
  BY <1>7, FinishRests DEF Write, Goto, bounds, localVars, history
<1>8. CASE MergeFails(c)
  BY <1>8 DEF MergeFails, Goto, kvVars, localVars, history
<1>9. CASE Dream(c)
  BY <1>9, ReadsLoses, FinishRests DEF Dream, Goto, kvVars, history
<1>10. CASE RewriteNothing(c)
  BY <1>10, FinishRests DEF RewriteNothing, Goto, kvVars, bounds, history
<1>11. ASSUME NEW answer, Rewrite(c, answer)
       PROVE  Aside(c)
  BY <1>11 DEF Rewrite, Goto, kvVars, bounds, history
<1>12. CASE Backup(c)
  BY <1>12, ReadsLoses DEF Backup, Goto, localVars, history
<1>13. CASE Commit(c)
  BY <1>13, FinishRests DEF Commit, Goto, bounds, localVars
<1>14. CASE ReadArchive(c)
  BY <1>14, ReadsLoses DEF ReadArchive, Goto, kvVars, history
<1>15. CASE Shelve(c)
  BY <1>15, FinishRests DEF Shelve, Goto, bounds, history
<1>16. CASE Crash(c)
  BY <1>16, FinishRests DEF Crash, Goto, kvVars, history
<1>17. CASE Reset(c)
  BY <1>17 DEF Reset, Commanded, Goto, OutOfSight, kvVars, localVars
<1>18. CASE WipeMemory(c)
  BY <1>18 DEF WipeMemory, Goto, localVars, history
<1>19. CASE WipeBackup(c)
  BY <1>19 DEF WipeBackup, Goto, localVars, history
<1>20. CASE WipeArchive(c)
  BY <1>20, FinishRests DEF WipeArchive
<1> QED
  BY <1>1, <1>2, <1>3, <1>4, <1>5, <1>6, <1>7, <1>8, <1>9, <1>10, <1>11, <1>12, <1>13,
     <1>14, <1>15, <1>16, <1>17, <1>18, <1>19, <1>20 DEF Next

\* The look-up, the marking and the extraction of a day.
LEMMA TurnEndsKeeps ==
  ASSUME NEW c, Chats = {c}, Counts, MarkedFirst(c), TurnEnds(c)
  PROVE  Counts' /\ MarkedFirst(c)'
<1>1. PICK set \in BOOLEAN :
        /\ Reads(set, day \in marked, FALSE)
        /\ IF set THEN UNCHANGED <<pc, target>>
           ELSE Goto(c, "mark") /\ target' = [target EXCEPT ![c] = day]
  BY DEF TurnEnds
<1>2. /\ pc[c] = "idle" /\ day' = day /\ marked' = marked
      /\ extracted' = extracted /\ after' = after
  BY DEF TurnEnds, kvVars
<1>3. lost' \in Nat /\ lost <= lost'
  BY <1>1, ReadsLoses DEF Counts
<1>4. \A d \in Days : extracted[d] \in Nat /\ Due(c, d) = 0
  BY <1>2 DEF Counts, Due
<1>5. CASE set
  <2>1. Aside(c)
    BY <1>1, <1>2, <1>3, <1>5 DEF Aside, Counts
  <2> QED
    BY <2>1, AsideKeeps
<1>6. CASE ~ set
  <2>1. pc'[c] = "mark" /\ target'[c] = day /\ DOMAIN pc' = Chats /\ DOMAIN target' = Chats
    BY <1>1, <1>6 DEF Goto, Counts
  <2>2. \A d \in Days : Due(c, d)' = IF d = day THEN 1 ELSE 0
    BY <2>1 DEF Due
  <2>3. day \in marked => lost' = lost + 1
    BY <1>1, <1>6 DEF Reads
  <2>4. ASSUME NEW d \in Days, d \in marked'
        PROVE  extracted'[d] + Due(c, d)' <= 1 + lost'
    <3>1. extracted[d] <= 1 + lost
      BY <1>2, <1>4, <2>4 DEF MarkedFirst
    <3> QED
      BY <3>1, <1>2, <1>3, <1>4, <2>2, <2>3, <2>4 DEF Counts
  <2>5. ASSUME NEW d \in Days, d \notin marked'
        PROVE  extracted'[d] <= lost'
    BY <2>5, <1>2, <1>3, <1>4 DEF Counts, MarkedFirst
  <2>6. Counts'
    BY <1>2, <1>3, <2>1 DEF Counts
  <2> QED
    BY <2>1, <2>4, <2>5, <2>6, <1>2 DEF MarkedFirst, Days
<1> QED
  BY <1>5, <1>6

LEMMA MarkKeeps ==
  ASSUME NEW c, Chats = {c}, Counts, MarkedFirst(c), Mark(c)
  PROVE  Counts' /\ MarkedFirst(c)'
<1>1. /\ pc[c] = "mark" /\ marked' = marked \cup {target[c]}
      /\ lost' = lost /\ day' = day /\ extracted' = extracted
      /\ DOMAIN pc' = Chats /\ DOMAIN target' = Chats /\ DOMAIN after' = Chats
      /\ after'[c] \in {"idle", "dream"}
  BY DEF Mark, Goto, Finish, Forget, bounds, history, localVars, Counts
<1>2. \/ pc'[c] = "mine" /\ target'[c] = target[c]
      \/ pc'[c] = "idle" /\ target'[c] = 1
  BY DEF Mark, Goto, Finish, Forget, localVars, Counts
<1>3. Counts'
  BY <1>1, <1>2, RunConstants DEF Counts, Days
<1>4. \A d \in Days : extracted[d] \in Nat /\ Due(c, d)' \in {0, 1}
  BY DEF Counts, Due
<1>5. ASSUME NEW d \in Days, d \in marked'
      PROVE  extracted'[d] + Due(c, d)' <= 1 + lost'
  <2>1. CASE d \in marked
    <3>1. Due(c, d)' <= Due(c, d) /\ Due(c, d) \in {0, 1}
      BY <1>1, <1>2 DEF Due
    <3>2. extracted[d] + Due(c, d) <= 1 + lost
      BY <2>1 DEF MarkedFirst
    <3> QED
      BY <3>1, <3>2, <1>1, <1>4 DEF Counts
  <2>2. CASE d \notin marked
    <3>1. extracted[d] <= lost
      BY <2>2 DEF MarkedFirst
    <3> QED
      BY <3>1, <1>1, <1>4 DEF Counts
  <2> QED
    BY <2>1, <2>2
<1>6. ASSUME NEW d \in Days, d \notin marked'
      PROVE  extracted'[d] <= lost'
  BY <1>6, <1>1 DEF MarkedFirst
<1> QED
  BY <1>1, <1>2, <1>3, <1>5, <1>6 DEF MarkedFirst, Days

LEMMA MineKeeps ==
  ASSUME NEW c, Chats = {c}, Counts, MarkedFirst(c), NEW new \in Extracts, Mine(c, new)
  PROVE  Counts' /\ MarkedFirst(c)'
<1>1. /\ pc[c] = "mine" /\ day' = day /\ marked' = marked /\ target' = target
      /\ extracted' = [extracted EXCEPT ![target[c]] = @ + 1]
      /\ pc'[c] = "write" /\ DOMAIN pc' = Chats
      /\ after'[c] = "dream" /\ DOMAIN after' = Chats
  BY DEF Mine, ReadAndMerge, ToWrite, Goto, kvVars, Counts
<1>2. lost' \in Nat /\ lost <= lost'
  BY ReadsLoses DEF Mine, ReadAndMerge, Counts
<1>3. target[c] \in Days /\ target[c] \in marked
  BY <1>1 DEF Counts, MarkedFirst
<1>4. Counts'
  BY <1>1, <1>2, <1>3 DEF Counts, Days
<1>5. \A d \in Days : /\ extracted[d] \in Nat /\ Due(c, d)' = 0
                     /\ extracted'[d] = extracted[d] + Due(c, d)
  BY <1>1, <1>3 DEF Counts, Due
<1>6. ASSUME NEW d \in Days, d \in marked'
      PROVE  extracted'[d] + Due(c, d)' <= 1 + lost'
  <2>1. extracted[d] + Due(c, d) <= 1 + lost
    BY <1>1, <1>6 DEF MarkedFirst
  <2>2. Due(c, d) \in Nat
    BY DEF Due
  <2> QED
    BY <2>1, <2>2, <1>2, <1>5 DEF Counts
<1>7. ASSUME NEW d \in Days, d \notin marked'
      PROVE  extracted'[d] <= lost'
  <2>1. d # target[c] /\ extracted[d] <= lost
    BY <1>1, <1>3, <1>7 DEF MarkedFirst
  <2>2. extracted'[d] = extracted[d]
    BY <1>1, <2>1 DEF Counts
  <2> QED
    BY <2>1, <2>2, <1>2, <1>5 DEF Counts
<1> QED
  BY <1>1, <1>4, <1>6, <1>7 DEF MarkedFirst, Days

\* The daily extraction of consolidate.py:82-118 sends a day's digest to the model
\* at most once, whatever crashes and fails, but for reads that lose its marker.
THEOREM DigestMinedOnce ==
  ASSUME NEW c, Chats = {c}
  PROVE  Spec => []ExtractedOnce
<1> DEFINE Inv == Counts /\ MarkedFirst(c)
<1>1. Init => Inv
  <2> SUFFICES ASSUME Init PROVE MarkedFirst(c)
    BY CountsInit
  <2>1. pc[c] = "idle" /\ lost = 0 /\ marked = {} /\ \A d \in Days : extracted[d] = 0
    BY DEF Init
  <2> QED
    BY <2>1 DEF MarkedFirst
<1>2. Inv /\ [Next]_vars => Inv'
  <2> SUFFICES ASSUME Inv, [Next]_vars PROVE Inv'
    OBVIOUS
  <2>1. CASE TurnEnds(c)
    BY <2>1, TurnEndsKeeps
  <2>2. CASE Mark(c)
    BY <2>2, MarkKeeps
  <2>3. CASE \E new \in Extracts : Mine(c, new)
    BY <2>3, MineKeeps
  <2>4. CASE /\ Next /\ ~ TurnEnds(c) /\ ~ Mark(c)
             /\ \A new \in Extracts : ~ Mine(c, new)
    BY <2>4, AsideSteps, AsideKeeps
  <2>5. CASE UNCHANGED vars
    <3>1. Aside(c)
      BY <2>5 DEF vars, kvVars, bounds, localVars, history, Aside, Counts
    <3> QED
      BY <3>1, AsideKeeps
  <2> QED
    BY <2>1, <2>2, <2>3, <2>4, <2>5
<1>3. Inv => ExtractedOnce
  <2> SUFFICES ASSUME Inv, NEW d \in Days PROVE extracted[d] <= 1 + lost
    BY DEF ExtractedOnce
  <2>1. extracted[d] \in Nat /\ lost \in Nat /\ Due(c, d) \in {0, 1}
    BY DEF Counts, Due
  <2> QED
    BY <2>1 DEF MarkedFirst
<1> QED
  BY <1>1, <1>2, <1>3, PTL DEF Spec

-----------------------------------------------------------------------------
(* What consolidation takes out of the document.                           *)

\* What the model answered last is committed over the document that was backed up,
\* and what it retired is on its way to an archive nobody else writes.
Safe(c) ==
    /\ lost \in Nat /\ crashes \in Nat
    /\ lost = 0 /\ pc[c] = "commit" => backup = memory
    /\ lost = 0 /\ crashes = 0 =>
          /\ archived \subseteq archive \cup (IF pc[c] \in {"archive", "shelve"} THEN retired[c] ELSE {})
          /\ pc[c] = "shelve" => shelf[c] = archive

\* Short of its last four steps, consolidation touches none of the documents but
\* MEMORY.md, and neither does any other step.
FarFromDone(c) ==
    /\ UNCHANGED <<backup, archive, archived>>
    /\ lost' \in Nat /\ crashes' \in Nat /\ lost <= lost' /\ crashes <= crashes'
    /\ pc[c] \in {"archive", "shelve"} => crashes' # 0
    /\ pc'[c] \notin {"commit", "archive", "shelve"}

\* Such a step changes the document only by writing it.
Untouched(c) == memory' = memory \/ pc[c] = "write"

\* A document is emptied, or not.
Wiping(c) == WipeMemory(c) \/ WipeBackup(c) \/ WipeArchive(c)

LEMMA FinishedIdle ==
  ASSUME NEW c, Chats = {c}, Counts, Finish(c)
  PROVE  pc'[c] = "idle"
BY DEF Finish, Goto, Counts

\* Every step that is not one of the last four, and empties no document.
LEMMA EarlierSteps ==
  ASSUME NEW c, Chats = {c}, Counts, Safe(c), Next,
         ~ Midnight, ~ Wiping(c),
         ~ Backup(c), ~ Commit(c), ~ ReadArchive(c), ~ Shelve(c)
  PROVE  FarFromDone(c) /\ Untouched(c)
<1> USE DEF FarFromDone, Untouched
<1>1. /\ lost \in Nat /\ crashes \in Nat /\ DOMAIN pc = Chats
  BY DEF Safe, Counts
<1>2. CASE List(c)
  BY <1>1, <1>2 DEF List, Commanded, kvVars, localVars
<1>3. ASSUME NEW n \in DOMAIN memory, Delete(c, n)
      PROVE  FarFromDone(c) /\ Untouched(c)
  BY <1>1, <1>3 DEF Delete, Commanded, ToWrite, Goto, kvVars
<1>4. ASSUME NEW n \in DOMAIN memory, NEW item \in Rewordings, Edit(c, n, item)
      PROVE  FarFromDone(c) /\ Untouched(c)
  BY <1>1, <1>4 DEF Edit, Commanded, ToWrite, Goto, kvVars
<1>5. ASSUME NEW new \in Extracts, CompactionExtracts(c, new)
      PROVE  FarFromDone(c) /\ Untouched(c)
  BY <1>1, <1>5, ReadsLoses DEF CompactionExtracts, ReadAndMerge, ToWrite, Goto, kvVars
<1>6. ASSUME NEW new \in Extracts, Mine(c, new)
      PROVE  FarFromDone(c) /\ Untouched(c)
  BY <1>1, <1>6, ReadsLoses DEF Mine, ReadAndMerge, ToWrite, Goto, kvVars
<1>7. CASE TurnEnds(c)
  <2>1. PICK set \in BOOLEAN : Reads(set, day \in marked, FALSE)
    BY <1>7 DEF TurnEnds
  <2>2. lost' \in Nat /\ lost <= lost'
    BY <1>1, <2>1, ReadsLoses
  <2>3. /\ pc[c] = "idle" /\ UNCHANGED <<memory, backup, archive, archived, crashes>>
        /\ pc' = pc \/ pc' = [pc EXCEPT ![c] = "mark"]
    BY <1>7, Zenon DEF TurnEnds, Goto, kvVars
  <2> QED BY <1>1, <2>2, <2>3
<1>8. CASE Mark(c)
  BY <1>1, <1>8, FinishedIdle DEF Mark, Goto, bounds, history
<1>9. CASE MineNothing(c)
  BY <1>1, <1>9, FinishedIdle DEF MineNothing, Goto, kvVars, bounds, history
<1>10. CASE Write(c)
  <2>1. pc[c] = "write" /\ UNCHANGED <<backup, archive, bounds, history>>
    BY <1>10 DEF Write
  <2>2. pc'[c] \in {"idle", "dream"}
    BY <1>1, <1>10, FinishedIdle DEF Write, Goto, Counts
  <2> QED BY <1>1, <2>1, <2>2 DEF bounds, history
<1>11. CASE MergeFails(c)
  BY <1>1, <1>11 DEF MergeFails, Fails, Goto, kvVars, history
<1>12. CASE Dream(c)
  BY <1>1, <1>12, ReadsLoses, FinishedIdle DEF Dream, Goto, kvVars, history
<1>13. CASE RewriteNothing(c)
  BY <1>1, <1>13, FinishedIdle DEF RewriteNothing, kvVars, bounds, history
<1>14. CASE Crash(c)
  BY <1>1, <1>14, FinishedIdle DEF Crash, kvVars, history
<1>15. ASSUME NEW answer, Rewrite(c, answer)
       PROVE  FarFromDone(c) /\ Untouched(c)
  BY <1>1, <1>15 DEF Rewrite, Goto, kvVars, bounds, history
<1>16. CASE Reset(c)
  BY <1>1, <1>16 DEF Reset, Commanded, Goto, kvVars
<1> QED
  BY <1>2, <1>3, <1>4, <1>5, <1>6, <1>7, <1>8, <1>9, <1>10, <1>11, <1>12, <1>13, <1>14, <1>15,
     <1>16 DEF Next, Wiping

LEMMA EarlierStepsKeepSafe ==
  ASSUME NEW c, Safe(c), FarFromDone(c)
  PROVE  Safe(c)'
<1>1. lost' \in Nat /\ crashes' \in Nat /\ pc'[c] \notin {"commit", "archive", "shelve"}
  BY DEF FarFromDone
<1>2. ASSUME lost' = 0 /\ crashes' = 0 PROVE archived' \subseteq archive'
  <2>1. lost = 0 /\ crashes = 0 /\ crashes' = 0
    <3>1. /\ lost \in Nat /\ crashes \in Nat /\ lost' \in Nat /\ crashes' \in Nat
          /\ lost <= lost' /\ crashes <= crashes'
      BY DEF Safe, FarFromDone
    <3> QED BY <1>2, <3>1
  <2>2. pc[c] \notin {"archive", "shelve"}
    BY <2>1 DEF FarFromDone
  <2> QED BY <2>1, <2>2 DEF Safe, FarFromDone
<1> QED BY <1>1, <1>2 DEF Safe

\* What is read, if the read is not lost, is what is stored.
LEMMA ReadsTrue ==
  ASSUME NEW value, NEW stored, NEW nothing, Reads(value, stored, nothing), lost \in Nat
  PROVE  lost' \in Nat /\ lost <= lost' /\ (lost' = 0 => value = stored)
BY DEF Reads

LEMMA BackupKeepsSafe ==
  ASSUME NEW c, Chats = {c}, Counts, Safe(c), Backup(c)
  PROVE  Safe(c)'
<1>1. PICK doc \in {memory, << >>} : Reads(doc, memory, << >>) /\ backup' = doc
  BY DEF Backup
<1>2. lost' \in Nat /\ lost <= lost' /\ (lost' = 0 => backup' = memory)
  BY <1>1, ReadsTrue DEF Safe
<1>3. /\ pc[c] = "backup" /\ pc'[c] = "commit"
      /\ UNCHANGED <<memory, archive, archived, crashes>>
  BY DEF Backup, Goto, Counts, history
<1>4. lost' = 0 /\ crashes' = 0 => lost = 0 /\ crashes = 0
  <2>1. /\ lost \in Nat /\ crashes \in Nat /\ lost' \in Nat /\ crashes' = crashes
        /\ lost <= lost'
    BY <1>2, <1>3 DEF Safe
  <2> QED BY <2>1
<1>5. lost' = 0 /\ crashes' = 0 => archived' \subseteq archive'
  BY <1>3, <1>4 DEF Safe
<1> QED BY <1>2, <1>3, <1>5 DEF Safe

LEMMA CommitKeepsSafe ==
  ASSUME NEW c, Chats = {c}, Counts, Safe(c), Commit(c)
  PROVE  Safe(c)' /\ (lost = 0 => backup' = memory)
<1>1. /\ pc[c] = "commit" /\ archived' = archived \cup retired[c]
      /\ UNCHANGED <<backup, archive, crashes, lost>>
      /\ \/ retired[c] = {} /\ Finish(c)
         \/ pc' = [pc EXCEPT ![c] = "archive"] /\ retired' = retired
  BY DEF Commit, Goto, bounds, localVars
<1>2. \/ retired[c] = {} /\ pc'[c] = "idle"
      \/ pc'[c] = "archive" /\ retired' = retired
  BY <1>1, FinishedIdle DEF Counts
<1> QED BY <1>1, <1>2 DEF Safe

\* Domains of the tables the archive is written from.
Tables == DOMAIN shelf = Chats /\ DOMAIN retired = Chats

LEMMA ReadArchiveKeepsSafe ==
  ASSUME NEW c, Chats = {c}, Counts, Tables, Safe(c), ReadArchive(c)
  PROVE  Safe(c)'
<1>1. PICK items \in {archive, {}} :
        Reads(items, archive, {}) /\ shelf' = [shelf EXCEPT ![c] = items]
  BY DEF ReadArchive
<1>2. lost' \in Nat /\ lost <= lost' /\ (lost' = 0 => items = archive)
  BY <1>1, ReadsTrue DEF Safe
<1>3. shelf'[c] = items
  BY <1>1 DEF Tables
<1>4. /\ pc[c] = "archive" /\ pc'[c] = "shelve"
      /\ UNCHANGED <<retired, archive, archived, crashes>>
  BY DEF ReadArchive, Goto, Counts, history, kvVars
<1> QED BY <1>2, <1>3, <1>4 DEF Safe

LEMMA ShelveKeepsSafe ==
  ASSUME NEW c, Chats = {c}, Counts, Safe(c), Shelve(c)
  PROVE  Safe(c)'
<1>1. /\ pc[c] = "shelve" /\ archive' = shelf[c] \cup retired[c] /\ Finish(c)
      /\ UNCHANGED <<archived, crashes, lost>>
  BY DEF Shelve, bounds, history
<1>2. pc'[c] = "idle"
  BY <1>1, FinishedIdle
<1> QED BY <1>1, <1>2 DEF Safe

\* What a reset empties is nothing consolidation is about.
LEMMA WipingKeepsSafe ==
  ASSUME NEW c, Chats = {c}, Counts, Safe(c), Wiping(c)
  PROVE  Safe(c)' /\ pc[c] \in {"wipe", "rewipe", "wipebackup", "wipearchive"}
<1>1. lost \in Nat /\ crashes \in Nat /\ DOMAIN pc = Chats
  BY DEF Safe, Counts
<1>2. /\ pc[c] \in {"wipe", "rewipe", "wipebackup", "wipearchive"}
      /\ pc'[c] \in {"rewipe", "wipebackup", "wipearchive", "idle"}
      /\ UNCHANGED lost /\ crashes' \in {crashes, crashes + 1}
      /\ UNCHANGED <<archived, archive>> \/ (archived' = {} /\ archive' = {})
  <2>1. CASE WipeMemory(c)
    BY <1>1, <2>1 DEF WipeMemory, Fails, Goto, history
  <2>2. CASE WipeBackup(c)
    BY <1>1, <2>2 DEF WipeBackup, Fails, Goto, history
  <2>3. CASE WipeArchive(c)
    BY <1>1, <2>3, FinishedIdle DEF WipeArchive, Fails
  <2> QED BY <2>1, <2>2, <2>3 DEF Wiping
<1>3. lost' \in Nat /\ crashes' \in Nat /\ crashes <= crashes'
  BY <1>1, <1>2
<1>4. ASSUME lost' = 0, crashes' = 0 PROVE archived' \subseteq archive'
  <2>1. lost = 0 /\ crashes = 0
    BY <1>1, <1>2, <1>3, <1>4
  <2>2. archived \subseteq archive
    BY <1>2, <2>1 DEF Safe
  <2> QED BY <1>2, <2>2
<1> QED BY <1>2, <1>3, <1>4 DEF Safe

LEMMA MidnightKeepsSafe ==
  ASSUME NEW c, Safe(c), Midnight
  PROVE  Safe(c)' /\ memory' = memory
BY DEF Safe, Midnight, kvVars, history, localVars

LEMMA TablesKept == Tables /\ [Next]_vars => Tables'
<1> SUFFICES ASSUME Tables, [Next]_vars PROVE Tables'
  OBVIOUS
<1> USE DEF Tables
<1>1. ASSUME NEW c \in Chats, Finish(c) PROVE Tables'
  BY <1>1 DEF Finish, Forget
<1>2. CASE UNCHANGED <<shelf, retired>>
  BY <1>2
<1>3. CASE UNCHANGED vars \/ Midnight
  BY <1>2, <1>3 DEF vars, Midnight, localVars
<1>4. ASSUME NEW c \in Chats,
             \/ List(c)
             \/ \E n \in DOMAIN memory : Delete(c, n) \/ \E item \in Rewordings : Edit(c, n, item)
             \/ \E new \in Extracts : CompactionExtracts(c, new) \/ Mine(c, new)
             \/ TurnEnds(c) \/ MergeFails(c) \/ Backup(c)
             \/ Reset(c) \/ WipeMemory(c) \/ WipeBackup(c)
      PROVE  UNCHANGED <<shelf, retired>>
  BY <1>4, Zenon DEF List, Delete, Edit, CompactionExtracts, Mine, TurnEnds, MergeFails, Backup,
     Reset, WipeMemory, WipeBackup, ReadAndMerge, ToWrite, localVars
<1>5. ASSUME NEW c \in Chats,
             \/ WipeArchive(c) \/ Mark(c) \/ MineNothing(c) \/ Write(c) \/ Dream(c) \/ RewriteNothing(c)
             \/ Commit(c) \/ Shelve(c) \/ Crash(c)
      PROVE  Finish(c) \/ UNCHANGED <<shelf, retired>>
  BY <1>5, Zenon DEF WipeArchive, Mark, MineNothing, Write, Dream, RewriteNothing, Commit, Shelve, Crash, localVars
<1>6. ASSUME NEW c \in Chats, \/ \E answer \in Rewrites(entries[c]) : Rewrite(c, answer)
                              \/ ReadArchive(c)
      PROVE  Tables'
  BY <1>6 DEF Rewrite, ReadArchive
<1> QED BY <1>1, <1>2, <1>3, <1>4, <1>5, <1>6, Zenon DEF Next

LEMMA NextSafe ==
  ASSUME NEW c, Chats = {c}, Counts, Tables, Safe(c), [Next]_vars
  PROVE  Safe(c)'
<1>1. CASE UNCHANGED vars
  BY <1>1 DEF vars, kvVars, bounds, localVars, history, Safe
<1>2. CASE Midnight
  BY <1>2, MidnightKeepsSafe
<1>3. CASE Backup(c)
  BY <1>3, BackupKeepsSafe
<1>4. CASE Commit(c)
  BY <1>4, CommitKeepsSafe
<1>5. CASE ReadArchive(c)
  BY <1>5, ReadArchiveKeepsSafe
<1>6. CASE Shelve(c)
  BY <1>6, ShelveKeepsSafe
<1>7. CASE Wiping(c)
  BY <1>7, WipingKeepsSafe
<1>8. CASE /\ Next /\ ~ Midnight /\ ~ Wiping(c)
           /\ ~ Backup(c) /\ ~ Commit(c) /\ ~ ReadArchive(c) /\ ~ Shelve(c)
  BY <1>8, EarlierSteps, EarlierStepsKeepSafe
<1> QED BY <1>1, <1>2, <1>3, <1>4, <1>5, <1>6, <1>7, <1>8

LEMMA InitSafe ==
  ASSUME NEW c, Chats = {c}, Init
  PROVE  Safe(c) /\ Tables
BY DEF Init, Safe, Tables

\* Counts is kept by the steps of the extraction and by all the others.
LEMMA NextCounts ==
  ASSUME NEW c, Chats = {c}, Counts, MarkedFirst(c), [Next]_vars
  PROVE  Counts' /\ MarkedFirst(c)'
<1>1. CASE TurnEnds(c)
  BY <1>1, TurnEndsKeeps
<1>2. CASE Mark(c)
  BY <1>2, MarkKeeps
<1>3. CASE \E new \in Extracts : Mine(c, new)
  BY <1>3, MineKeeps
<1>4. CASE /\ Next /\ ~ TurnEnds(c) /\ ~ Mark(c)
           /\ \A new \in Extracts : ~ Mine(c, new)
  BY <1>4, AsideSteps, AsideKeeps
<1>5. CASE UNCHANGED vars
  <2>1. Aside(c)
    BY <1>5 DEF vars, kvVars, bounds, localVars, history, Aside, Counts
  <2> QED BY <2>1, AsideKeeps
<1> QED BY <1>1, <1>2, <1>3, <1>4, <1>5

LEMMA InitMarked ==
  ASSUME NEW c, Chats = {c}, Init
  PROVE  MarkedFirst(c)
<1>1. pc[c] = "idle" /\ lost = 0 /\ marked = {} /\ \A d \in Days : extracted[d] = 0
  BY DEF Init
<1> QED BY <1>1 DEF MarkedFirst

\* What consolidation takes out of the document as long past is in the archive for
\* good, through all later consolidations, until a reset empties the archive, unless a
\* read was lost, a write failed or a turn died (consolidate.py:160-168,
\* persona.py:54-64).
THEOREM ArchiveIsForGood ==
  ASSUME NEW c, Chats = {c}
  PROVE  Spec => []ArchivedKept
<1> DEFINE Inv == Counts /\ MarkedFirst(c) /\ Tables /\ Safe(c)
<1>1. Init => Inv
  BY CountsInit, InitMarked, InitSafe
<1>2. Inv /\ [Next]_vars => Inv'
  BY NextCounts, NextSafe, TablesKept
<1>3. Inv => ArchivedKept
  BY DEF Safe, ArchivedKept
<1> QED BY <1>1, <1>2, <1>3, PTL DEF Spec

\* Whatever consolidation takes out of the document, reworded, merged, archived or
\* forgotten by the model, is in the backup when the new document is written
\* (consolidate.py:131-133).
THEOREM DroppedTextsBackedUp ==
  ASSUME NEW own, Chats = {own}
  PROVE  Spec => DroppedIsBackedUp
<1> DEFINE Inv == Counts /\ MarkedFirst(own) /\ Tables /\ Safe(own)
<1>1. Init => Inv
  BY CountsInit, InitMarked, InitSafe
<1>2. Inv /\ [Next]_vars => Inv'
  BY NextCounts, NextSafe, TablesKept
<1>3. Inv /\ [Next]_vars =>
        [ (lost = 0 /\ \E c \in Chats : pc[c] \in Consolidating)
            => ToSet(memory) \ ToSet(memory') \subseteq ToSet(backup') ]_vars
  <2> SUFFICES ASSUME Inv, [Next]_vars, lost = 0, pc[own] \in Consolidating, ~ UNCHANGED vars
               PROVE  ToSet(memory) \ ToSet(memory') \subseteq ToSet(backup')
    OBVIOUS
  <2>1. memory' = memory \/ backup' = memory
    <3>1. CASE Midnight
      BY <3>1, MidnightKeepsSafe
    <3>2. CASE Commit(own)
      BY <3>2, CommitKeepsSafe
    <3>3. CASE Backup(own) \/ ReadArchive(own) \/ Shelve(own)
      BY <3>3 DEF Backup, ReadArchive, Shelve, kvVars
    <3>4. CASE /\ Next /\ ~ Midnight
               /\ ~ Backup(own) /\ ~ Commit(own) /\ ~ ReadArchive(own) /\ ~ Shelve(own)
      <4>1. ~ Wiping(own)
        BY WipingKeepsSafe DEF Consolidating
      <4>2. Untouched(own)
        BY <3>4, <4>1, EarlierSteps
      <4> QED BY <4>2 DEF Untouched, Consolidating
    <3> QED BY <3>1, <3>2, <3>3, <3>4
  <2> QED BY <2>1
<1> QED
  <2>1. Spec => [][ (lost = 0 /\ \E c \in Chats : pc[c] \in Consolidating)
                      => ToSet(memory) \ ToSet(memory') \subseteq ToSet(backup') ]_vars
    BY <1>1, <1>2, <1>3, PTL DEF Spec
  <2>2. Spec => DroppedIsBackedUp
    BY <2>1 DEF DroppedIsBackedUp
  <2> QED BY <2>2

-----------------------------------------------------------------------------
(* Documents: what stands where.                                           *)

\* An interval from one on.
LEMMA Interval == ASSUME NEW n \in Nat PROVE IsFiniteSet(1 .. n) /\ Cardinality(1 .. n) = n
<1>1. CASE n = 0
  <2>1. 1 .. n = {}
    BY <1>1
  <2> QED BY <1>1, <2>1, FS_EmptySet
<1>2. CASE n # 0
  BY <1>2, FS_Interval
<1> QED BY <1>1, <1>2

\* Places of a sequence are finitely many, no more than it is long.
LEMMA PlacesFinite ==
  ASSUME NEW n \in Nat, NEW T \in SUBSET (1 .. n)
  PROVE  IsFiniteSet(T) /\ Cardinality(T) \in Nat /\ Cardinality(T) <= n
<1>1. IsFiniteSet(1 .. n) /\ Cardinality(1 .. n) = n
  BY Interval
<1>2. IsFiniteSet(T) /\ Cardinality(T) <= Cardinality(1 .. n)
  BY <1>1, FS_Subset
<1> QED BY <1>1, <1>2, FS_CardinalityType

\* Some places have a first one.
LEMMA FirstPlace ==
  ASSUME NEW T \in SUBSET Nat, T # {}
  PROVE  \E i \in T : \A j \in T : i <= j
<1>1. \E i \in T : \A j \in T : <<j, i>> \notin OpToRel(<, Nat)
  BY WFMin, NatLessThanWellFounded, Zenon
<1>2. PICK i \in T : \A j \in T : ~ (j < i)
  BY <1>1, Zenon DEF OpToRel
<1>3. \A j \in T : i <= j
  BY <1>2
<1> QED BY <1>3

\* Places of a sequence have a last one.
LEMMA LastPlace ==
  ASSUME NEW n \in Nat, NEW T \in SUBSET (1 .. n), T # {}
  PROVE  \E i \in T : \A j \in T : j <= i
<1> DEFINE Ages == {n - i : i \in T}
<1>1. Ages \in SUBSET Nat /\ Ages # {}
  <2>1. \A i \in T : n - i \in Nat
    OBVIOUS
  <2>2. PICK i \in T : TRUE
    OBVIOUS
  <2>3. n - i \in Ages
    BY <2>2
  <2> QED BY <2>1, <2>3
<1> HIDE DEF Ages
<1>2. PICK a \in Ages : \A b \in Ages : a <= b
  BY <1>1, FirstPlace
<1> USE DEF Ages
<1>3. PICK i \in T : a = n - i
  OBVIOUS
<1>4. ASSUME NEW j \in T PROVE j <= i
  <2>1. n - j \in Ages
    OBVIOUS
  <2>2. n - i <= n - j
    BY <1>2, <1>3, <2>1
  <2>3. i \in Nat /\ j \in Nat
    OBVIOUS
  <2> HIDE DEF Ages
  <2> QED BY <2>2, <2>3
<1> QED BY <1>4

\* The elements at some places by rank, when for any two places one comes before the other.
LEMMA RankedIs ==
  ASSUME NEW s, NEW T, IsFiniteSet(T), NEW u \in [T -> SUBSET T],
         \A i \in T : i \in u[i],
         \A i, k \in T : i # k => \/ u[i] \subseteq u[k] /\ k \notin u[i]
                                  \/ u[k] \subseteq u[i] /\ i \notin u[k]
  PROVE  /\ Cardinality(T) \in Nat
         /\ DOMAIN Ranked(s, u) = 1 .. Cardinality(T)
         /\ Ranked(s, u) = [n \in 1 .. Cardinality(T) |-> Ranked(s, u)[n]]
         /\ \A i \in T : /\ Cardinality(u[i]) \in 1 .. Cardinality(T)
                         /\ Ranked(s, u)[Cardinality(u[i])] = s[i]
         /\ \A n \in 1 .. Cardinality(T) :
               \E i \in T : Cardinality(u[i]) = n /\ Ranked(s, u)[n] = s[i]
         /\ \A i, k \in T : k \notin u[i] => Cardinality(u[i]) < Cardinality(u[k])
<1> DEFINE count == Cardinality(T)
           rank == [i \in T |-> Cardinality(u[i])]
           there(n) == CHOOSE i \in T : Cardinality(u[i]) = n
<1>1. count \in Nat
  BY FS_CardinalityType
<1>2. ASSUME NEW i \in T PROVE Cardinality(u[i]) \in 1 .. count /\ IsFiniteSet(u[i])
  <2>1. u[i] \in SUBSET T /\ i \in u[i]
    OBVIOUS
  <2>2. IsFiniteSet(u[i]) /\ Cardinality(u[i]) <= count
    BY <2>1, FS_Subset
  <2>3. Cardinality(u[i]) \in Nat /\ Cardinality(u[i]) # 0
    BY <2>1, <2>2, FS_CardinalityType, FS_EmptySet
  <2> QED BY <1>1, <2>2, <2>3
<1>3. ASSUME NEW i \in T, NEW k \in T, k \notin u[i]
      PROVE  Cardinality(u[i]) < Cardinality(u[k])
  <2>1. k \in u[k] /\ i # k
    BY <1>3
  <2>2. u[i] \in SUBSET u[k] /\ u[i] # u[k]
    BY <1>3, <2>1
  <2>3. Cardinality(u[i]) <= Cardinality(u[k]) /\ Cardinality(u[i]) # Cardinality(u[k])
    BY <1>2, <2>2, FS_Subset
  <2> QED BY <1>2, <2>3
<1>4. ASSUME NEW i \in T, NEW k \in T, Cardinality(u[i]) = Cardinality(u[k]) PROVE i = k
  <2>1. ~ Cardinality(u[i]) < Cardinality(u[k]) /\ ~ Cardinality(u[k]) < Cardinality(u[i])
    BY <1>2, <1>4
  <2> QED BY <1>3, <2>1
<1>5. rank \in Injection(T, 1 .. count)
  BY <1>2, <1>4 DEF Injection, IsInjective
<1>6. IsFiniteSet(1 .. count) /\ Cardinality(1 .. count) = count
  BY <1>1, Interval
<1>7. rank \in Surjection(T, 1 .. count)
  BY <1>5, <1>6, FS_Injection
<1>8. \A n \in 1 .. count : \E i \in T : Cardinality(u[i]) = n
  BY <1>7 DEF Surjection
<1>9. \A n \in 1 .. count : there(n) \in T /\ Cardinality(u[there(n)]) = n
  BY <1>8
<1>10. \A i \in T : there(Cardinality(u[i])) = i
  BY <1>2, <1>4, <1>9
<1>11. Ranked(s, u) = [n \in 1 .. count |-> s[there(n)]]
  BY DEF Ranked
<1> HIDE DEF there, count
<1>12. DOMAIN Ranked(s, u) = 1 .. count /\ Ranked(s, u) = [n \in 1 .. count |-> Ranked(s, u)[n]]
  BY <1>11
<1>13. \A n \in 1 .. count : Ranked(s, u)[n] = s[there(n)]
  BY <1>11
<1>14. ASSUME NEW i \in T
       PROVE  Cardinality(u[i]) \in 1 .. count /\ Ranked(s, u)[Cardinality(u[i])] = s[i]
  BY <1>2, <1>10, <1>13
<1>15. ASSUME NEW n \in 1 .. count
       PROVE  \E i \in T : Cardinality(u[i]) = n /\ Ranked(s, u)[n] = s[i]
  BY <1>9, <1>13
<1> QED BY <1>1, <1>3, <1>12, <1>14, <1>15 DEF count

\* What is picked of a sequence.
LEMMA PickedIs ==
  ASSUME NEW S, NEW s \in Seq(S), NEW T \in SUBSET DOMAIN s
  PROVE  /\ Picked(s, T) \in Seq(S)
         /\ Len(Picked(s, T)) = Cardinality(T) /\ Cardinality(T) <= Len(s)
         /\ T # {} => Picked(s, T) # << >>
<1> DEFINE u == [i \in T |-> {j \in T : j <= i}]
<1>1. Len(s) \in Nat /\ DOMAIN s = 1 .. Len(s) /\ \A i \in T : i \in Nat
  OBVIOUS
<1>2. IsFiniteSet(T) /\ Cardinality(T) \in Nat /\ Cardinality(T) <= Len(s)
  BY <1>1, PlacesFinite
<1>3. u \in [T -> SUBSET T] /\ \A i \in T : i \in u[i]
  BY <1>1
<1>4. ASSUME NEW i \in T, NEW k \in T, i # k
      PROVE  \/ u[i] \subseteq u[k] /\ k \notin u[i]
             \/ u[k] \subseteq u[i] /\ i \notin u[k]
  <2>1. CASE i < k
    <3>1. \A j \in T : j <= i => j <= k
      BY <1>1, <2>1
    <3> QED BY <1>1, <2>1, <3>1
  <2>2. CASE k < i
    <3>1. \A j \in T : j <= k => j <= i
      BY <1>1, <2>2
    <3> QED BY <1>1, <2>2, <3>1
  <2> QED BY <1>1, <1>4, <2>1, <2>2
<1>5. Picked(s, T) = Ranked(s, u)
  BY DEF Picked
<1> HIDE DEF u
<1>6. /\ Ranked(s, u) = [n \in 1 .. Cardinality(T) |-> Ranked(s, u)[n]]
      /\ \A n \in 1 .. Cardinality(T) : \E i \in T : Ranked(s, u)[n] = s[i]
  BY <1>2, <1>3, <1>4, RankedIs
<1> DEFINE r == Ranked(s, u)
<1>7. \A n \in 1 .. Cardinality(T) : r[n] \in S
  BY <1>6
<1> HIDE DEF r
<1>8. r \in Seq(S) /\ Len(r) = Cardinality(T)
  <2>1. r = [n \in 1 .. Cardinality(T) |-> r[n]]
    BY <1>6 DEF r
  <2> QED BY <1>2, <1>7, <2>1
<1>9. T # {} => Cardinality(T) # 0
  BY <1>2, FS_EmptySet
<1> QED BY <1>2, <1>5, <1>8, <1>9 DEF r

\* Where a section begins.
LEMMA BeginIs ==
  ASSUME NEW doc \in Seq(Entry), NEW i \in DOMAIN doc
  PROVE  /\ Begin(doc, i) \in DOMAIN doc /\ doc[Begin(doc, i)].sec = doc[i].sec
         /\ Begin(doc, i) \in Nat /\ Begin(doc, i) <= i
         /\ \A k \in DOMAIN doc : doc[k].sec = doc[i].sec => Begin(doc, i) <= k
<1> DEFINE T == {j \in DOMAIN doc : doc[j].sec = doc[i].sec}
<1>1. DOMAIN doc = 1 .. Len(doc) /\ Len(doc) \in Nat
  OBVIOUS
<1>2. T \in SUBSET Nat /\ i \in T
  BY <1>1
<1>3. \E j \in T : \A k \in T : j <= k
  BY <1>2, FirstPlace
<1>4. /\ Begin(doc, i) \in DOMAIN doc /\ doc[Begin(doc, i)].sec = doc[i].sec
      /\ \A k \in DOMAIN doc : doc[k].sec = doc[i].sec => Begin(doc, i) <= k
  BY <1>3 DEF Begin
<1> QED BY <1>1, <1>4

\* Two entries of a section have one beginning, two of different sections have two.
LEMMA OneBegin ==
  ASSUME NEW doc \in Seq(Entry), NEW i \in DOMAIN doc, NEW k \in DOMAIN doc
  PROVE  Begin(doc, i) = Begin(doc, k) <=> doc[i].sec = doc[k].sec
<1>1. /\ Begin(doc, i) \in Nat /\ Begin(doc, k) \in Nat
      /\ Begin(doc, i) \in DOMAIN doc /\ Begin(doc, k) \in DOMAIN doc
      /\ doc[Begin(doc, i)].sec = doc[i].sec /\ doc[Begin(doc, k)].sec = doc[k].sec
      /\ \A j \in DOMAIN doc : doc[j].sec = doc[i].sec => Begin(doc, i) <= j
      /\ \A j \in DOMAIN doc : doc[j].sec = doc[k].sec => Begin(doc, k) <= j
  BY BeginIs
<1>2. ASSUME doc[i].sec = doc[k].sec PROVE Begin(doc, i) = Begin(doc, k)
  <2>1. Begin(doc, i) <= Begin(doc, k) /\ Begin(doc, k) <= Begin(doc, i)
    BY <1>1, <1>2
  <2> QED BY <1>1, <2>1
<1> QED BY <1>1, <1>2

\* The order of a document is total.
LEMMA NoLaterOrders ==
  ASSUME NEW doc \in Seq(Entry)
  PROVE  /\ \A i \in DOMAIN doc : NoLater(doc, i, i)
         /\ \A i, k \in DOMAIN doc : NoLater(doc, i, k) \/ NoLater(doc, k, i)
         /\ \A i, k \in DOMAIN doc : NoLater(doc, i, k) /\ NoLater(doc, k, i) => i = k
         /\ \A i, j, k \in DOMAIN doc :
               NoLater(doc, i, j) /\ NoLater(doc, j, k) => NoLater(doc, i, k)
<1> DEFINE b(i) == Begin(doc, i)
<1>1. DOMAIN doc \in SUBSET Nat
  OBVIOUS
<1>2. \A i \in DOMAIN doc : b(i) \in Nat
  BY BeginIs
<1>3. \A i, k \in DOMAIN doc : b(i) = b(k) <=> doc[i].sec = doc[k].sec
  BY OneBegin
<1>4. \A i, k \in DOMAIN doc : NoLater(doc, i, k) <=> b(i) < b(k) \/ (b(i) = b(k) /\ i <= k)
  BY <1>3 DEF NoLater
<1> HIDE DEF b
<1>5. \A i, k \in DOMAIN doc : NoLater(doc, i, k) \/ NoLater(doc, k, i)
  BY <1>1, <1>2, <1>4
<1>6. \A i, k \in DOMAIN doc : NoLater(doc, i, k) /\ NoLater(doc, k, i) => i = k
  BY <1>1, <1>2, <1>4
<1>7. ASSUME NEW i \in DOMAIN doc, NEW j \in DOMAIN doc, NEW k \in DOMAIN doc,
             NoLater(doc, i, j), NoLater(doc, j, k)
      PROVE  NoLater(doc, i, k)
  <2>1. i \in Nat /\ j \in Nat /\ k \in Nat /\ b(i) \in Nat /\ b(j) \in Nat /\ b(k) \in Nat
    BY <1>1, <1>2
  <2>2. b(i) < b(j) \/ (b(i) = b(j) /\ i <= j)
    BY <1>4, <1>7
  <2>3. b(j) < b(k) \/ (b(j) = b(k) /\ j <= k)
    BY <1>4, <1>7
  <2>4. b(i) < b(k) \/ (b(i) = b(k) /\ i <= k)
    BY <2>1, <2>2, <2>3
  <2> QED BY <1>4, <2>4
<1> QED BY <1>5, <1>6, <1>7

\* The place in the written document of what is written.
Spot(doc, T, i) == Cardinality({j \in T : NoLater(doc, j, i)})

LEMMA WrittenIs ==
  ASSUME NEW doc \in Seq(Entry), NEW T \in SUBSET DOMAIN doc
  PROVE  /\ Written(doc, T) \in Seq(Entry)
         /\ Len(Written(doc, T)) = Cardinality(T) /\ Cardinality(T) \in Nat
         /\ Cardinality(T) <= Len(doc) /\ IsFiniteSet(T)
         /\ DOMAIN Written(doc, T) = 1 .. Cardinality(T)
         /\ \A i \in T : Spot(doc, T, i) \in 1 .. Cardinality(T)
                         /\ Written(doc, T)[Spot(doc, T, i)] = doc[i]
         /\ \A n \in 1 .. Cardinality(T) :
               \E i \in T : Spot(doc, T, i) = n /\ Written(doc, T)[n] = doc[i]
         /\ \A i, k \in T : ~ NoLater(doc, k, i) => Spot(doc, T, i) < Spot(doc, T, k)
<1> DEFINE u == [i \in T |-> {j \in T : NoLater(doc, j, i)}]
<1>1. Len(doc) \in Nat /\ DOMAIN doc = 1 .. Len(doc)
  OBVIOUS
<1>2. IsFiniteSet(T) /\ Cardinality(T) \in Nat /\ Cardinality(T) <= Len(doc)
  BY <1>1, PlacesFinite
<1>3. u \in [T -> SUBSET T] /\ \A i \in T : i \in u[i]
  BY NoLaterOrders
<1>4. ASSUME NEW i \in T, NEW k \in T, i # k
      PROVE  \/ u[i] \subseteq u[k] /\ k \notin u[i]
             \/ u[k] \subseteq u[i] /\ i \notin u[k]
  <2>1. i \in DOMAIN doc /\ k \in DOMAIN doc /\ \A j \in T : j \in DOMAIN doc
    OBVIOUS
  <2>2. CASE NoLater(doc, i, k)
    <3>1. ~ NoLater(doc, k, i)
      BY <1>4, <2>1, <2>2, NoLaterOrders
    <3>2. \A j \in T : NoLater(doc, j, i) => NoLater(doc, j, k)
      BY <2>1, <2>2, NoLaterOrders
    <3> QED BY <3>1, <3>2
  <2>3. CASE NoLater(doc, k, i)
    <3>1. ~ NoLater(doc, i, k)
      BY <1>4, <2>1, <2>3, NoLaterOrders
    <3>2. \A j \in T : NoLater(doc, j, k) => NoLater(doc, j, i)
      BY <2>1, <2>3, NoLaterOrders
    <3> QED BY <3>1, <3>2
  <2> QED BY <2>1, <2>2, <2>3, NoLaterOrders
<1>5. Written(doc, T) = Ranked(doc, u)
  BY DEF Written
<1>6. \A i \in T : Spot(doc, T, i) = Cardinality(u[i])
  BY DEF Spot
<1>7. \A i, k \in T : ~ NoLater(doc, k, i) => k \notin u[i]
  OBVIOUS
<1> DEFINE count == Cardinality(T)
           w == Ranked(doc, u)
<1> HIDE DEF u
<1>8. /\ DOMAIN w = 1 .. count /\ w = [n \in 1 .. count |-> w[n]]
      /\ \A i \in T : Cardinality(u[i]) \in 1 .. count /\ w[Cardinality(u[i])] = doc[i]
      /\ \A n \in 1 .. count : \E i \in T : Cardinality(u[i]) = n /\ w[n] = doc[i]
      /\ \A i, k \in T : k \notin u[i] => Cardinality(u[i]) < Cardinality(u[k])
  <2>1. DOMAIN w = 1 .. count /\ w = [n \in 1 .. count |-> w[n]]
    BY <1>2, <1>3, <1>4, RankedIs
  <2>2. ASSUME NEW i \in T
        PROVE  Cardinality(u[i]) \in 1 .. count /\ w[Cardinality(u[i])] = doc[i]
    <3>1. Cardinality(u[i]) \in 1 .. count
      BY <1>2, <1>3, <1>4, RankedIs
    <3>2. w[Cardinality(u[i])] = doc[i]
      BY <1>2, <1>3, <1>4, RankedIs
    <3> QED BY <3>1, <3>2
  <2>3. \A n \in 1 .. count : \E i \in T : Cardinality(u[i]) = n /\ w[n] = doc[i]
    BY <1>2, <1>3, <1>4, RankedIs
  <2>4. \A i, k \in T : k \notin u[i] => Cardinality(u[i]) < Cardinality(u[k])
    BY <1>2, <1>3, <1>4, RankedIs
  <2> QED BY <2>1, <2>2, <2>3, <2>4
<1> HIDE DEF w
<1>9. \A n \in 1 .. count : w[n] \in Entry
  BY <1>8
<1>10. w \in Seq(Entry) /\ Len(w) = count
  BY <1>2, <1>8, <1>9
<1>11. w = Written(doc, T)
  BY <1>5 DEF w
<1> HIDE DEF count
<1>12. \A i \in T : Spot(doc, T, i) \in 1 .. count /\ w[Spot(doc, T, i)] = doc[i]
  BY <1>6, <1>8
<1>13. \A n \in 1 .. count : \E i \in T : Spot(doc, T, i) = n /\ w[n] = doc[i]
  BY <1>6, <1>8
<1>14. \A i, k \in T : ~ NoLater(doc, k, i) => Spot(doc, T, i) < Spot(doc, T, k)
  BY <1>6, <1>7, <1>8
<1> QED BY <1>2, <1>8, <1>10, <1>11, <1>12, <1>13, <1>14 DEF count

-----------------------------------------------------------------------------
(* What the operations make of a document.                                 *)

\* The entries of a section stand together.
Together(doc) ==
  \A i, j, k \in DOMAIN doc :
      i < j /\ j < k /\ doc[i].sec = doc[k].sec => doc[j].sec = doc[i].sec

LEMMA WrittenTogether ==
  ASSUME NEW doc \in Seq(Entry), NEW T \in SUBSET DOMAIN doc
  PROVE  Together(Written(doc, T))
<1> DEFINE w == Written(doc, T)
           spot(i) == Spot(doc, T, i)
<1>1. /\ DOMAIN w = 1 .. Cardinality(T) /\ Cardinality(T) \in Nat
      /\ \A i \in T : spot(i) \in 1 .. Cardinality(T)
      /\ \A n \in 1 .. Cardinality(T) : \E i \in T : spot(i) = n /\ w[n] = doc[i]
      /\ \A i, k \in T : ~ NoLater(doc, k, i) => spot(i) < spot(k)
  BY WrittenIs
<1> HIDE DEF w, spot
<1>2. ASSUME NEW i \in T, NEW k \in T, spot(i) < spot(k)
      PROVE  NoLater(doc, i, k) /\ Begin(doc, i) <= Begin(doc, k)
  <2>1. NoLater(doc, i, k)
    <3>1. spot(i) \in Nat /\ spot(k) \in Nat
      BY <1>1
    <3>2. ~ spot(k) < spot(i)
      BY <1>2, <3>1
    <3> QED BY <1>1, <3>2
  <2>2. Begin(doc, i) \in Nat /\ Begin(doc, k) \in Nat
    BY BeginIs
  <2>3. doc[i].sec = doc[k].sec => Begin(doc, i) = Begin(doc, k)
    BY OneBegin
  <2> QED BY <2>1, <2>2, <2>3 DEF NoLater
<1>3. SUFFICES ASSUME NEW l \in DOMAIN w, NEW m \in DOMAIN w, NEW n \in DOMAIN w,
                      l < m, m < n, w[l].sec = w[n].sec
               PROVE  w[m].sec = w[l].sec
  BY DEF Together, w
<1>4. PICK i \in T : spot(i) = l /\ w[l] = doc[i]
  BY <1>1
<1>5. PICK j \in T : spot(j) = m /\ w[m] = doc[j]
  BY <1>1
<1>6. PICK k \in T : spot(k) = n /\ w[n] = doc[k]
  BY <1>1
<1>7. Begin(doc, i) <= Begin(doc, j) /\ Begin(doc, j) <= Begin(doc, k)
  BY <1>2, <1>3, <1>4, <1>5, <1>6
<1>8. Begin(doc, i) = Begin(doc, k)
  BY <1>3, <1>4, <1>6, OneBegin
<1>9. Begin(doc, i) \in Nat /\ Begin(doc, j) \in Nat /\ Begin(doc, k) \in Nat
  BY BeginIs
<1>10. Begin(doc, i) = Begin(doc, j)
  BY <1>7, <1>8, <1>9
<1> QED BY <1>4, <1>5, <1>10, OneBegin

\* The places of a section.
Section(doc, sec) == {i \in DOMAIN doc : doc[i].sec = sec}

\* What a merge keeps: what there is room for of the first occurrences.
Ahead(all, i) == {j \in Firsts(all) : all[j].sec = all[i].sec /\ j <= i}
Merged(all) == {i \in Firsts(all) : Cardinality(Ahead(all, i)) <= MaxItems}

LEMMA MergeIs ==
  ASSUME NEW doc \in Seq(Entry), NEW new \in Seq(Entry)
  PROVE  /\ Merge(doc, new) = Written(doc \o new, Merged(doc \o new))
         /\ doc \o new \in Seq(Entry)
         /\ Merged(doc \o new) \in SUBSET DOMAIN (doc \o new)
         /\ Merge(doc, new) \in Seq(Entry) /\ Together(Merge(doc, new))
<1> DEFINE all == doc \o new
<1>1. all \in Seq(Entry)
  OBVIOUS
<1>2. Merge(doc, new) = Written(all, Merged(all))
  BY DEF Merge, Merged, Ahead
<1> HIDE DEF all
<1>3. Merged(all) \in SUBSET DOMAIN all
  BY DEF Merged, Firsts
<1>4. Written(all, Merged(all)) \in Seq(Entry) /\ Together(Written(all, Merged(all)))
  BY <1>1, <1>3, WrittenIs, WrittenTogether
<1> QED BY <1>1, <1>2, <1>3, <1>4, Zenon DEF all

\* No section outgrows its bound.
LEMMA MergeBounded ==
  ASSUME NEW doc \in Seq(Entry), NEW new \in Seq(Entry), NEW sec
  PROVE  Cardinality(Section(Merge(doc, new), sec)) <= MaxItems
<1> DEFINE all == doc \o new
           T == Merged(all)
           P == {i \in T : all[i].sec = sec}
           w == Written(all, T)
           N == Section(w, sec)
           f == [i \in P |-> Spot(all, T, i)]
<1>1. all \in Seq(Entry) /\ T \in SUBSET DOMAIN all /\ Merge(doc, new) = w
  BY MergeIs
<1> HIDE DEF all
<1>2. DOMAIN all = 1 .. Len(all) /\ Len(all) \in Nat /\ P \in SUBSET (1 .. Len(all))
  BY <1>1
<1>3. IsFiniteSet(P) /\ Cardinality(P) \in Nat
  BY <1>2, PlacesFinite
<1>4. Cardinality(P) <= MaxItems
  <2>1. CASE P = {}
    <3>1. Cardinality(P) = 0
      BY <2>1, FS_EmptySet
    <3> HIDE DEF P
    <3> QED BY <3>1, MemoryConstants
  <2>2. CASE P # {}
    <3>1. PICK i \in P : \A j \in P : j <= i
      BY <1>2, <2>2, LastPlace
    <3>2. P \in SUBSET Ahead(all, i)
      BY <3>1 DEF Ahead, Merged
    <3>3. Ahead(all, i) \in SUBSET (1 .. Len(all))
      BY <1>2 DEF Ahead, Firsts
    <3>4. /\ IsFiniteSet(Ahead(all, i)) /\ Cardinality(Ahead(all, i)) \in Nat
      BY <1>2, <3>3, PlacesFinite
    <3>5. Cardinality(P) <= Cardinality(Ahead(all, i))
      BY <3>2, <3>4, FS_Subset
    <3>6. Cardinality(Ahead(all, i)) <= MaxItems
      BY DEF Merged
    <3> HIDE DEF P
    <3> QED BY <1>3, <3>4, <3>5, <3>6, MemoryConstants
  <2> QED BY <2>1, <2>2
<1>5. /\ DOMAIN w = 1 .. Cardinality(T)
      /\ \A i \in T : Spot(all, T, i) \in 1 .. Cardinality(T) /\ w[Spot(all, T, i)] = all[i]
      /\ \A n \in 1 .. Cardinality(T) : \E i \in T : Spot(all, T, i) = n /\ w[n] = all[i]
  BY <1>1, WrittenIs
<1> HIDE DEF T, w
<1>6. f \in Surjection(P, N)
  <2>1. \A i \in P : Spot(all, T, i) \in N
    BY <1>5 DEF Section
  <2>2. \A n \in N : \E i \in P : Spot(all, T, i) = n
    BY <1>5 DEF Section
  <2> HIDE DEF P, N
  <2> QED BY <2>1, <2>2 DEF Surjection
<1> HIDE DEF f, P, N
<1>7. IsFiniteSet(N) /\ Cardinality(N) <= Cardinality(P)
  BY <1>3, <1>6, FS_Surjection
<1>8. Cardinality(N) \in Nat
  BY <1>7, FS_CardinalityType
<1>9. Cardinality(N) <= MaxItems
  BY <1>3, <1>4, <1>7, <1>8, MemoryConstants
<1> QED BY <1>1, <1>9 DEF N

\* An entry that occurs once is in one place.
LEMMA OnceIs ==
  ASSUME NEW doc \in Seq(Entry), NEW e, Occurrences(doc, e) = 1
  PROVE  /\ Place(doc, e) \in DOMAIN doc /\ doc[Place(doc, e)] = e
         /\ \A i \in DOMAIN doc : doc[i] = e => i = Place(doc, e)
<1> DEFINE T == {i \in DOMAIN doc : doc[i] = e}
<1>1. DOMAIN doc = 1 .. Len(doc) /\ Len(doc) \in Nat /\ T \in SUBSET (1 .. Len(doc))
  OBVIOUS
<1>2. IsFiniteSet(T) /\ Cardinality(T) = 1
  BY <1>1, PlacesFinite DEF Occurrences
<1>3. PICK i : T = {i}
  BY <1>2, FS_Singleton
<1>4. Place(doc, e) \in T
  BY <1>3 DEF Place
<1> QED BY <1>3, <1>4

\* The order of the entries of `doc' that occur once is theirs in `other', too.
SameOrder(doc, other) ==
  \A e, f \in ToSet(doc) :
      /\ Occurrences(doc, e) = 1 /\ Occurrences(other, e) = 1
      /\ Occurrences(doc, f) = 1 /\ Occurrences(other, f) = 1
      /\ Place(doc, e) < Place(doc, f)
      => Place(other, e) < Place(other, f)

\* It is, when their places are.
LEMMA OrderBySpots ==
  ASSUME NEW doc \in Seq(Entry), NEW other \in Seq(Entry),
         \A i, k \in DOMAIN doc : \A a, b \in DOMAIN other :
            /\ i < k /\ other[a] = doc[i] /\ other[b] = doc[k]
            /\ Occurrences(doc, doc[i]) = 1 /\ Occurrences(other, doc[i]) = 1
            /\ Occurrences(doc, doc[k]) = 1 /\ Occurrences(other, doc[k]) = 1
            => a < b
  PROVE  SameOrder(doc, other)
<1> SUFFICES ASSUME NEW e, NEW f,
                    Occurrences(doc, e) = 1, Occurrences(other, e) = 1,
                    Occurrences(doc, f) = 1, Occurrences(other, f) = 1,
                    Place(doc, e) < Place(doc, f)
             PROVE  Place(other, e) < Place(other, f)
  BY DEF SameOrder
<1>1. /\ Place(doc, e) \in DOMAIN doc /\ doc[Place(doc, e)] = e
      /\ Place(doc, f) \in DOMAIN doc /\ doc[Place(doc, f)] = f
  BY OnceIs
<1>2. /\ Place(other, e) \in DOMAIN other /\ other[Place(other, e)] = e
      /\ Place(other, f) \in DOMAIN other /\ other[Place(other, f)] = f
  BY OnceIs
<1> QED BY <1>1, <1>2

\* New entries go behind the old ones of their section, which stay as they are.
LEMMA MergeKeepsOrder ==
  ASSUME NEW doc \in Seq(Entry), Together(doc), NEW new \in Seq(Entry)
  PROVE  SameOrder(doc, Merge(doc, new))
<1> DEFINE all == doc \o new
           T == Merged(all)
           w == Written(all, T)
<1>1. all \in Seq(Entry) /\ T \in SUBSET DOMAIN all /\ Merge(doc, new) = w /\ w \in Seq(Entry)
  BY MergeIs
<1>2. /\ DOMAIN doc = 1 .. Len(doc) /\ Len(doc) \in Nat
      /\ DOMAIN all = 1 .. Len(all) /\ Len(all) \in Nat /\ Len(doc) <= Len(all)
      /\ \A i \in DOMAIN doc : all[i] = doc[i]
  OBVIOUS
<1> HIDE DEF all
<1>3. /\ DOMAIN w = 1 .. Cardinality(T)
      /\ \A i \in T : Spot(all, T, i) \in 1 .. Cardinality(T)
      /\ \A n \in 1 .. Cardinality(T) : \E i \in T : Spot(all, T, i) = n /\ w[n] = all[i]
      /\ \A i, k \in T : ~ NoLater(all, k, i) => Spot(all, T, i) < Spot(all, T, k)
  BY <1>1, WrittenIs
<1>4. T \subseteq Firsts(all)
  BY DEF Merged
<1> HIDE DEF T, w
<1>5. ASSUME NEW i \in DOMAIN doc, NEW a \in DOMAIN w, w[a] = doc[i], Occurrences(doc, doc[i]) = 1
      PROVE  i \in T /\ Spot(all, T, i) = a
  <2>1. PICK p \in T : Spot(all, T, p) = a /\ all[p] = doc[i]
    BY <1>3, <1>5
  <2>2. p \in DOMAIN all /\ \A j \in 1 .. p - 1 : all[j] # all[p]
    BY <1>4 DEF Firsts
  <2>3. ~ i < p
    BY <1>2, <2>1, <2>2
  <2>4. p \in DOMAIN doc /\ doc[p] = doc[i]
    BY <1>2, <2>1, <2>2, <2>3
  <2>5. p = i
    BY <1>5, <2>4, OnceIs
  <2> QED BY <2>1, <2>5
<1>6. ASSUME NEW i \in DOMAIN doc, NEW k \in DOMAIN doc, i < k
      PROVE  ~ NoLater(all, k, i)
  <2>1. /\ i \in DOMAIN all /\ k \in DOMAIN all /\ ~ k <= i
        /\ all[i] = doc[i] /\ all[k] = doc[k]
    BY <1>2, <1>6
  <2>2. SUFFICES ASSUME Begin(all, k) < Begin(all, i) PROVE FALSE
    BY <2>1 DEF NoLater
  <2> DEFINE b == Begin(all, k)
  <2>3. /\ b \in DOMAIN all /\ all[b].sec = doc[k].sec /\ b \in Nat
        /\ Begin(all, i) \in Nat /\ Begin(all, i) <= i
    BY <1>1, <2>1, BeginIs
  <2>4. Begin(all, i) = b <=> doc[i].sec = doc[k].sec
    BY <1>1, <2>1, OneBegin
  <2> HIDE DEF b
  <2>5. b < Begin(all, i)
    BY <2>2 DEF b
  <2>6. b < i /\ b \in DOMAIN doc /\ all[b] = doc[b]
    BY <1>2, <2>3, <2>5
  <2>7. doc[i].sec = doc[b].sec
    BY <1>6, <2>3, <2>6 DEF Together
  <2> QED BY <2>3, <2>4, <2>5, <2>6, <2>7
<1>7. \A i, k \in DOMAIN doc : \A a, b \in DOMAIN w :
         /\ i < k /\ w[a] = doc[i] /\ w[b] = doc[k]
         /\ Occurrences(doc, doc[i]) = 1 /\ Occurrences(w, doc[i]) = 1
         /\ Occurrences(doc, doc[k]) = 1 /\ Occurrences(w, doc[k]) = 1
         => a < b
  BY <1>3, <1>5, <1>6
<1> QED BY <1>1, <1>7, OrderBySpots

\* The number of a command names the first entry like the one shown.
LEMMA FirstLikeIs ==
  ASSUME NEW doc \in Seq(Entry), NEW n \in DOMAIN doc
  PROVE  FirstLike(doc, n) \in DOMAIN doc /\ doc[FirstLike(doc, n)] = doc[n]
<1> DEFINE T == {i \in 1 .. n : doc[i] = doc[n]}
<1>1. DOMAIN doc = 1 .. Len(doc) /\ Len(doc) \in Nat
  OBVIOUS
<1>2. n \in T /\ T \in SUBSET Nat
  BY <1>1
<1>3. PICK i \in T : \A j \in T : i <= j
  BY <1>2, FirstPlace
<1>4. \A j \in 1 .. i - 1 : doc[j] # doc[n]
  <2> SUFFICES ASSUME NEW j \in 1 .. i - 1, doc[j] = doc[n] PROVE FALSE
    OBVIOUS
  <2>1. j \in T /\ ~ i <= j
    BY <1>1, <1>3
  <2> QED BY <1>3, <2>1
<1>5. \E l \in 1 .. n : doc[l] = doc[n] /\ \A j \in 1 .. l - 1 : doc[j] # doc[n]
  BY <1>3, <1>4
<1>6. FirstLike(doc, n) \in 1 .. n /\ doc[FirstLike(doc, n)] = doc[n]
  BY <1>5 DEF FirstLike
<1> QED BY <1>1, <1>6

\* What is left without one entry: the others, in their order.
LEMMA RemovedIs ==
  ASSUME NEW doc \in Seq(Entry), NEW p \in DOMAIN doc
  PROVE  /\ RemoveAt(doc, p) \in Seq(Entry) /\ Len(RemoveAt(doc, p)) = Len(doc) - 1
         /\ Len(RemoveAt(doc, p)) \in Nat
         /\ \A i \in 1 .. Len(doc) - 1 : RemoveAt(doc, p)[i] = doc[IF i < p THEN i ELSE i + 1]
<1> DEFINE u == SubSeq(doc, 1, p - 1)
           v == SubSeq(doc, p + 1, Len(doc))
<1>1. DOMAIN doc = 1 .. Len(doc) /\ Len(doc) \in Nat /\ p \in 1 .. Len(doc)
  OBVIOUS
<1>2. u \in Seq(Entry) /\ Len(u) = p - 1 /\ \A i \in 1 .. p - 1 : u[i] = doc[i]
  BY <1>1
<1>3. v \in Seq(Entry) /\ Len(v) = Len(doc) - p /\ \A i \in 1 .. Len(doc) - p : v[i] = doc[i + p]
  BY <1>1
<1>4. RemoveAt(doc, p) = u \o v
  BY DEF RemoveAt
<1> HIDE DEF u, v
<1>5. u \o v \in Seq(Entry) /\ Len(u \o v) = Len(doc) - 1
  <2>1. u \o v \in Seq(Entry) /\ Len(u \o v) = Len(u) + Len(v)
    <3>1. u \in Seq(Entry) /\ v \in Seq(Entry)
      BY <1>2, <1>3
    <3> QED BY <3>1
  <2>2. (p - 1) + (Len(doc) - p) = Len(doc) - 1
    BY <1>1
  <2> QED BY <1>2, <1>3, <2>1, <2>2
<1>6. ASSUME NEW i \in 1 .. Len(doc) - 1
      PROVE  (u \o v)[i] = doc[IF i < p THEN i ELSE i + 1]
  <2>1. CASE i < p
    <3>1. i \in 1 .. p - 1 /\ (u \o v)[i] = u[i]
      BY <1>1, <1>2, <1>3, <2>1
    <3> QED BY <1>2, <2>1, <3>1
  <2>2. CASE ~ i < p
    <3>1. i - (p - 1) \in 1 .. Len(doc) - p /\ (u \o v)[i] = v[i - (p - 1)]
      BY <1>1, <1>2, <1>3, <2>2
    <3>2. (i - (p - 1)) + p = i + 1
      BY <1>1
    <3> QED BY <1>3, <2>2, <3>1, <3>2
  <2> QED BY <2>1, <2>2
<1> QED BY <1>1, <1>4, <1>5, <1>6

LEMMA DeleteIs ==
  ASSUME NEW doc \in Seq(Entry), NEW n \in DOMAIN doc
  PROVE  /\ DeleteEntry(doc, n) \in Seq(Entry)
         /\ Len(DeleteEntry(doc, n)) <= Len(doc)
         /\ Together(doc) => Together(DeleteEntry(doc, n))
         /\ SameOrder(doc, DeleteEntry(doc, n))
         /\ \A e : Occurrences(DeleteEntry(doc, n), e)
                     = Occurrences(doc, e) - (IF e = doc[n] THEN 1 ELSE 0)
         /\ \A sec : Cardinality(Section(DeleteEntry(doc, n), sec)) <= Cardinality(Section(doc, sec))
<1> DEFINE p == FirstLike(doc, n)
           w == DeleteEntry(doc, n)
           from(i) == IF i < p THEN i ELSE i + 1
<1>1. p \in DOMAIN doc /\ doc[p] = doc[n] /\ w = RemoveAt(doc, p)
  BY FirstLikeIs DEF DeleteEntry
<1> HIDE DEF p, w
<1>2. /\ DOMAIN doc = 1 .. Len(doc) /\ Len(doc) \in Nat /\ p \in 1 .. Len(doc)
      /\ w \in Seq(Entry) /\ Len(w) = Len(doc) - 1 /\ Len(w) \in Nat
      /\ DOMAIN w = 1 .. Len(doc) - 1
      /\ \A i \in DOMAIN w : w[i] = doc[from(i)]
  <2>1. DOMAIN doc = 1 .. Len(doc) /\ Len(doc) \in Nat /\ p \in 1 .. Len(doc)
    BY <1>1
  <2>2. w \in Seq(Entry) /\ Len(w) = Len(doc) - 1 /\ Len(w) \in Nat
    BY <1>1, RemovedIs
  <2>3. \A i \in 1 .. Len(doc) - 1 : w[i] = doc[from(i)]
    BY <1>1, RemovedIs
  <2>4. DOMAIN w = 1 .. Len(w)
    BY <2>2
  <2> HIDE DEF from
  <2> QED BY <2>1, <2>2, <2>3, <2>4
<1>3. \A i \in DOMAIN w : from(i) \in DOMAIN doc /\ from(i) # p
  BY <1>2
<1>4. \A i, k \in DOMAIN w : i < k <=> from(i) < from(k)
  BY <1>2
<1>5. \A i, k \in DOMAIN w : from(i) = from(k) => i = k
  BY <1>2
<1>6. \A k \in DOMAIN doc : k # p => \E i \in DOMAIN w : from(i) = k
  <2> SUFFICES ASSUME NEW k \in DOMAIN doc, k # p PROVE \E i \in DOMAIN w : from(i) = k
    OBVIOUS
  <2>1. CASE k < p
    <3>1. k \in DOMAIN w /\ from(k) = k
      BY <1>2, <2>1
    <3> QED BY <3>1
  <2>2. CASE k > p
    <3>1. k - 1 \in DOMAIN w /\ from(k - 1) = k
      BY <1>2, <2>2
    <3> QED BY <3>1
  <2> QED BY <1>2, <2>1, <2>2
<1> HIDE DEF from
<1>7. Together(doc) => Together(w)
  <2> SUFFICES ASSUME Together(doc), NEW i \in DOMAIN w, NEW j \in DOMAIN w, NEW k \in DOMAIN w,
                      i < j, j < k, w[i].sec = w[k].sec
               PROVE  w[j].sec = w[i].sec
    BY DEF Together
  <2>1. from(i) < from(j) /\ from(j) < from(k)
    BY <1>4
  <2>2. from(i) \in DOMAIN doc /\ from(j) \in DOMAIN doc /\ from(k) \in DOMAIN doc
    BY <1>3
  <2>3. doc[from(i)].sec = doc[from(k)].sec
    BY <1>2
  <2>4. doc[from(j)].sec = doc[from(i)].sec
    BY <2>1, <2>2, <2>3 DEF Together
  <2> QED BY <1>2, <2>4
<1>8. SameOrder(doc, w)
  <2>1. ASSUME NEW i \in DOMAIN doc, NEW k \in DOMAIN doc, NEW a \in DOMAIN w, NEW b \in DOMAIN w,
               i < k, w[a] = doc[i], w[b] = doc[k],
               Occurrences(doc, doc[i]) = 1, Occurrences(doc, doc[k]) = 1
        PROVE  a < b
    <3>1. from(a) \in DOMAIN doc /\ doc[from(a)] = doc[i] /\ from(b) \in DOMAIN doc /\ doc[from(b)] = doc[k]
      BY <1>2, <1>3, <2>1
    <3>2. from(a) = i /\ from(b) = k
      BY <2>1, <3>1, OnceIs
    <3> QED BY <1>4, <2>1, <3>2
  <2> QED BY <1>2, <2>1, OrderBySpots
<1>9. ASSUME NEW e
      PROVE  Occurrences(w, e) = Occurrences(doc, e) - (IF e = doc[n] THEN 1 ELSE 0)
  <2> DEFINE A == {i \in DOMAIN w : w[i] = e}
             B == {i \in DOMAIN doc : doc[i] = e}
             f == [i \in A |-> from(i)]
  <2>1. A \in SUBSET (1 .. Len(w)) /\ B \in SUBSET (1 .. Len(doc))
    BY <1>2
  <2>2. IsFiniteSet(A) /\ IsFiniteSet(B) /\ Cardinality(B) \in Nat /\ Cardinality(A) \in Nat
    BY <1>2, <2>1, PlacesFinite
  <2>3. f \in Bijection(A, B \ {p})
    <3>1. \A i \in A : from(i) \in B \ {p}
      BY <1>2, <1>3
    <3>2. \A i, k \in A : from(i) = from(k) => i = k
      BY <1>5
    <3>3. \A k \in B \ {p} : \E i \in A : from(i) = k
      <4> SUFFICES ASSUME NEW k \in B \ {p} PROVE \E i \in A : from(i) = k
        OBVIOUS
      <4>1. PICK i \in DOMAIN w : from(i) = k
        BY <1>6
      <4>2. i \in A
        BY <1>2, <4>1
      <4> QED BY <4>1, <4>2
    <3> HIDE DEF A, B
    <3> QED BY <3>1, <3>2, <3>3 DEF Bijection, Injection, Surjection, IsInjective
  <2> HIDE DEF f
  <2>4. Cardinality(A) = Cardinality(B \ {p})
    <3>1. IsFiniteSet(B \ {p})
      BY <2>2, FS_Subset
    <3>2. ExistsBijection(A, B \ {p})
      BY <2>3 DEF ExistsBijection
    <3> QED BY <2>2, <3>1, <3>2, FS_Bijection
  <2>5. p \in B <=> e = doc[n]
    BY <1>1
  <2>6. Occurrences(w, e) = Cardinality(A) /\ Occurrences(doc, e) = Cardinality(B)
    BY DEF Occurrences
  <2> HIDE DEF A, B
  <2>7. CASE e = doc[n]
    <3>1. Cardinality(B \ {p}) = Cardinality(B) - 1
      BY <2>2, <2>5, <2>7, FS_RemoveElement
    <3> QED BY <2>4, <2>6, <2>7, <3>1
  <2>8. CASE e # doc[n]
    <3>1. B \ {p} = B
      BY <2>5, <2>8
    <3>2. Occurrences(w, e) = Occurrences(doc, e) /\ Occurrences(doc, e) \in Nat
      BY <2>2, <2>4, <2>6, <3>1
    <3>3. (IF e = doc[n] THEN 1 ELSE 0) = 0
      BY <2>8
    <3> QED BY <3>2, <3>3
  <2> QED BY <2>7, <2>8
<1>10. ASSUME NEW sec PROVE Cardinality(Section(w, sec)) <= Cardinality(Section(doc, sec))
  <2> DEFINE A == Section(w, sec)
             B == Section(doc, sec)
             f == [i \in A |-> from(i)]
  <2>1. B \in SUBSET (1 .. Len(doc)) /\ A \in SUBSET (1 .. Len(w))
    BY <1>2 DEF Section
  <2>2. IsFiniteSet(B) /\ IsFiniteSet(A)
    BY <1>2, <2>1, PlacesFinite
  <2>3. f \in Injection(A, B)
    <3>1. \A i \in A : from(i) \in B
      BY <1>2, <1>3 DEF Section
    <3>2. \A i, k \in A : from(i) = from(k) => i = k
      BY <1>5 DEF Section
    <3> HIDE DEF A, B
    <3> QED BY <3>1, <3>2 DEF Injection, IsInjective
  <2> HIDE DEF f, A, B
  <2>4. Cardinality(A) <= Cardinality(B)
    BY <2>2, <2>3, FS_Injection
  <2> QED BY <2>4 DEF A, B
<1>11. Len(w) <= Len(doc)
  BY <1>2
<1> QED BY <1>2, <1>7, <1>8, <1>9, <1>10, <1>11 DEF w

LEMMA EditIs ==
  ASSUME NEW doc \in Seq(Entry), NEW n \in DOMAIN doc, NEW item \in Items
  PROVE  /\ EditEntry(doc, n, item) \in Seq(Entry)
         /\ Len(EditEntry(doc, n, item)) = Len(doc)
         /\ Together(doc) => Together(EditEntry(doc, n, item))
         /\ SameOrder(doc, EditEntry(doc, n, item))
         /\ \A sec : Section(EditEntry(doc, n, item), sec) = Section(doc, sec)
<1> DEFINE p == FirstLike(doc, n)
           new == [doc[n] EXCEPT !.item = item]
           w == EditEntry(doc, n, item)
<1>1. p \in DOMAIN doc /\ doc[p] = doc[n] /\ doc[n] \in Entry
  BY FirstLikeIs
<1>2. new \in Entry /\ new.sec = doc[p].sec
  BY <1>1 DEF Entry
<1>3. w = [doc EXCEPT ![p] = new]
  BY DEF EditEntry, ReplaceAt
<1> HIDE DEF p, w, new
<1>4. /\ w \in Seq(Entry) /\ Len(w) = Len(doc) /\ DOMAIN w = DOMAIN doc
      /\ w[p] = new /\ \A i \in DOMAIN doc : i # p => w[i] = doc[i]
  BY <1>1, <1>2, <1>3
<1>5. \A i \in DOMAIN doc : w[i].sec = doc[i].sec
  BY <1>2, <1>4
<1>6. Together(doc) => Together(w)
  BY <1>4, <1>5 DEF Together
<1>7. \A sec : Section(w, sec) = Section(doc, sec)
  BY <1>4, <1>5 DEF Section
<1>8. SameOrder(doc, w)
  <2>1. ASSUME NEW i \in DOMAIN doc, NEW a \in DOMAIN w, w[a] = doc[i],
               Occurrences(doc, doc[i]) = 1, Occurrences(w, doc[i]) = 1
        PROVE  a = i
    <3>1. \A k \in DOMAIN doc : doc[k] = doc[i] => k = i
      BY <2>1, OnceIs
    <3>2. \A k \in DOMAIN w : w[k] = doc[i] => k = a
      BY <1>4, <2>1, OnceIs
    <3>3. CASE a # p
      BY <1>4, <2>1, <3>1, <3>3
    <3>4. CASE a = p
      BY <1>4, <3>2, <3>4
    <3> QED BY <3>3, <3>4
  <2> QED BY <1>4, <2>1, OrderBySpots
<1> QED BY <1>4, <1>6, <1>7, <1>8 DEF w

-----------------------------------------------------------------------------
(* Types, and the size of a document.                                      *)

\* What merging and consolidation write is bounded.
Bounded(doc) ==
  \/ \A sec \in Sections : Cardinality(Section(doc, sec)) <= MaxItems
  \/ Len(doc) <= Cap

\* A document about to be written is bounded, and so is what consolidation keeps.
Waiting ==
  \A c \in Chats : /\ pc[c] = "write" => Bounded(next[c])
                   /\ pc[c] \in {"backup", "commit"} => Len(kept[c]) <= Cap

StoreTypes ==
  /\ memory \in Seq(Entry) /\ backup \in Seq(Entry)
  /\ archive \in SUBSET Items /\ marked \in SUBSET Days
  /\ day \in Days /\ commands \in 0 .. MaxCommands /\ mined \in 0 .. MaxMined
  /\ crashes \in Nat /\ lost \in Nat /\ crashes + lost <= MaxFaults

Phases == {"idle", "wipe", "rewipe", "wipebackup", "wipearchive", "mark", "mine", "write",
           "dream", "rewrite", "backup", "commit", "archive", "shelve"}

ChatTypes ==
  /\ pc \in [Chats -> Phases]
  /\ target \in [Chats -> Days] /\ after \in [Chats -> {"idle", "dream"}]
  /\ next \in [Chats -> Seq(Entry)] /\ entries \in [Chats -> Seq(Entry)]
  /\ kept \in [Chats -> Seq(Items)]
  /\ retired \in [Chats -> SUBSET Items] /\ shelf \in [Chats -> SUBSET Items]

MemInv == StoreTypes /\ Bounded(memory) /\ ChatTypes /\ Waiting

LEMMA MergeSized ==
  ASSUME NEW doc \in Seq(Entry), NEW new \in Extracts
  PROVE  Merge(doc, new) \in Seq(Entry) /\ Bounded(Merge(doc, new))
<1>1. new \in Seq(Entry)
  BY RunConstants
<1> QED BY <1>1, MergeIs, MergeBounded DEF Bounded

LEMMA DeleteSized ==
  ASSUME NEW doc \in Seq(Entry), NEW n \in DOMAIN doc, Bounded(doc)
  PROVE  DeleteEntry(doc, n) \in Seq(Entry) /\ Bounded(DeleteEntry(doc, n))
<1> DEFINE w == DeleteEntry(doc, n)
<1>1. w \in Seq(Entry) /\ Len(w) <= Len(doc)
  BY DeleteIs
<1>2. \A sec : Cardinality(Section(w, sec)) <= Cardinality(Section(doc, sec))
  BY DeleteIs
<1> HIDE DEF w
<1>3. \A u \in Seq(Entry) : \A sec : Cardinality(Section(u, sec)) \in Nat
  <2> SUFFICES ASSUME NEW u \in Seq(Entry), NEW sec PROVE Cardinality(Section(u, sec)) \in Nat
    OBVIOUS
  <2>1. Len(u) \in Nat /\ Section(u, sec) \in SUBSET (1 .. Len(u))
    BY DEF Section
  <2> QED BY <2>1, PlacesFinite
<1>4. ASSUME NEW sec, Cardinality(Section(doc, sec)) <= MaxItems
      PROVE  Cardinality(Section(w, sec)) <= MaxItems
  <2>1. Cardinality(Section(w, sec)) <= Cardinality(Section(doc, sec))
    BY <1>2
  <2>2. Cardinality(Section(w, sec)) \in Nat /\ Cardinality(Section(doc, sec)) \in Nat
    BY <1>1, <1>3
  <2> QED BY <1>4, <2>1, <2>2, MemoryConstants
<1>5. Len(doc) <= Cap => Len(w) <= Cap
  BY <1>1, MemoryConstants
<1> QED BY <1>1, <1>4, <1>5 DEF Bounded, w

LEMMA EditSized ==
  ASSUME NEW doc \in Seq(Entry), NEW n \in DOMAIN doc, NEW item \in Rewordings, Bounded(doc)
  PROVE  EditEntry(doc, n, item) \in Seq(Entry) /\ Bounded(EditEntry(doc, n, item))
<1>1. item \in Items
  BY RunConstants
<1> QED BY <1>1, EditIs DEF Bounded

\* A consolidated document is within the cap.
LEMMA RebuiltIs ==
  ASSUME NEW doc \in Seq(Entry), NEW items \in Seq(Items)
  PROVE  /\ Rebuilt(doc, items) \in Seq(Entry) /\ Together(Rebuilt(doc, items))
         /\ Len(items) <= Cap => Bounded(Rebuilt(doc, items))
<1> DEFINE new == [i \in DOMAIN items |-> [sec |-> SectionOf(doc, items[i]), item |-> items[i]]]
<1>1. ASSUME NEW item PROVE SectionOf(doc, item) \in Sections
  <2> DEFINE at == {i \in DOMAIN doc : doc[i].item = item}
  <2>1. CASE at = {}
    BY <2>1, MemoryConstants DEF SectionOf
  <2>2. CASE at # {}
    <3>1. Len(doc) \in Nat /\ at \in SUBSET (1 .. Len(doc))
      OBVIOUS
    <3>2. \E i \in at : \A j \in at : j <= i
      BY <2>2, <3>1, LastPlace
    <3>3. PICK i \in at : SectionOf(doc, item) = doc[i].sec
      BY <2>2, <3>2 DEF SectionOf
    <3>4. doc[i] \in Entry
      OBVIOUS
    <3> QED BY <3>3, <3>4 DEF Entry
  <2> QED BY <2>1, <2>2
<1>2. \A i \in DOMAIN items : [sec |-> SectionOf(doc, items[i]), item |-> items[i]] \in Entry
  BY <1>1 DEF Entry
<1>3. Len(items) \in Nat /\ DOMAIN items = 1 .. Len(items)
  OBVIOUS
<1>4. new \in Seq(Entry) /\ DOMAIN new = DOMAIN items /\ Len(new) = Len(items)
  BY <1>2, <1>3
<1>5. Rebuilt(doc, items) = Written(new, DOMAIN new)
  BY <1>4 DEF Rebuilt
<1> HIDE DEF new
<1>6. /\ Written(new, DOMAIN new) \in Seq(Entry) /\ Together(Written(new, DOMAIN new))
      /\ Len(Written(new, DOMAIN new)) <= Len(new)
  BY <1>4, WrittenIs, WrittenTogether
<1>7. Len(items) <= Cap => Len(Written(new, DOMAIN new)) <= Cap
  <2>1. Len(Written(new, DOMAIN new)) \in Nat
    BY <1>6
  <2> QED BY <1>3, <1>4, <1>6, <2>1, MemoryConstants
<1> QED BY <1>5, <1>6, <1>7 DEF Bounded

\* What the model answers to consolidation is a list of texts.
LEMMA RewritesAre ==
  ASSUME NEW doc \in Seq(Entry), NEW answer \in Rewrites(doc)
  PROVE  answer \in Seq(Items)
<1> DEFINE texts == [i \in DOMAIN doc |-> doc[i].item]
           some == {Picked(texts, which) : which \in (SUBSET DOMAIN doc) \ {{}}}
<1>1. texts \in Seq(Items) /\ DOMAIN texts = DOMAIN doc
  <2>1. Len(doc) \in Nat /\ DOMAIN doc = 1 .. Len(doc) /\ \A i \in DOMAIN doc : doc[i] \in Entry
    OBVIOUS
  <2>2. \A i \in DOMAIN doc : doc[i].item \in Items
    BY <2>1 DEF Entry
  <2>3. texts = [i \in 1 .. Len(doc) |-> texts[i]] /\ \A i \in 1 .. Len(doc) : texts[i] \in Items
    BY <2>1, <2>2
  <2>4. DOMAIN texts = DOMAIN doc
    OBVIOUS
  <2> HIDE DEF texts
  <2>5. texts \in Seq(Items)
    BY <2>1, <2>3
  <2> QED BY <2>4, <2>5
<1>2. answer \in some \/ \E text \in Rewordings, a \in some : answer = <<text>> \o Tail(a)
  <2>1. answer \in some \cup UNION {{<<text>> \o Tail(a) : a \in some} : text \in Rewordings}
    BY DEF Rewrites
  <2> HIDE DEF some
  <2> QED BY <2>1
<1> HIDE DEF texts
<1>3. ASSUME NEW which \in (SUBSET DOMAIN doc) \ {{}}
      PROVE  Picked(texts, which) \in Seq(Items) /\ Picked(texts, which) # << >>
  <2>1. which \subseteq DOMAIN texts /\ which # {}
    <3>1. which \in SUBSET (DOMAIN doc) /\ which \notin {{}}
      OBVIOUS
    <3>2. which # {}
      BY <3>1, Zenon
    <3> QED BY <1>1, <3>1, <3>2
  <2>2. which \in SUBSET DOMAIN texts
    BY <2>1
  <2> QED BY <1>1, <2>1, <2>2, PickedIs
<1>4. \A a \in some : a \in Seq(Items) /\ a # << >>
  BY <1>3
<1> HIDE DEF some
<1>5. ASSUME NEW text \in Rewordings, NEW a \in some PROVE <<text>> \o Tail(a) \in Seq(Items)
  <2>1. text \in Items /\ a \in Seq(Items) /\ a # << >>
    BY <1>4, RunConstants
  <2>2. <<text>> \in Seq(Items) /\ Tail(a) \in Seq(Items)
    BY <2>1
  <2>3. \A u, v \in Seq(Items) : u \o v \in Seq(Items)
    OBVIOUS
  <2> QED BY <2>2, <2>3, Zenon
<1>6. ASSUME NEW text \in Rewordings, NEW a \in some, answer = <<text>> \o Tail(a)
      PROVE  answer \in Seq(Items)
  BY <1>5, <1>6, Zenon
<1> QED BY <1>2, <1>4, <1>6, Zenon

\* What a read answers, and what it costs.
LEMMA ReadIs ==
  ASSUME NEW value, NEW stored, NEW nothing, Reads(value, stored, nothing), StoreTypes
  PROVE  value \in {stored, nothing} /\ lost' \in Nat /\ crashes + lost' <= MaxFaults
<1>1. CASE value = stored /\ UNCHANGED lost
  BY <1>1 DEF StoreTypes
<1>2. CASE value = nothing /\ crashes + lost < MaxFaults /\ lost' = lost + 1
  <2>1. crashes \in Nat /\ lost \in Nat /\ MaxFaults \in Nat
    BY RunConstants DEF StoreTypes
  <2>2. lost + 1 \in Nat /\ crashes + (lost + 1) <= MaxFaults
    BY <1>2, <2>1
  <2> QED BY <1>2, <2>2
<1> QED BY <1>1, <1>2 DEF Reads

\* The ways a chat moves on.
LEMMA FinishTyped ==
  ASSUME NEW c \in Chats, ChatTypes, Waiting, Finish(c)
  PROVE  ChatTypes' /\ Waiting'
<1>1. ChatTypes'
  <2>1. 1 \in Days
    BY RunConstants DEF Days
  <2>2. << >> \in Seq(Entry) /\ << >> \in Seq(Items)
    OBVIOUS
  <2> QED BY <2>1, <2>2 DEF ChatTypes, Finish, Forget, Goto, Phases
<1>2. \A d \in Chats : /\ d = c => pc'[d] = "idle"
                       /\ d # c => pc'[d] = pc[d] /\ next'[d] = next[d] /\ kept'[d] = kept[d]
  BY DEF ChatTypes, Finish, Forget, Goto
<1>3. Waiting'
  BY <1>2 DEF Waiting, Bounded, Section
<1> QED BY <1>1, <1>3

LEMMA ToWriteTyped ==
  ASSUME NEW c \in Chats, ChatTypes, Waiting, NEW doc \in Seq(Entry), Bounded(doc),
         NEW where \in {"idle", "dream"}, ToWrite(c, doc, where)
  PROVE  ChatTypes' /\ Waiting'
<1>1. ChatTypes'
  BY DEF ChatTypes, ToWrite, Goto, Phases
<1>2. \A d \in Chats : /\ d = c => pc'[d] = "write" /\ next'[d] = doc
                       /\ d # c => pc'[d] = pc[d] /\ next'[d] = next[d]
                       /\ kept'[d] = kept[d]
  BY DEF ChatTypes, ToWrite, Goto
<1>3. Waiting'
  BY <1>2 DEF Waiting, Bounded, Section
<1> QED BY <1>1, <1>3

LEMMA GotoTyped ==
  ASSUME NEW c \in Chats, ChatTypes, Waiting, NEW where \in Phases \ {"write", "backup", "commit"},
         Goto(c, where), UNCHANGED <<next, kept, after, retired>>,
         target' \in [Chats -> Days], entries' \in [Chats -> Seq(Entry)],
         shelf' \in [Chats -> SUBSET Items]
  PROVE  ChatTypes' /\ Waiting'
<1>1. ChatTypes'
  BY DEF ChatTypes, Goto
<1>2. \A d \in Chats : /\ d = c => pc'[d] = where
                       /\ d # c => pc'[d] = pc[d]
                       /\ next'[d] = next[d] /\ kept'[d] = kept[d]
  BY DEF ChatTypes, Goto
<1>3. Waiting'
  BY <1>2 DEF Waiting, Bounded, Section
<1> QED BY <1>1, <1>3

LEMMA StayTyped ==
  ASSUME ChatTypes, Waiting, UNCHANGED <<pc, localVars>>
  PROVE  ChatTypes' /\ Waiting'
BY DEF ChatTypes, Waiting, Bounded, Section, localVars

\* Commands of the user.
LEMMA CommandsTyped ==
  ASSUME MemInv, NEW c \in Chats,
         \/ List(c)
         \/ \E n \in DOMAIN memory : Delete(c, n) \/ \E item \in Rewordings : Edit(c, n, item)
  PROVE  MemInv'
<1> USE DEF MemInv
<1>1. ASSUME Commanded(c), UNCHANGED <<kvVars, day, mined, crashes, lost>>
      PROVE  StoreTypes' /\ Bounded(memory)'
  <2>1. commands' \in 0 .. MaxCommands
    BY <1>1, RunConstants DEF Commanded, StoreTypes
  <2> QED BY <1>1, <2>1 DEF StoreTypes, kvVars, Bounded, Section
<1>2. CASE List(c)
  BY <1>1, <1>2, StayTyped DEF List
<1>3. ASSUME NEW n \in DOMAIN memory, Delete(c, n) PROVE MemInv'
  <2>1. DeleteEntry(memory, n) \in Seq(Entry) /\ Bounded(DeleteEntry(memory, n))
    BY DeleteSized DEF StoreTypes
  <2>2. ChatTypes' /\ Waiting'
    BY <1>3, <2>1, ToWriteTyped DEF Delete
  <2> QED BY <1>1, <1>3, <2>2 DEF Delete
<1>4. ASSUME NEW n \in DOMAIN memory, NEW item \in Rewordings, Edit(c, n, item) PROVE MemInv'
  <2>1. EditEntry(memory, n, item) \in Seq(Entry) /\ Bounded(EditEntry(memory, n, item))
    BY EditSized DEF StoreTypes
  <2>2. ChatTypes' /\ Waiting'
    BY <1>4, <2>1, ToWriteTyped DEF Edit
  <2> QED BY <1>1, <1>4, <2>2 DEF Edit
<1> QED BY <1>2, <1>3, <1>4

\* A reset.
LEMMA ResetTyped ==
  ASSUME MemInv, NEW c \in Chats, Reset(c) \/ Wiping(c)
  PROVE  MemInv'
<1> USE DEF MemInv
<1>1. ASSUME NEW where \in {"wipe", "rewipe", "wipebackup", "wipearchive"}, Goto(c, where),
             UNCHANGED localVars
      PROVE  ChatTypes' /\ Waiting'
  <2>1. /\ target' \in [Chats -> Days] /\ entries' \in [Chats -> Seq(Entry)]
        /\ shelf' \in [Chats -> SUBSET Items] /\ UNCHANGED <<next, kept, after, retired>>
    BY <1>1 DEF ChatTypes, localVars
  <2> QED BY <1>1, <2>1, GotoTyped DEF Phases
<1>2. << >> \in Seq(Entry) /\ Bounded(<< >>)
  <2>1. Len(<< >>) <= Cap /\ Len(<< >>) = 0
    BY MemoryConstants
  <2> QED BY <2>1 DEF Bounded
<1>3. ASSUME UNCHANGED crashes \/ Fails
      PROVE  crashes' \in Nat /\ crashes' + lost <= MaxFaults
  <2>1. crashes \in Nat /\ lost \in Nat /\ MaxFaults \in Nat /\ crashes + lost <= MaxFaults
    BY RunConstants DEF StoreTypes
  <2> QED BY <1>3, <2>1 DEF Fails
<1>4. CASE Reset(c)
  <2>1. commands' \in 0 .. MaxCommands
    BY <1>4, RunConstants DEF Reset, Commanded, StoreTypes
  <2>2. UNCHANGED <<kvVars, day, mined, crashes, lost>> /\ ChatTypes' /\ Waiting'
    BY <1>1, <1>4 DEF Reset
  <2> QED BY <2>1, <2>2 DEF StoreTypes, kvVars, Bounded, Section
<1>5. CASE WipeMemory(c)
  <2>1. memory' \in {memory, << >>} /\ crashes' \in Nat /\ crashes' + lost <= MaxFaults
    BY <1>3, <1>5 DEF WipeMemory
  <2>2. memory' \in Seq(Entry) /\ Bounded(memory)'
    BY <1>2, <2>1 DEF StoreTypes, Bounded, Section
  <2>3. ChatTypes' /\ Waiting'
    BY <1>1, <1>5 DEF WipeMemory
  <2>4. UNCHANGED <<backup, archive, marked, day, commands, mined, lost>>
    BY <1>5 DEF WipeMemory
  <2> QED BY <2>1, <2>2, <2>3, <2>4 DEF StoreTypes
<1>6. CASE WipeBackup(c)
  <2>1. backup' \in {backup, << >>} /\ crashes' \in Nat /\ crashes' + lost <= MaxFaults
    BY <1>3, <1>6 DEF WipeBackup
  <2>2. ChatTypes' /\ Waiting'
    BY <1>1, <1>6 DEF WipeBackup
  <2>3. UNCHANGED <<memory, archive, marked, day, commands, mined, lost>>
    BY <1>6 DEF WipeBackup
  <2> QED BY <1>2, <2>1, <2>2, <2>3 DEF StoreTypes, Bounded, Section
<1>7. CASE WipeArchive(c)
  <2>1. archive' \in {archive, {}} /\ crashes' \in Nat /\ crashes' + lost <= MaxFaults
    BY <1>3, <1>7 DEF WipeArchive
  <2>2. ChatTypes' /\ Waiting'
    BY <1>7, FinishTyped DEF WipeArchive
  <2>3. UNCHANGED <<memory, backup, marked, day, commands, mined, lost>>
    BY <1>7 DEF WipeArchive
  <2> QED BY <2>1, <2>2, <2>3 DEF StoreTypes, Bounded, Section
<1> QED BY <1>4, <1>5, <1>6, <1>7 DEF Wiping

\* Extraction, and the end of a turn.
LEMMA ExtractionTyped ==
  ASSUME MemInv, NEW c \in Chats,
         \/ \E new \in Extracts : CompactionExtracts(c, new) \/ Mine(c, new)
         \/ TurnEnds(c) \/ Mark(c) \/ MineNothing(c) \/ Write(c) \/ MergeFails(c)
  PROVE  MemInv'
<1> USE DEF MemInv
<1>1. ASSUME NEW new \in Extracts, NEW where \in {"idle", "dream"}, ReadAndMerge(c, new, where)
      PROVE  lost' \in Nat /\ crashes + lost' <= MaxFaults /\ ChatTypes' /\ Waiting'
  <2>1. PICK doc \in {memory, << >>} :
           Reads(doc, memory, << >>) /\ ToWrite(c, Merge(doc, new), where)
    BY <1>1 DEF ReadAndMerge
  <2>2. doc \in Seq(Entry)
    <3>1. memory \in Seq(Entry) /\ << >> \in Seq(Entry)
      BY DEF StoreTypes
    <3> QED BY <3>1
  <2>3. Merge(doc, new) \in Seq(Entry) /\ Bounded(Merge(doc, new))
    BY <2>2, MergeSized
  <2>4. ChatTypes' /\ Waiting'
    BY <2>1, <2>3, ToWriteTyped
  <2> QED BY <2>1, <2>4, ReadIs
<1>2. ASSUME NEW new \in Extracts, CompactionExtracts(c, new) PROVE MemInv'
  <2>1. mined' \in 0 .. MaxMined
    BY <1>2, RunConstants DEF CompactionExtracts, StoreTypes
  <2>2. lost' \in Nat /\ crashes + lost' <= MaxFaults /\ ChatTypes' /\ Waiting'
    BY <1>1, <1>2 DEF CompactionExtracts
  <2> QED BY <1>2, <2>1, <2>2 DEF CompactionExtracts, StoreTypes, kvVars, Bounded, Section
<1>3. ASSUME NEW new \in Extracts, Mine(c, new) PROVE MemInv'
  <2>1. lost' \in Nat /\ crashes + lost' <= MaxFaults /\ ChatTypes' /\ Waiting'
    BY <1>1, <1>3 DEF Mine
  <2> QED BY <1>3, <2>1 DEF Mine, StoreTypes, kvVars, Bounded, Section
<1>4. CASE TurnEnds(c)
  <2>1. PICK set \in BOOLEAN :
           /\ Reads(set, day \in marked, FALSE)
           /\ IF set THEN UNCHANGED <<pc, target>>
              ELSE Goto(c, "mark") /\ target' = [target EXCEPT ![c] = day]
    BY <1>4 DEF TurnEnds
  <2>2. lost' \in Nat /\ crashes + lost' <= MaxFaults
    BY <2>1, ReadIs
  <2>3. UNCHANGED <<next, after, entries, kept, retired, shelf>>
    BY <1>4 DEF TurnEnds
  <2>4. ChatTypes' /\ Waiting'
    <3>1. CASE set
      BY <2>1, <2>3, <3>1, StayTyped DEF localVars
    <3>2. CASE ~ set
      <4>1. Goto(c, "mark") /\ target' \in [Chats -> Days]
        BY <2>1, <3>2 DEF ChatTypes, StoreTypes
      <4>2. entries' \in [Chats -> Seq(Entry)] /\ shelf' \in [Chats -> SUBSET Items]
        BY <2>3 DEF ChatTypes
      <4> QED BY <2>3, <4>1, <4>2, GotoTyped DEF Phases
    <3> QED BY <3>1, <3>2
  <2>5. UNCHANGED <<kvVars, day, commands, mined, crashes>>
    BY <1>4 DEF TurnEnds
  <2> QED BY <2>2, <2>4, <2>5 DEF StoreTypes, kvVars, Bounded, Section
<1>5. ASSUME Goto(c, "mine") \/ Goto(c, "dream"), UNCHANGED localVars PROVE ChatTypes' /\ Waiting'
  <2>1. /\ UNCHANGED <<next, kept, after, retired>>
        /\ target' \in [Chats -> Days] /\ entries' \in [Chats -> Seq(Entry)]
        /\ shelf' \in [Chats -> SUBSET Items]
    BY <1>5 DEF localVars, ChatTypes
  <2> QED BY <1>5, <2>1, GotoTyped DEF Phases
<1>6. CASE Mark(c)
  <2>1. marked' \in SUBSET Days /\ UNCHANGED <<memory, backup, archive, bounds>>
    BY <1>6 DEF Mark, StoreTypes, ChatTypes
  <2>2. ChatTypes' /\ Waiting'
    BY <1>5, <1>6, FinishTyped DEF Mark
  <2> QED BY <2>1, <2>2 DEF StoreTypes, bounds, Bounded, Section
<1>7. CASE MineNothing(c)
  <2>1. ChatTypes' /\ Waiting'
    BY <1>5, <1>7, FinishTyped DEF MineNothing
  <2> QED BY <1>7, <2>1 DEF MineNothing, StoreTypes, kvVars, bounds, Bounded, Section
<1>8. CASE Write(c)
  <2>1. memory' \in Seq(Entry) /\ Bounded(memory)' /\ UNCHANGED <<backup, archive, marked, bounds>>
    BY <1>8 DEF Write, ChatTypes, Waiting, Bounded, Section
  <2>2. ChatTypes' /\ Waiting'
    <3>1. CASE Finish(c)
      BY <3>1, FinishTyped
    <3>2. CASE Goto(c, after[c]) /\ UNCHANGED localVars /\ after[c] # "idle"
      <4>1. after[c] = "dream"
        BY <3>2 DEF ChatTypes
      <4> QED BY <1>5, <3>2, <4>1
    <3> QED BY <1>8, <3>1, <3>2 DEF Write
  <2> QED BY <2>1, <2>2 DEF StoreTypes, bounds
<1>9. CASE MergeFails(c)
  <2>1. crashes' \in Nat /\ crashes' + lost <= MaxFaults
    BY <1>9, RunConstants DEF MergeFails, Fails, StoreTypes
  <2>2. ChatTypes' /\ Waiting'
    BY <1>5, <1>9 DEF MergeFails
  <2> QED BY <1>9, <2>1, <2>2 DEF MergeFails, StoreTypes, kvVars, Bounded, Section
<1> QED BY <1>2, <1>3, <1>4, <1>6, <1>7, <1>8, <1>9

\* Consolidation, and a crash.
LEMMA ConsolidationTyped ==
  ASSUME MemInv, NEW c \in Chats,
         \/ Dream(c) \/ RewriteNothing(c)
         \/ \E answer \in Rewrites(entries[c]) : Rewrite(c, answer)
         \/ Backup(c) \/ Commit(c) \/ ReadArchive(c) \/ Shelve(c) \/ Crash(c)
  PROVE  MemInv'
<1> USE DEF MemInv
<1>1. << >> \in Seq(Entry) /\ memory \in Seq(Entry)
  BY DEF StoreTypes
<1>2. ASSUME UNCHANGED <<kvVars, bounds>> PROVE StoreTypes' /\ Bounded(memory)'
  BY <1>2 DEF StoreTypes, kvVars, bounds, Bounded, Section
<1>3. CASE Dream(c)
  <2>1. PICK doc \in {memory, << >>} :
          /\ Reads(doc, memory, << >>)
          /\ IF Len(doc) > Threshold
             THEN /\ entries' = [entries EXCEPT ![c] = doc]
                  /\ Goto(c, "rewrite")
                  /\ UNCHANGED <<target, next, after, kept, retired, shelf>>
             ELSE Finish(c)
    BY <1>3 DEF Dream
  <2>2. lost' \in Nat /\ crashes + lost' <= MaxFaults
    BY <2>1, ReadIs
  <2>3. ChatTypes' /\ Waiting'
    <3>1. CASE Finish(c)
      BY <3>1, FinishTyped
    <3>2. CASE ~ Finish(c)
      <4>1. /\ entries' = [entries EXCEPT ![c] = doc] /\ Goto(c, "rewrite")
            /\ UNCHANGED <<target, next, after, kept, retired, shelf>>
        BY <2>1, <3>2
      <4>2. entries' \in [Chats -> Seq(Entry)]
        BY <1>1, <4>1 DEF ChatTypes
      <4>3. target' \in [Chats -> Days] /\ shelf' \in [Chats -> SUBSET Items]
        BY <4>1 DEF ChatTypes
      <4> QED BY <4>1, <4>2, <4>3, GotoTyped DEF Phases
    <3> QED BY <3>1, <3>2
  <2>4. UNCHANGED <<kvVars, day, commands, mined, crashes>>
    BY <1>3 DEF Dream
  <2> QED BY <2>2, <2>3, <2>4 DEF StoreTypes, kvVars, Bounded, Section
<1>4. CASE RewriteNothing(c)
  BY <1>2, <1>4, FinishTyped DEF RewriteNothing
<1>5. ASSUME NEW answer \in Rewrites(entries[c]), Rewrite(c, answer) PROVE MemInv'
  <2> DEFINE cleaned == UpTo(answer, Cap)
             fresh == {i \in DOMAIN cleaned : cleaned[i] \notin Stale}
             picked == Picked(cleaned, fresh)
  <2>1. answer \in Seq(Items)
    BY RewritesAre DEF ChatTypes
  <2>2. cleaned \in Seq(Items) /\ Len(cleaned) <= Cap /\ Len(cleaned) \in Nat
    <3>1. CASE Len(answer) > Cap
      <4>1. cleaned = SubSeq(answer, 1, Cap)
        BY <3>1 DEF UpTo
      <4>2. Cap \in Nat /\ Cap <= Len(answer)
        BY <2>1, <3>1, MemoryConstants
      <4>3. SubSeq(answer, 1, Cap) \in Seq(Items) /\ Len(SubSeq(answer, 1, Cap)) = Cap
        BY <2>1, <4>2
      <4> QED BY <4>1, <4>2, <4>3
    <3>2. CASE ~ Len(answer) > Cap
      <4>1. cleaned = answer
        BY <3>2 DEF UpTo
      <4> QED BY <2>1, <3>2, <4>1, MemoryConstants
    <3> QED BY <3>1, <3>2
  <2>3. /\ retired' = [retired EXCEPT ![c] = ToSet(cleaned) \cap Stale]
        /\ kept' = [kept EXCEPT ![c] = picked]
        /\ Goto(c, "backup")
        /\ UNCHANGED <<kvVars, bounds, target, next, after, entries, shelf>>
    BY <1>5 DEF Rewrite
  <2> HIDE DEF cleaned
  <2>4. /\ picked \in Seq(Items) /\ Len(picked) = Cardinality(fresh)
        /\ Cardinality(fresh) <= Len(cleaned)
    <3>1. fresh \in SUBSET DOMAIN cleaned
      OBVIOUS
    <3> HIDE DEF fresh
    <3> QED BY <2>2, <3>1, PickedIs
  <2>5. Len(picked) <= Cap
    <3>1. Len(picked) \in Nat
      BY <2>4
    <3> HIDE DEF picked
    <3> QED BY <2>2, <2>4, <3>1, MemoryConstants
  <2> HIDE DEF picked, fresh
  <2>6. ChatTypes'
    <3>1. ToSet(cleaned) \cap Stale \in SUBSET Items
      BY RunConstants
    <3> QED BY <2>3, <2>4, <3>1 DEF ChatTypes, Goto, Phases
  <2>7. \A d \in Chats : /\ d = c => pc'[d] = "backup" /\ kept'[d] = picked
                         /\ d # c => pc'[d] = pc[d] /\ kept'[d] = kept[d]
                         /\ next'[d] = next[d]
    BY <2>3 DEF ChatTypes, Goto
  <2>8. Waiting'
    BY <2>5, <2>7 DEF Waiting, Bounded, Section
  <2> QED BY <1>2, <2>3, <2>6, <2>8
<1>6. CASE Backup(c)
  <2>1. PICK doc \in {memory, << >>} : Reads(doc, memory, << >>) /\ backup' = doc
    BY <1>6 DEF Backup
  <2>2. lost' \in Nat /\ crashes + lost' <= MaxFaults /\ backup' \in Seq(Entry)
    BY <1>1, <2>1, ReadIs
  <2>3. /\ pc[c] = "backup" /\ Goto(c, "commit")
        /\ UNCHANGED <<memory, archive, marked, day, commands, mined, crashes, localVars>>
    BY <1>6 DEF Backup
  <2>4. ChatTypes'
    BY <2>3 DEF ChatTypes, Goto, Phases, localVars
  <2>5. \A d \in Chats : /\ pc'[d] = IF d = c THEN "commit" ELSE pc[d]
                         /\ kept'[d] = kept[d] /\ next'[d] = next[d]
    BY <2>3 DEF ChatTypes, Goto, localVars
  <2>6. Waiting'
    BY <2>3, <2>5 DEF Waiting, Bounded, Section
  <2> QED BY <2>2, <2>3, <2>4, <2>6 DEF StoreTypes, Bounded, Section
<1>7. ASSUME NEW where \in {"archive", "shelve"}, Goto(c, where),
             UNCHANGED <<target, next, after, entries, kept, retired>>,
             shelf' \in [Chats -> SUBSET Items]
      PROVE  ChatTypes' /\ Waiting'
  <2>1. target' \in [Chats -> Days] /\ entries' \in [Chats -> Seq(Entry)]
    BY <1>7 DEF ChatTypes
  <2> QED BY <1>7, <2>1, GotoTyped DEF Phases
<1>8. CASE Commit(c)
  <2>1. /\ pc[c] = "commit" /\ memory' = Rebuilt(entries[c], kept[c])
        /\ UNCHANGED <<backup, archive, marked, bounds>>
    BY <1>8 DEF Commit
  <2>2. entries[c] \in Seq(Entry) /\ kept[c] \in Seq(Items) /\ Len(kept[c]) <= Cap
    BY <2>1 DEF ChatTypes, Waiting
  <2>3. memory' \in Seq(Entry) /\ Bounded(memory')
    BY <2>1, <2>2, RebuiltIs
  <2>4. ChatTypes' /\ Waiting'
    <3>1. CASE Finish(c)
      BY <3>1, FinishTyped
    <3>2. CASE Goto(c, "archive") /\ UNCHANGED localVars
      BY <1>7, <3>2 DEF localVars, ChatTypes
    <3> QED BY <1>8, <3>1, <3>2 DEF Commit
  <2>5. Bounded(memory)'
    BY <2>3 DEF Bounded, Section
  <2> QED BY <2>1, <2>3, <2>4, <2>5 DEF StoreTypes, bounds
<1>9. CASE ReadArchive(c)
  <2>1. PICK items \in {archive, {}} : Reads(items, archive, {}) /\ shelf' = [shelf EXCEPT ![c] = items]
    BY <1>9 DEF ReadArchive
  <2>2. lost' \in Nat /\ crashes + lost' <= MaxFaults
    BY <2>1, ReadIs
  <2>3. shelf' \in [Chats -> SUBSET Items]
    BY <2>1 DEF ChatTypes, StoreTypes
  <2>4. /\ UNCHANGED <<kvVars, day, commands, mined, crashes>> /\ Goto(c, "shelve")
        /\ UNCHANGED <<target, next, after, entries, kept, retired>>
    BY <1>9 DEF ReadArchive
  <2>5. ChatTypes' /\ Waiting'
    BY <1>7, <2>3, <2>4
  <2> QED BY <2>2, <2>4, <2>5 DEF StoreTypes, kvVars, Bounded, Section
<1>10. CASE Shelve(c)
  <2>1. archive' \in SUBSET Items
    BY <1>10 DEF Shelve, ChatTypes
  <2>2. ChatTypes' /\ Waiting' /\ UNCHANGED <<memory, backup, marked, bounds>>
    BY <1>10, FinishTyped DEF Shelve
  <2> QED BY <2>1, <2>2 DEF StoreTypes, bounds, Bounded, Section
<1>11. CASE Crash(c)
  <2>1. crashes' \in Nat /\ crashes' + lost <= MaxFaults
    BY <1>11, RunConstants DEF Crash, StoreTypes
  <2>2. ChatTypes' /\ Waiting' /\ UNCHANGED <<kvVars, day, commands, mined, lost>>
    BY <1>11, FinishTyped DEF Crash
  <2> QED BY <2>1, <2>2 DEF StoreTypes, kvVars, Bounded, Section
<1> QED BY <1>3, <1>4, <1>5, <1>6, <1>8, <1>9, <1>10, <1>11

LEMMA MemInvariant == Spec => []MemInv
<1>1. ASSUME Init PROVE MemInv
  <2>1. StoreTypes
    BY <1>1, RunConstants DEF Init, StoreTypes, Days
  <2>2. Len(<< >>) <= Cap /\ Len(<< >>) = 0
    BY MemoryConstants
  <2>3. Bounded(memory)
    BY <1>1, <2>2 DEF Init, Bounded
  <2>4. ChatTypes
    <3>1. 1 \in Days /\ << >> \in Seq(Entry) /\ << >> \in Seq(Items)
      BY RunConstants DEF Days
    <3> QED BY <1>1, <3>1 DEF Init, ChatTypes, Phases
  <2>5. Waiting
    BY <1>1 DEF Init, Waiting
  <2> QED BY <2>1, <2>3, <2>4, <2>5 DEF MemInv
<1>2. ASSUME MemInv, [Next]_vars PROVE MemInv'
  <2>1. CASE UNCHANGED vars
    <3>1. ChatTypes' /\ Waiting'
      BY <1>2, <2>1, StayTyped DEF MemInv, vars
    <3> QED BY <1>2, <2>1, <3>1 DEF MemInv, vars, kvVars, bounds, StoreTypes, Bounded, Section
  <2>2. CASE Midnight
    <3>1. ChatTypes' /\ Waiting'
      BY <1>2, <2>2, StayTyped DEF MemInv, Midnight
    <3>2. day' \in Days /\ UNCHANGED <<kvVars, commands, mined, crashes, lost>>
      BY <1>2, <2>2, RunConstants DEF Midnight, MemInv, StoreTypes, Days
    <3> QED BY <1>2, <3>1, <3>2 DEF MemInv, kvVars, StoreTypes, Bounded, Section
  <2> QED BY <1>2, <2>1, <2>2, CommandsTyped, ResetTyped, ExtractionTyped, ConsolidationTyped
          DEF Next, Wiping
<1> QED BY <1>1, <1>2, PTL DEF Spec

\* Whatever the chats do, and whatever fails: no section of the document has more than
\* merging gives it, or the whole is within the cap of consolidation, and the rest keeps
\* its type (persona.py:104-120, consolidate.py:120-168).
THEOREM MemoryTypeOK == Spec => []TypeOK
<1>1. ASSUME MemInv PROVE TypeOK
  <2>1. crashes \in 0 .. MaxFaults /\ lost \in 0 .. MaxFaults /\ crashes + lost \in 0 .. MaxFaults
    <3>1. crashes \in Nat /\ lost \in Nat /\ crashes + lost <= MaxFaults /\ MaxFaults \in Nat
      BY <1>1, RunConstants DEF MemInv, StoreTypes
    <3> QED BY <3>1
  <2>2. \A c \in Chats : /\ {next[c], entries[c]} \subseteq Seq(Entry)
                         /\ kept[c] \in Seq(Items)
                         /\ retired[c] \cup shelf[c] \subseteq Items
    BY <1>1 DEF MemInv, ChatTypes
  <2>3. \/ \A sec \in Sections :
              Cardinality({i \in DOMAIN memory : memory[i].sec = sec}) <= MaxItems
        \/ Len(memory) <= Cap
    BY <1>1 DEF MemInv, Bounded, Section
  <2> QED BY <1>1, <2>1, <2>2, <2>3 DEF TypeOK, MemInv, StoreTypes, ChatTypes, Phases,
     Consolidating
<1> QED BY <1>1, MemInvariant, PTL

-----------------------------------------------------------------------------
(* The numbers the user sees.                                              *)

\* The sections of the document stand together, a document about to be written keeps the
\* order of the one in place, unless a read was lost, and the list shown is the document.
OrderInv(c) ==
  /\ DOMAIN shown = Chats
  /\ Together(memory)
  /\ pc[c] = "write" => Together(next[c]) /\ (lost = 0 => SameOrder(memory, next[c]))
  /\ shown[c] # Unseen => shown[c] = memory /\ pc[c] = "idle"

\* What OrderInv says of the next state.
LEMMA OrderNext ==
  ASSUME NEW c, DOMAIN shown' = Chats, Together(memory'),
         pc'[c] = "write" => Together(next'[c]) /\ (lost' = 0 => SameOrder(memory', next'[c])),
         shown'[c] # Unseen => shown'[c] = memory' /\ pc'[c] = "idle"
  PROVE  OrderInv(c)'
BY DEF OrderInv, Together, SameOrder, Occurrences, Place

\* The list goes out of sight, or the chat is at no command.
Unshown(c) == OutOfSight(c) \/ (shown' = shown /\ pc[c] # "idle")

\* A step that neither writes the document nor is about to.
Resting(c) ==
  /\ memory' = memory
  /\ pc'[c] # "write" \/ UNCHANGED <<pc, next, lost>>
  /\ Unshown(c) \/ (shown' = shown /\ pc' = pc)

LEMMA UnshownIs ==
  ASSUME NEW c, Chats = {c}, OrderInv(c), Unshown(c)
  PROVE  DOMAIN shown' = Chats /\ shown'[c] = Unseen
BY DEF OrderInv, Unshown, OutOfSight

LEMMA RestingKeeps ==
  ASSUME NEW c, Chats = {c}, OrderInv(c), Resting(c)
  PROVE  OrderInv(c)'
<1>1. DOMAIN shown' = Chats /\ (shown'[c] # Unseen => shown'[c] = memory' /\ pc'[c] = "idle")
  <2>1. CASE Unshown(c)
    BY <2>1, UnshownIs
  <2>2. CASE shown' = shown /\ pc' = pc
    BY <2>2 DEF Resting, OrderInv
  <2> QED BY <2>1, <2>2 DEF Resting
<1>2. Together(memory')
  BY DEF OrderInv, Resting
<1>3. pc'[c] = "write" => Together(next'[c]) /\ (lost' = 0 => SameOrder(memory', next'[c]))
  BY DEF OrderInv, Resting
<1> QED BY <1>1, <1>2, <1>3, OrderNext

\* A document is about to be written.
LEMMA ToWriteKeeps ==
  ASSUME NEW c, Chats = {c}, MemInv, OrderInv(c), NEW doc, NEW where, ToWrite(c, doc, where),
         memory' = memory, Together(doc), lost' = 0 => SameOrder(memory, doc), Unshown(c)
  PROVE  OrderInv(c)'
<1>1. DOMAIN shown' = Chats /\ shown'[c] = Unseen
  BY UnshownIs
<1>2. next'[c] = doc
  BY DEF ToWrite, MemInv, ChatTypes
<1>3. Together(memory')
  BY DEF OrderInv
<1> QED BY <1>1, <1>2, <1>3, OrderNext

LEMMA RestingSteps ==
  ASSUME NEW c, Chats = {c}, MemInv, OrderInv(c),
         \/ UNCHANGED vars \/ Midnight \/ Reset(c) \/ WipeBackup(c) \/ WipeArchive(c)
         \/ TurnEnds(c) \/ Mark(c) \/ MineNothing(c) \/ MergeFails(c) \/ Dream(c)
         \/ RewriteNothing(c) \/ (\E answer \in Rewrites(entries[c]) : Rewrite(c, answer))
         \/ Backup(c) \/ ReadArchive(c) \/ Shelve(c) \/ Crash(c)
  PROVE  Resting(c)
<1> USE DEF Resting, Unshown
<1>1. c \in Chats /\ DOMAIN pc = Chats
  BY DEF MemInv, ChatTypes
<1>2. ASSUME Finish(c) PROVE pc'[c] # "write"
  BY <1>1, <1>2 DEF Finish, Goto
<1>3. CASE UNCHANGED vars
  BY <1>3 DEF vars, kvVars, bounds, localVars, history
<1>4. CASE Midnight
  BY <1>4 DEF Midnight, kvVars, localVars, history
<1>5. CASE TurnEnds(c)
  <2>1. pc[c] = "idle" /\ memory' = memory /\ OutOfSight(c)
    BY <1>5 DEF TurnEnds, kvVars
  <2>2. pc' = pc \/ Goto(c, "mark")
    BY <1>5, Zenon DEF TurnEnds
  <2> QED BY <1>1, <2>1, <2>2 DEF Goto
<1>6. CASE Mark(c)
  BY <1>1, <1>2, <1>6 DEF Mark, Goto, history
<1>7. CASE MineNothing(c)
  BY <1>1, <1>2, <1>7 DEF MineNothing, Goto, kvVars, history
<1>8. CASE MergeFails(c)
  BY <1>1, <1>8 DEF MergeFails, Goto, kvVars, history
<1>9. CASE Dream(c)
  <2>1. Finish(c) \/ Goto(c, "rewrite")
    BY <1>9, Zenon DEF Dream
  <2> QED BY <1>1, <1>2, <1>9, <2>1 DEF Dream, Goto, kvVars, history
<1>10. CASE RewriteNothing(c)
  BY <1>2, <1>10 DEF RewriteNothing, kvVars, history
<1>11. ASSUME NEW answer, Rewrite(c, answer) PROVE Resting(c)
  BY <1>1, <1>11 DEF Rewrite, Goto, kvVars, history
<1>12. CASE Backup(c)
  BY <1>1, <1>12 DEF Backup, Goto, history
<1>13. CASE ReadArchive(c)
  BY <1>1, <1>13 DEF ReadArchive, Goto, kvVars, history
<1>14. CASE Shelve(c)
  BY <1>2, <1>14 DEF Shelve, history
<1>15. CASE Crash(c)
  BY <1>2, <1>15 DEF Crash, kvVars, history
<1>16. CASE Reset(c)
  BY <1>1, <1>16 DEF Reset, Commanded, Goto, kvVars
<1>17. CASE WipeBackup(c)
  BY <1>1, <1>17 DEF WipeBackup, Goto, history
<1>18. CASE WipeArchive(c)
  BY <1>2, <1>18 DEF WipeArchive
<1> QED BY <1>3, <1>4, <1>5, <1>6, <1>7, <1>8, <1>9, <1>10, <1>11, <1>12, <1>13, <1>14, <1>15,
           <1>16, <1>17, <1>18

\* A document read and merged, an empty one when the read is lost.
LEMMA MergeWaits ==
  ASSUME NEW c, Chats = {c}, MemInv, OrderInv(c), NEW new \in Extracts, NEW where,
         ReadAndMerge(c, new, where), memory' = memory, Unshown(c)
  PROVE  OrderInv(c)'
<1>1. PICK doc \in {memory, << >>} :
         Reads(doc, memory, << >>) /\ ToWrite(c, Merge(doc, new), where)
  BY DEF ReadAndMerge
<1>2. memory \in Seq(Entry) /\ << >> \in Seq(Entry) /\ new \in Seq(Entry) /\ lost \in Nat
  BY RunConstants DEF MemInv, StoreTypes
<1>3. Together(Merge(doc, new))
  BY <1>2, MergeIs
<1>4. ASSUME lost' = 0 PROVE SameOrder(memory, Merge(doc, new))
  <2>1. doc = memory
    BY <1>1, <1>2, <1>4, ReadsTrue
  <2>2. Together(memory)
    BY DEF OrderInv
  <2> QED BY <1>2, <2>1, <2>2, MergeKeepsOrder
<1> QED BY <1>1, <1>3, <1>4, ToWriteKeeps

LEMMA OrderKept ==
  ASSUME NEW c, Chats = {c}, MemInv, OrderInv(c), [Next]_vars
  PROVE  OrderInv(c)'
<1>1. memory \in Seq(Entry) /\ Together(memory) /\ DOMAIN shown = Chats /\ DOMAIN pc = Chats
  BY DEF MemInv, StoreTypes, ChatTypes, OrderInv
<1>2. CASE List(c)
  <2>1. /\ pc[c] = "idle" /\ pc' = pc /\ memory' = memory
        /\ shown' = [shown EXCEPT ![c] = memory]
    BY <1>2 DEF List, Commanded, kvVars
  <2> QED BY <1>1, <2>1, OrderNext
<1>3. ASSUME NEW n \in DOMAIN memory, Delete(c, n) PROVE OrderInv(c)'
  <2>1. /\ ToWrite(c, DeleteEntry(memory, n), "idle") /\ memory' = memory /\ Unshown(c)
    BY <1>3 DEF Delete, kvVars, Unshown
  <2>2. Together(DeleteEntry(memory, n)) /\ SameOrder(memory, DeleteEntry(memory, n))
    BY <1>1, DeleteIs
  <2> QED BY <2>1, <2>2, ToWriteKeeps
<1>4. ASSUME NEW n \in DOMAIN memory, NEW item \in Rewordings, Edit(c, n, item)
      PROVE  OrderInv(c)'
  <2>1. /\ ToWrite(c, EditEntry(memory, n, item), "idle") /\ memory' = memory /\ Unshown(c)
    BY <1>4 DEF Edit, kvVars, Unshown
  <2>2. item \in Items
    BY RunConstants
  <2>3. Together(EditEntry(memory, n, item)) /\ SameOrder(memory, EditEntry(memory, n, item))
    BY <1>1, <2>2, EditIs
  <2> QED BY <2>1, <2>3, ToWriteKeeps
<1>5. ASSUME NEW new \in Extracts, CompactionExtracts(c, new) PROVE OrderInv(c)'
  <2>1. ReadAndMerge(c, new, "idle") /\ memory' = memory /\ Unshown(c)
    BY <1>5 DEF CompactionExtracts, kvVars, Unshown
  <2> QED BY <2>1, MergeWaits
<1>6. ASSUME NEW new \in Extracts, Mine(c, new) PROVE OrderInv(c)'
  <2>1. ReadAndMerge(c, new, "dream") /\ memory' = memory /\ Unshown(c)
    BY <1>6 DEF Mine, kvVars, Unshown
  <2> QED BY <2>1, MergeWaits
<1>7. CASE Write(c)
  <2>1. pc[c] = "write" /\ memory' = next[c] /\ shown' = shown
    BY <1>7 DEF Write, history
  <2>2. pc'[c] \in {"idle", "dream"}
    BY <1>1, <1>7 DEF Write, Finish, Goto, MemInv, ChatTypes
  <2>3. shown[c] = Unseen /\ Together(next[c])
    BY <2>1 DEF OrderInv
  <2> QED BY <1>1, <2>1, <2>2, <2>3, OrderNext
<1>8. CASE Commit(c)
  <2>1. pc[c] = "commit" /\ memory' = Rebuilt(entries[c], kept[c]) /\ shown' = shown
    BY <1>8 DEF Commit
  <2>2. pc'[c] \in {"idle", "archive"}
    BY <1>1, <1>8 DEF Commit, Finish, Goto
  <2>3. Together(memory')
    <3>1. entries[c] \in Seq(Entry) /\ kept[c] \in Seq(Items)
      BY DEF MemInv, ChatTypes
    <3> QED BY <2>1, <3>1, RebuiltIs
  <2>4. shown[c] = Unseen
    BY <2>1 DEF OrderInv
  <2> QED BY <1>1, <2>1, <2>2, <2>3, <2>4, OrderNext
<1>9. ASSUME Resting(c) PROVE OrderInv(c)'
  BY <1>9, RestingKeeps
<1>10. CASE WipeMemory(c)
  <2>1. /\ pc[c] \in {"wipe", "rewipe"} /\ pc'[c] \in {"rewipe", "wipebackup"}
        /\ memory' \in {memory, << >>} /\ shown' = shown
    BY <1>1, <1>10 DEF WipeMemory, Goto, history
  <2>2. Together(memory') /\ shown[c] = Unseen
    BY <2>1 DEF OrderInv, Together
  <2> QED BY <1>1, <2>1, <2>2, OrderNext
<1> QED BY <1>2, <1>3, <1>4, <1>5, <1>6, <1>7, <1>8, <1>9, <1>10, RestingSteps DEF Next

\* The numbers the user sees are stable (persona.py:99, 125-148): unless a read was lost
\* or consolidation commits, no step changes the order of the entries that stay, and the
\* entry deleted by the number in the list just shown is the one that goes, and it alone.
THEOREM NumbersStable ==
  ASSUME NEW own, Chats = {own}
  PROVE  Spec => StableOrder
<1> DEFINE Inv == MemInv /\ OrderInv(own)
<1>1. Init => OrderInv(own)
  <2> SUFFICES ASSUME Init PROVE OrderInv(own)
    OBVIOUS
  <2>1. memory = << >> /\ DOMAIN shown = Chats /\ shown[own] = Unseen /\ pc[own] = "idle"
    BY DEF Init
  <2>2. Together(memory)
    BY <2>1 DEF Together
  <2> QED BY <2>1, <2>2 DEF OrderInv
<1>2. MemInv /\ OrderInv(own) /\ [Next]_vars => OrderInv(own)'
  BY OrderKept
<1>3. MemInv /\ OrderInv(own) /\ [Next]_vars =>
        [ /\ lost > 0 \/ (\E c \in Chats : pc[c] = "commit") \/ KeepsOrder
          /\ \A c \in Chats : \A n \in DOMAIN memory :
                 shown[c] # Unseen /\ Delete(c, n) => DeletesAsShown(c, n) ]_vars
  <2> SUFFICES ASSUME MemInv, OrderInv(own), [Next]_vars
               PROVE  /\ lost = 0 /\ pc[own] # "commit" => KeepsOrder
                      /\ \A n \in DOMAIN memory :
                            shown[own] # Unseen /\ Delete(own, n) => DeletesAsShown(own, n)
    BY DEF MemInv, StoreTypes
  <2>1. memory \in Seq(Entry) /\ DOMAIN next = Chats
    BY DEF MemInv, StoreTypes, ChatTypes
  <2>2. ASSUME SameOrder(memory, memory') PROVE KeepsOrder
    BY <2>2, Zenon DEF SameOrder, KeepsOrder, Once
  <2>3. SameOrder(memory, memory)
    BY DEF SameOrder
  <2>4. ASSUME lost = 0, pc[own] # "commit" PROVE KeepsOrder
    <3>1. CASE Write(own)
      <4>1. pc[own] = "write" /\ memory' = next[own]
        BY <3>1 DEF Write
      <4> QED BY <2>2, <2>4, <4>1 DEF OrderInv
    <3>2. CASE memory' = memory
      BY <2>2, <2>3, <3>2
    <3>3. CASE List(own)
      BY <3>2, <3>3 DEF List, kvVars
    <3>4. CASE \E n \in DOMAIN memory : Delete(own, n) \/ \E item \in Rewordings : Edit(own, n, item)
      BY <3>2, <3>4 DEF Delete, Edit, kvVars
    <3>5. CASE \E new \in Extracts : CompactionExtracts(own, new) \/ Mine(own, new)
      BY <3>2, <3>5 DEF CompactionExtracts, Mine, kvVars
    <3>6. ~ Commit(own)
      BY <2>4 DEF Commit
    <3>7. ASSUME Resting(own) PROVE KeepsOrder
      BY <3>2, <3>7 DEF Resting
    <3>8. CASE WipeMemory(own)
      <4>1. CASE memory' = << >>
        <5>1. \A e : {i \in DOMAIN memory' : memory'[i] = e} = {}
          BY <4>1
        <5>2. \A e : Occurrences(memory', e) = 0
          BY <5>1, FS_EmptySet DEF Occurrences
        <5>3. \A e : ~ Once(e)
          BY <5>2 DEF Once
        <5> QED BY <5>3 DEF KeepsOrder
      <4> QED BY <3>2, <3>8, <4>1 DEF WipeMemory
    <3> QED BY <3>1, <3>3, <3>4, <3>5, <3>6, <3>7, <3>8, RestingSteps DEF Next
  <2>5. ASSUME NEW n \in DOMAIN memory, shown[own] # Unseen, Delete(own, n)
        PROVE  DeletesAsShown(own, n)
    <3>1. shown[own] = memory
      BY <2>5 DEF OrderInv
    <3>2. next'[own] = DeleteEntry(memory, n)
      BY <2>1, <2>5 DEF Delete, ToWrite
    <3>3. \A e : Occurrences(DeleteEntry(memory, n), e)
                   = Occurrences(memory, e) - (IF e = memory[n] THEN 1 ELSE 0)
      BY <2>1, DeleteIs
    <3> QED BY <3>1, <3>2, <3>3 DEF DeletesAsShown
  <2> QED BY <2>4, <2>5
<1> QED
  <2>1. Spec => [][ /\ lost > 0 \/ (\E c \in Chats : pc[c] = "commit") \/ KeepsOrder
                    /\ \A c \in Chats : \A n \in DOMAIN memory :
                           shown[c] # Unseen /\ Delete(c, n) => DeletesAsShown(c, n) ]_vars
    BY <1>1, <1>2, <1>3, MemInvariant, PTL DEF Spec
  <2>2. Spec => StableOrder
    BY <2>1 DEF StableOrder
  <2> QED BY <2>2
=============================================================================
