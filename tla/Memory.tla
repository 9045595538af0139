------------------------------- MODULE Memory -------------------------------
(***************************************************************************)
(* The long-term memory of one user: MEMORY.md, its backup and its         *)
(* archive, under the memory commands (core/memory/commands.py), the reset *)
(* of all persona documents (core/memory/persona.py), the extraction at a  *)
(* compaction (core/context.py) and, at the end of a turn, the daily       *)
(* extraction and the consolidation (core/memory/consolidate.py).          *)
(* Every KV access and every call of the model is a step, so that a crash, *)
(* or another chat of the user, may come between any two of them.          *)
(***************************************************************************)
EXTENDS ManagedMemory

CONSTANTS
    Chats,       \* the chats of the user
    Stale,       \* items about experiences older than ARCHIVE_DAYS
    Threshold,   \* CONSOLIDATE_THRESHOLD (code: 30)
    Extracts,    \* bound: what the model may extract
    Rewordings,  \* bound: texts consolidation may come up with
    MaxDays,     \* bound: days
    MaxCommands, \* bound: commands of the user
    MaxMined,    \* bound: extractions of a compaction
    MaxFaults,   \* bound: writes that raise, turns that die, reads that answer nothing
    Unseen       \* the user has not seen the list since the last turn

ASSUME RunConstants ==
    /\ Stale \subseteq Items /\ Rewordings \subseteq Items
    /\ Extracts \subseteq Seq(Entry)
    /\ Threshold \in Nat /\ MaxDays \in Nat \ {0} /\ MaxCommands \in Nat
    /\ MaxMined \in Nat /\ MaxFaults \in Nat
    /\ Unseen \notin Seq(Entry)

VARIABLES
    \* the KV storage
    memory,   \* MEMORY.md, its managed entries
    backup,   \* MEMORY.bak.md
    archive,  \* MEMORY.archive.md, the items in it
    marked,   \* the days whose marker is set
    \* the environment
    day, commands, mined, crashes, lost,
    \* the invocation of each chat
    pc,
    target,   \* the day whose digest is extracted
    next,     \* the document about to be written
    after,    \* where to go once it is written
    entries,  \* what consolidation read first
    kept,     \* the texts it keeps
    retired,  \* the texts it archives
    shelf,    \* the archive as read
    \* what the user has seen and the system has done
    shown,      \* the list as last shown
    extracted,  \* how often each day was extracted
    archived    \* every text a commit took out of MEMORY.md for the archive since
                \* the archive was last emptied

kvVars == <<memory, backup, archive, marked>>
bounds == <<day, commands, mined, crashes, lost>>
localVars == <<target, next, after, entries, kept, retired, shelf>>
history == <<shown, extracted, archived>>
vars == <<kvVars, bounds, pc, localVars, history>>

Days == 1 .. MaxDays

Init ==
    /\ memory = << >> /\ backup = << >> /\ archive = {} /\ marked = {}
    /\ day = 1 /\ commands = 0 /\ mined = 0 /\ crashes = 0 /\ lost = 0
    /\ pc = [c \in Chats |-> "idle"]
    /\ target = [c \in Chats |-> 1]
    /\ next = [c \in Chats |-> << >>]
    /\ after = [c \in Chats |-> "idle"]
    /\ entries = [c \in Chats |-> << >>]
    /\ kept = [c \in Chats |-> << >>]
    /\ retired = [c \in Chats |-> {}]
    /\ shelf = [c \in Chats |-> {}]
    /\ shown = [c \in Chats |-> Unseen]
    /\ extracted = [d \in Days |-> 0]
    /\ archived = {}

Goto(c, where) == pc' = [pc EXCEPT ![c] = where]

\* Nothing of an operation that is over matters.
Forget(c) ==
    /\ target' = [target EXCEPT ![c] = 1]
    /\ next' = [next EXCEPT ![c] = << >>]
    /\ after' = [after EXCEPT ![c] = "idle"]
    /\ entries' = [entries EXCEPT ![c] = << >>]
    /\ kept' = [kept EXCEPT ![c] = << >>]
    /\ retired' = [retired EXCEPT ![c] = {}]
    /\ shelf' = [shelf EXCEPT ![c] = {}]

Finish(c) == Goto(c, "idle") /\ Forget(c)

\* `value' is what a read of `stored' answers: a read that fails answers nothing.
Reads(value, stored, nothing) ==
    \/ value = stored /\ UNCHANGED lost
    \/ /\ value = nothing /\ stored # nothing
       /\ crashes + lost < MaxFaults /\ lost' = lost + 1

\* A write that fails, and is caught.
Fails == crashes + lost < MaxFaults /\ crashes' = crashes + 1

\* `doc' is to be written, and the operation goes on at `where'.
ToWrite(c, doc, where) ==
    /\ next' = [next EXCEPT ![c] = doc]
    /\ after' = [after EXCEPT ![c] = where]
    /\ Goto(c, "write")
    /\ UNCHANGED <<target, entries, kept, retired, shelf>>

Midnight ==
    /\ day < MaxDays /\ day' = day + 1
    /\ UNCHANGED <<kvVars, commands, mined, crashes, lost, pc, localVars, history>>

-----------------------------------------------------------------------------
(* Commands of the user, commands.py:161-186 and persona.py:124-148.       *)

\* The list the user has seen is no longer the answer to the last message.
OutOfSight(c) == shown' = [shown EXCEPT ![c] = Unseen]

Commanded(c) ==
    /\ pc[c] = "idle"
    /\ commands < MaxCommands /\ commands' = commands + 1

List(c) ==
    /\ Commanded(c)
    /\ shown' = [shown EXCEPT ![c] = memory]
    /\ UNCHANGED <<kvVars, day, mined, crashes, lost, pc, localVars, extracted, archived>>

\* A number out of range, or a document that cannot be read, changes nothing.
Delete(c, n) ==
    /\ Commanded(c) /\ n \in DOMAIN memory
    /\ ToWrite(c, DeleteEntry(memory, n), "idle")
    /\ OutOfSight(c)
    /\ UNCHANGED <<kvVars, day, mined, crashes, lost, extracted, archived>>

Edit(c, n, item) ==
    /\ Commanded(c) /\ n \in DOMAIN memory
    /\ ToWrite(c, EditEntry(memory, n, item), "idle")
    /\ OutOfSight(c)
    /\ UNCHANGED <<kvVars, day, mined, crashes, lost, extracted, archived>>

-----------------------------------------------------------------------------
(* Reset, my_claw_tool.py:341-345 and persona.py:54-64: one document after *)
(* the other is emptied, and one that cannot be written is passed over.    *)

Reset(c) ==
    /\ Commanded(c)
    /\ Goto(c, "wipe")
    /\ OutOfSight(c)
    /\ UNCHANGED <<kvVars, day, mined, crashes, lost, localVars, extracted, archived>>

\* MEMORY.md is in both lists of names.
WipeMemory(c) ==
    /\ \/ pc[c] = "wipe" /\ Goto(c, "rewipe")
       \/ pc[c] = "rewipe" /\ Goto(c, "wipebackup")
    /\ \/ memory' = << >> /\ UNCHANGED crashes
       \/ Fails /\ UNCHANGED memory
    /\ UNCHANGED <<backup, archive, marked, day, commands, mined, lost, localVars, history>>

WipeBackup(c) ==
    /\ pc[c] = "wipebackup"
    /\ \/ backup' = << >> /\ UNCHANGED crashes
       \/ Fails /\ UNCHANGED backup
    /\ Goto(c, "wipearchive")
    /\ UNCHANGED <<memory, archive, marked, day, commands, mined, lost, localVars, history>>

WipeArchive(c) ==
    /\ pc[c] = "wipearchive"
    /\ \/ archive' = {} /\ archived' = {} /\ UNCHANGED crashes
       \/ Fails /\ UNCHANGED <<archive, archived>>
    /\ Finish(c)
    /\ UNCHANGED <<memory, backup, marked, day, commands, mined, lost, shown, extracted>>

-----------------------------------------------------------------------------
(* Extraction: while a turn compacts its messages or its model corrects    *)
(* the memory (builtin.py:211-216), and once a day at the end of a turn    *)
(* (context.py:106-127, consolidate.py:82-118).                            *)

ReadAndMerge(c, new, where) ==
    \E doc \in {memory, << >>} :
        /\ Reads(doc, memory, << >>)
        /\ ToWrite(c, Merge(doc, new), where)

CompactionExtracts(c, new) ==
    /\ pc[c] = "idle"
    /\ mined < MaxMined /\ mined' = mined + 1
    /\ ReadAndMerge(c, new, "idle")
    /\ OutOfSight(c)
    /\ UNCHANGED <<kvVars, day, commands, crashes, extracted, archived>>

\* The end of a turn: is yesterday extracted already?
TurnEnds(c) ==
    /\ pc[c] = "idle"
    /\ \E set \in BOOLEAN :
          /\ Reads(set, day \in marked, FALSE)
          /\ IF set THEN UNCHANGED <<pc, target>>
             ELSE Goto(c, "mark") /\ target' = [target EXCEPT ![c] = day]
    /\ OutOfSight(c)
    /\ UNCHANGED <<kvVars, day, commands, mined, crashes, next, after, entries, kept,
                   retired, shelf, extracted, archived>>

\* Mutant of Mark: the marker is left to an extraction that succeeds, and forgotten.
MarkIfEmpty(c) ==
    /\ pc[c] = "mark"
    /\ \/ Goto(c, "mine") /\ UNCHANGED <<marked, localVars>>
       \/ marked' = marked \cup {target[c]} /\ Finish(c)
    /\ UNCHANGED <<memory, backup, archive, bounds, history>>

\* The marker comes first, whether or not there is a digest to extract from.
Mark(c) ==
    /\ pc[c] = "mark"
    /\ marked' = marked \cup {target[c]}
    /\ \/ Goto(c, "mine") /\ UNCHANGED localVars
       \/ Finish(c)
    /\ UNCHANGED <<memory, backup, archive, bounds, history>>

\* The model is called; what it answers is merged.
Mine(c, new) ==
    /\ pc[c] = "mine"
    /\ extracted' = [extracted EXCEPT ![target[c]] = @ + 1]
    /\ ReadAndMerge(c, new, "dream")
    /\ UNCHANGED <<kvVars, day, commands, mined, crashes, shown, archived>>

\* The call fails, or its answer is no JSON object: no retry, no consolidation.
\* An answer without entries touches nothing, but consolidation follows.
MineNothing(c) ==
    /\ pc[c] = "mine"
    /\ \/ Finish(c)
       \/ Goto(c, "dream") /\ UNCHANGED localVars
    /\ UNCHANGED <<kvVars, bounds, history>>

Write(c) ==
    /\ pc[c] = "write"
    /\ memory' = next[c]
    /\ IF after[c] = "idle" THEN Finish(c) ELSE Goto(c, after[c]) /\ UNCHANGED localVars
    /\ UNCHANGED <<backup, archive, marked, bounds, history>>

\* A merge that fails is logged, and consolidation follows all the same.
MergeFails(c) ==
    /\ pc[c] = "write" /\ after[c] = "dream"
    /\ Fails
    /\ Goto(c, "dream")
    /\ UNCHANGED <<kvVars, day, commands, mined, lost, localVars, history>>

-----------------------------------------------------------------------------
(* Consolidation, consolidate.py:127-174.                                  *)

Dream(c) ==
    /\ pc[c] = "dream"
    /\ \E doc \in {memory, << >>} :
          /\ Reads(doc, memory, << >>)
          /\ IF Len(doc) > Threshold
             THEN /\ entries' = [entries EXCEPT ![c] = doc]
                  /\ Goto(c, "rewrite")
                  /\ UNCHANGED <<target, next, after, kept, retired, shelf>>
             ELSE Finish(c)
    /\ UNCHANGED <<kvVars, day, commands, mined, crashes, history>>

\* What the model may answer: some of the texts in order, the first one perhaps
\* reworded.
Rewrites(doc) ==
    LET texts == [i \in DOMAIN doc |-> doc[i].item]
        some == {Picked(texts, which) : which \in (SUBSET DOMAIN doc) \ {{}}}
    IN  some \cup UNION {{<<text>> \o Tail(part) : part \in some} : text \in Rewordings}

Rewrite(c, answer) ==
    /\ pc[c] = "rewrite"
    /\ LET cleaned == UpTo(answer, Cap)
       IN  /\ retired' = [retired EXCEPT ![c] = ToSet(cleaned) \cap Stale]
           /\ kept' = [kept EXCEPT ![c] =
                        Picked(cleaned, {i \in DOMAIN cleaned : cleaned[i] \notin Stale})]
    /\ Goto(c, "backup")
    /\ UNCHANGED <<kvVars, bounds, target, next, after, entries, shelf, history>>

\* The call fails, or its answer is no list: nothing is touched.
RewriteNothing(c) ==
    /\ pc[c] = "rewrite"
    /\ Finish(c)
    /\ UNCHANGED <<kvVars, bounds, history>>

\* Mutant of Backup: saves what the rewrite was made from only after archiving,
\* that is, skips it here.
BackupSkipped(c) ==
    /\ pc[c] = "backup"
    /\ Goto(c, "commit")
    /\ UNCHANGED <<kvVars, bounds, localVars, history>>

Backup(c) ==
    /\ pc[c] = "backup"
    /\ \E doc \in {memory, << >>} :
          Reads(doc, memory, << >>) /\ backup' = doc
    /\ Goto(c, "commit")
    /\ UNCHANGED <<memory, archive, marked, day, commands, mined, crashes, localVars, history>>

Commit(c) ==
    /\ pc[c] = "commit"
    /\ memory' = Rebuilt(entries[c], kept[c])
    /\ archived' = archived \cup retired[c]
    /\ IF retired[c] = {} THEN Finish(c) ELSE Goto(c, "archive") /\ UNCHANGED localVars
    /\ UNCHANGED <<backup, archive, marked, bounds, shown, extracted>>

ReadArchive(c) ==
    /\ pc[c] = "archive"
    /\ \E items \in {archive, {}} :
          Reads(items, archive, {}) /\ shelf' = [shelf EXCEPT ![c] = items]
    /\ Goto(c, "shelve")
    /\ UNCHANGED <<kvVars, day, commands, mined, crashes, target, next, after,
                   entries, kept, retired, history>>

\* Mutant of Shelve: the archive is written anew.
ShelveAlone(c) ==
    /\ pc[c] = "shelve"
    /\ archive' = retired[c]
    /\ Finish(c)
    /\ UNCHANGED <<memory, backup, marked, bounds, history>>

Shelve(c) ==
    /\ pc[c] = "shelve"
    /\ archive' = shelf[c] \cup retired[c]
    /\ Finish(c)
    /\ UNCHANGED <<memory, backup, marked, bounds, history>>

-----------------------------------------------------------------------------

\* A write raises, or the host drops the turn; what is written stays.
Crash(c) ==
    /\ pc[c] # "idle"
    /\ crashes + lost < MaxFaults /\ crashes' = crashes + 1
    /\ Finish(c)
    /\ UNCHANGED <<kvVars, day, commands, mined, lost, history>>

Next ==
    \/ Midnight
    \/ \E c \in Chats :
          \/ List(c)
          \/ \E n \in DOMAIN memory :
                Delete(c, n) \/ \E item \in Rewordings : Edit(c, n, item)
          \/ Reset(c) \/ WipeMemory(c) \/ WipeBackup(c) \/ WipeArchive(c)
          \/ \E new \in Extracts : CompactionExtracts(c, new) \/ Mine(c, new)
          \/ TurnEnds(c) \/ Mark(c) \/ MineNothing(c)
          \/ Write(c) \/ MergeFails(c)
          \/ Dream(c) \/ RewriteNothing(c)
          \/ \E answer \in Rewrites(entries[c]) : Rewrite(c, answer)
          \/ Backup(c) \/ Commit(c) \/ ReadArchive(c) \/ Shelve(c)
          \/ Crash(c)

Spec == Init /\ [][Next]_vars

-----------------------------------------------------------------------------
(* Properties.  The run that checks them has one chat.                     *)

Consolidating == {"dream", "rewrite", "backup", "commit", "archive", "shelve"}

\* Type correctness; a document never outgrows what merging and consolidation
\* write: no section has more than merge_managed() gives it, unless the whole is one
\* consolidation wrote, which is within its cap.
TypeOK ==
    /\ {memory, backup} \subseteq Seq(Entry) /\ archive \subseteq Items
    /\ marked \subseteq Days
    /\ day \in Days /\ commands \in 0 .. MaxCommands /\ mined \in 0 .. MaxMined
    /\ {crashes, lost, crashes + lost} \subseteq 0 .. MaxFaults
    /\ pc \in [Chats -> {"idle", "wipe", "rewipe", "wipebackup", "wipearchive",
                        "mark", "mine", "write"} \cup Consolidating]
    /\ target \in [Chats -> Days]
    /\ after \in [Chats -> {"idle", "dream"}]
    /\ \A c \in Chats : /\ {next[c], entries[c]} \subseteq Seq(Entry)
                        /\ kept[c] \in Seq(Items)
                        /\ retired[c] \cup shelf[c] \subseteq Items
    /\ \/ \A sec \in Sections :
             Cardinality({i \in DOMAIN memory : memory[i].sec = sec}) <= MaxItems
       \/ Len(memory) <= Cap

\* A day's digest goes to the model once, whatever fails and crashes on the way,
\* but for reads that lose its marker: the marker is set before the model is called
\* (consolidate.py:91-95).
ExtractedOnce == \A d \in Days : extracted[d] <= 1 + lost

\* The numbers the user sees are stable (persona.py:99, 125): but for consolidation and
\* a reset, which leaves no entry, nothing changes the order of the entries that stay, and the entry he deletes by the
\* number in the list just shown is the one that goes, and it alone, even where its
\* text occurs twice (persona.py:128-137).
Occurrences(doc, e) == Cardinality({i \in DOMAIN doc : doc[i] = e})
Place(doc, e) == CHOOSE i \in DOMAIN doc : doc[i] = e
Once(e) == \A doc \in {memory, memory'} : Occurrences(doc, e) = 1

KeepsOrder ==
    \A e, f \in ToSet(memory) :
        Once(e) /\ Once(f) /\ Place(memory, e) < Place(memory, f)
            => Place(memory', e) < Place(memory', f)

DeletesAsShown(c, n) ==
    \A e \in ToSet(shown[c]) :
        Occurrences(next'[c], e)
            = Occurrences(shown[c], e) - (IF e = shown[c][n] THEN 1 ELSE 0)

StableOrder ==
    [][ /\ lost > 0 \/ (\E c \in Chats : pc[c] = "commit") \/ KeepsOrder
        /\ \A c \in Chats : \A n \in DOMAIN memory :
               shown[c] # Unseen /\ Delete(c, n) => DeletesAsShown(c, n) ]_vars

\* Whatever consolidation takes out of the document, its texts reworded, merged,
\* archived or forgotten by the model, is in the backup when the new document is
\* written (consolidate.py:131-133); a crash on the way takes out nothing.
DroppedIsBackedUp ==
    [][ (lost = 0 /\ \E c \in Chats : pc[c] \in Consolidating)
            => ToSet(memory) \ ToSet(memory') \subseteq ToSet(backup') ]_vars

\* What consolidation takes out as long past is in the archive for good, through all
\* later consolidations (consolidate.py:160-168; docs/plan-0.6.0.md:126, "moved to
\* MEMORY.archive.md (not deleted, can be browsed)") until the user has everything
\* reset, unless a read was lost, a write failed or a turn died: between the new
\* document and the archive that leaves them in the backup only, which the next
\* consolidation overwrites.
ArchivedKept ==
    (\A c \in Chats : pc[c] = "idle") /\ lost + crashes = 0 => archived \subseteq archive
=============================================================================
