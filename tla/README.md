# Verification of my_claw

my_claw is an agent plugin: a user's message starts one invocation, which first
answers whatever can be answered without the agent (approvals, memory commands,
onboarding, pending questions), then runs a tool-calling loop over a language
model, and finally writes history and memory. Everything that outlives an
invocation is in a key-value storage without transactions, which other
conversations, of the same user or not, read and write at the same time.

This directory holds TLA+ modules translated from that code, TLC configurations
that model-check them on small instances, and proofs that TLAPS checks for every
value of the constants. File and line references are to the source at this commit.

## 1. The system: an inventory

| part | state | operations |
| --- | --- | --- |
| agent kernel, `core/kernel.py` | round number, message list, final text, counters of empty and fake rounds | `run_iter`: one round per iteration; `_execute_tools`: the calls of a round, in order |
| loop guard, `core/session.py` | last signatures, last (signature, digest) pairs, signatures warned about | `observe` |
| message list and compaction, `core/context.py` | messages, summary | `compact_if_needed`, `_summarize`, `_extract_memory` |
| invocation shell, `tools/my_claw_tool.py`, `adapters/dify/emitter.py` | texts in the emitter's buffer, messages handed to the host | `_invoke` (drains the buffer), `_run` (preflight, agent, `finally`, deliveries) |
| approval, `my_claw_tool.py:248-333`, `builtin.py:118-135` | a held command per conversation, and one for all runs without a conversation id; per user the granted executables (KV) | hold, remind, deny, allow once, allow always, run |
| onboarding, `my_claw_tool.py:335-366` | per user a stage and the documents with the name (KV) | greet, ask again, take a name, reset |
| clarification, `core/clarify.py`, `ask_user` | one pending question with its misses (KV), per user a history of picks (KV) | ask, match, fold, miss, expire, answer from history |
| persona and managed memory, `core/memory/persona.py`, `commands.py` | MEMORY.md as sections of entries (KV) | list, delete N, edit N, merge, reset |
| extraction and consolidation, `core/memory/consolidate.py` | a marker per day, MEMORY.bak.md, MEMORY.archive.md (KV) | `daily_extract`, `consolidate` |
| digests, `core/memory/service.py` | a file per user and day, a marker per app (KV) | `append_digest`, `recent_context`, `gc` |
| turn history, `core/context.py:133-153` | the last turns of a conversation (KV) | `load`, `append` |
| workspaces, `core/workspace/workspace.py`, `my_claw_tool.py:369-384` | session directories with their modification times, a directory per conversation (KV) | open, upload, write, export, rotate, read back and deliver |
| skill packs, `tools/skill_manager_tool.py`, `core/skills/packages.py` | directories under the skills root | install, list, remove N, download N, dependencies |
| model client, `adapters/dify/llm_client.py`, `core/llm.py`, `core/usage.py` | the answer received so far, the sum of the usage of an invocation | `invoke_round`, `invoke_text`, `collect_round`, `split_think_tags`, `record_chunk` |
| the rest | none, or derived | schemas, policies of commands, web fetch, prompt, logging, text parsers |

How the parts interact:

* `_invoke` drives `_run`, a generator. A phase answers by yielding messages and
  returning, so the order of the phases decides who sees a message: skill
  management, approval, memory commands, onboarding, pending question, agent.
* The kernel calls the model, the compactor and the tools. Tools talk back
  through the message list, through `ctx` (artifacts) and by writing keys that
  only the *next* message's preflight reads: a held command, a pending question.
* The emitter buffers texts that `_invoke` drains whenever the generator yields.
* The `finally` of `_run` writes history, digest and, once a day, memory, and
  collects old digests; a compaction in the middle of a turn merges into the same
  MEMORY.md. The next turn replays the history and has the digests in its prompt.
* Skill packs are directories which all conversations share: one may install or
  remove a pack while another downloads it or installs what it needs.
* The model client serves the kernel (rounds) and compaction, extraction and
  consolidation (plain calls); one meter counts what all of them used.
* The storage adapter answers nothing when a read fails and raises when a write
  fails. Reading nothing usually means "start anew": grants, questions, history
  and documents are forgotten by a failed read that is followed by a write.

What is hard:

* *Concurrency.* Each KV update is a read and a write with other work in
  between, up to a call of the model. Conversations of one user share grants,
  memory and the onboarding state; the pending question is shared by all, and a
  held command by all runs without a conversation id.
* *Failure.* A turn may die at any of these accesses, and even after it has answered,
  when its files are read. The code orders its writes
  for that: clear the held command before running it, clear the question before
  folding it, marker before extraction, backup before commit before archive.
* *Order.* Six phases compete for a reply; a round is cut short by a question, an
  approval or the loop breaker; the emitter's buffer delays texts.
* *Bounds.* Round limit, loop guard windows, compaction budget, caps on entries.

What makes each part correct is stated by the properties of section 4. `PROJECT.json`
lists each hazard with its line and the properties aimed at it.

## 2. Modules

| module | models | role |
| --- | --- | --- |
| `LoopGuard` | `LoopGuard.observe` | operators on the guard's state, used by the monitor and by the kernel |
| `LoopBreaker` | | abstract: a guard that never forgets a call |
| `LoopMonitor` | a guard over the calls of a run | implements `LoopBreaker` |
| `Conversation` | messages, their weight, the cut of a compaction | operators, used by the kernel |
| `AgentTurn` | | abstract: one outcome, told once, taken back only for files that cannot be handed out, always reached |
| `Kernel` | the kernel, compaction, `finally`, buffer and deliveries of one invocation | implements `AgentTurn` |
| `ApprovalProtocol` | | abstract: a chat runs only what it has seen waiting under its key, once per yes |
| `Preflight` | the phases before the agent, for several chats and users over one storage, with what the agent leaves for the next message | implements `ApprovalProtocol` |
| `ManagedMemory` | the entries of MEMORY.md | operators: merge, delete, edit, rebuild |
| `Memory` | commands, reset, compaction's extraction, daily extraction and consolidation over MEMORY.md, its backup and archive | |
| `Workspaces` | session directories, their rotation, files and exports, for several conversations over one disk | |
| `SkillStore` | the skill packs: install, remove and download in their steps, and dependencies, for several conversations over one disk | |
| `Records` | history, replay, digests, recall and collection, for several turns at a time of several users | |
| `ModelClient` | calls of the model, from the chunks to what is shown, and their usage | |
| `LoopMonitorProofs`, `KernelProofs`, `PreflightProofs`, `MemoryProofs`, `WorkspacesProofs`, `SkillStoreProofs`, `RecordsProofs`, `ModelClientProofs` | | theorems and proofs |
| `MCLoopMonitor`, `MCKernel`, `MCPreflight`, `MCMemory`, `MCWorkspaces`, `MCSkillStore`, `MCRecords`, `MCModelClient` | | constants of the instances TLC checks |

### LoopGuard, LoopMonitor

`guard` is the record of `_sigs`, `_sig_results` and `_warned`; `Observe` appends,
trims, adds the warning; `WarnedNow` and `ShouldStop` are the pair `observe`
returns. `calls` is a history variable. Signatures and digests are model values.

### Kernel

`pc` says where the generator stands: `head` (top of a round), `llm` (messages
compacted, model about to be called), `tools` (`calls` holds those of the round that
are left), `persist` (`finally`), `report` (the exception handler of `_invoke`),
`deliver`, `done`. `BeginRound` contains the compaction, as `run_iter` calls it at the
top of every round; `Exhaust` and `TimeOut` are the two ways not to begin one. The
disjuncts of `ModelRound` are the kinds of answer: the call fails, tool calls,
nothing, a fake text, a final text, of which perhaps nothing is visible (`ReplyOf`). `Deliver`
either hands out what can be read of the files, or fails and goes on to `report`. Those of `ToolStep` are the branches of
`_execute_tools`: unknown tool, exception, question, question answered from the
history, approval, plain return with its warning or its stop. `pending` is the
emitter's buffer, `shown` what the host got. A message is a role, a weight and the
identity of its call; a text is one of the kinds the code tells apart. Which tool
does what is given by sets of signatures.

### Preflight

One process per chat; its `pc` names the phase that looks at the message next.
`held`, `grants`, `stage`, `named`, `asked`, `picks` are the keys of the storage; `KeyOf` says under which
key a chat's commands wait, its conversation or the one of all runs that have none. `ReadHeld` and the verdict after it
(`Remind`, `Deny`, `Accept`) are steps of their own, so that a turn under the same key may read in between. And
`taken`, `readGrants`, `readAsked` the local variables that live across two accesses, so
that another chat or a crash may come between them. A message is a record of what
the phases can tell of it: a command, a verdict, the option it picks, whether it reads
like a name. A question has a topic; `Similar` says which topics the code takes for
the same question, and `picks` is the history of choices, each a topic and a position,
of which an automatic answer wants two alike (`Repeated`); which of several it takes is `AutoPick`.
`HoldCommand`, `PutQuestion`, `Ask`, `AskAndAnswer` are what
the agent does to these keys; the rest of the agent is in `Kernel`. `ran`, `given`, `folded`,
`passedBy`, `told` record what happened, for the properties; so do `offered`, the command a chat was last
shown, `slip`, what went wrong with the one that waits, and `strayed`, the questions another chat has read.

### ManagedMemory, Memory

A document is the sequence of its entries, each with its section, in the order
`managed_entries()` numbers them. Items that differ in white space or case only are
one model value. What a merge or a consolidation writes is stated by the places that stay and their
order (`Written`), section after section as they first occur (`Begin`). `Memory` has one process per chat of the user. A command or an
extraction reads and computes in one step and writes in another (`ToWrite`, `Write`);
`Reads` lets any read answer nothing, within the bound on faults. `TurnEnds`, `Mark`, `Mine` are
`daily_extract` up to its merge; `Dream`, `Rewrite`, `Backup`, `Commit`, `ReadArchive`,
`Shelve` are `consolidate`, one step per access. `Reset` and its three `Wipe...` steps empty
document after document, each of which may fail and be passed over. `Rewrites` is what the model may
answer: some of the texts, the first perhaps reworded. `shown`, `extracted`, `archived` are history; `archived` starts anew when the archive is emptied.
`should_consolidate` and the first read of `consolidate` are one step: nothing of the
first is used after the second.

### Workspaces

One process per conversation. `existing` are the session directories that exist, and `later` is
what the rotation can tell of their modification times: for each, the ones changed after it. A time
changes when a directory is made or gets a new entry at its top (`Touch`). What the rotation
removes (`Overdue`) are the directories after which as many others as are kept were changed. A turn finds a directory (`ReuseDir`, `NameDir`), opens it, and rotates
in three steps, `ListDirs`, `Sort`, and one `RemoveDir` per directory; between them other turns make,
change and remove directories, and `SortFails` is the exception of `getmtime`. In the agent's phase
tools write and export; every tool makes the directory again when it is gone. Then the exports are read back one by
one: one that is gone is skipped (`SkipExport`), one that goes between the look and the opening ends the turn
(`FindExport`, `OpenFails`), and nothing is handed over before all are read (`Deliver`). `newer` and
`missed` are history.

### SkillStore

One process per conversation, which carries out one command at a time. `store` maps a
directory to its files, and each file to the archive it came from. An install is one `Clear`, then one `Extract` per file, then `Validate`, for each archive uploaded;
a download is one `AddFile` per file; `Depend` is the start of pip and `PipSucceeds`, `PipFails` its end. `libs`
are the packages installed; what pip is asked for (`Asked`) are the mere names among the first `PyCap` requirements of a pack.
`Break`, `Refuse`, `Stuck`, `Die` are the failures; a removal without handling of errors (`Discard`) may leave files behind. A
`Malformed` manifest ends the install that brought it, stays, and ends every list (`Listable`). A list is the set of packs it shows, and a number means the pack of that rank (`Numbered`), as the code sorts by name.
What a user has seen is `shown`, and `outdated`
says whether it may have changed since; `touched`, `retried`, `mixed` are history too: they name the interference which
excuses a result.

### Records

Two turns run at a time, of any conversation. `Begin` reads what a turn replays and recalls;
the records after it follow the order of the `finally` block: `LoadHistory`, `SaveHistory`,
`LoadDigest`, `SaveDigest`, `ReadMarker`, one `Collect` per day of the window, `SetMarker`. `Replay` is the
list comprehension of `my_claw_tool.py:175-178`, position by position. `NextDay` may come
between any two of these steps, once per turn. A text is its turn. `told` and `logged` are what was saved, `torn` names
the conversations and days for which a turn wrote over something it had not read, since another was faster or its read
failed. `Nameless` are the workflow runs without a conversation id.

### ModelClient

One call at a time. A `Chunk` may bring content, reasoning aside, a tool call and a usage report in
any combination; a whole message is composed out of the code's sight and arrives at once. `SplitThinkTags`,
`VisibleText` and `CollectRound` are the functions of `llm.py` on sequences of tokens, which are numbered and so tell
one word from another. `Kernel` takes the round that comes out as one of its kinds: tool calls, empty,
or a text. The provider is assumed to close only the regions it has opened.

Mutants stand next to the definition they change, named for the bug; no
specification uses them.

## 3. Assumptions, bounds, fairness

The limits of the code are constants with named assumptions (`GuardLimits`, and so
on), as weak as the code justifies; TLC evaluates them, the proofs use them. Bounds that
exist for TLC only are marked "bound" where they are declared: `MaxCalls` (calls a
monitor sees), `MaxTurns` of `Preflight` (messages per chat), `MaxFaults` (failed reads,
failed writes and crashes in a run), `MaxDays`, `LastDay`, `MaxCommands`, `MaxMined`, `MaxOps` and `Batches` (commands,
and uploads of one), `MaxTokens`. (`MaxTurns` of
`Kernel` is the code's `max_tool_turns`, 50.) `LoopMonitor`, `Preflight`, `Memory`,
`Workspaces`, `SkillStore`, `Records` and `ModelClient` stop when their bound is used up, so their runs do not check deadlock; `Kernel` ends in a
step that repeats, and its run does.

Fairness is assumed in `Kernel` only: `FairSpec == Spec /\ WF_vars(Next)`. An
invocation is one generator which the host drives to its end; the model and the
tools return or raise, for each call has a timeout (120 s for commands, the
provider's for the model). So a step that can be taken is taken. Nothing is assumed
of users or chats: a held command or a pending question may wait forever.

## 4. Runs

| run | instance | question |
| --- | --- | --- |
| `loop_guard` | 2 signatures, 2 digests, 9 calls; window 4, warn 2, stop 3, no progress 4, lists of 6 trimmed to 4 | does trimming ever change a verdict, and does a warning precede every stop? |
| `kernel` | 3 rounds, batches of 2 calls, all kinds of texts, visible or not, and failures up to the last file, a fresh and a replayed opening | one closing text, answered calls, evidence kept, liveness |
| `approval` | 3 chats of 2 users, two of them under one key; 3, 2 and 1 messages, 5 in all; 2 executables, 1 fault | commands run on a yes to them only, under races and crashes |
| `clarify` | 2 chats of 2 users (4 messages, 1 message; 4 in all), 2 topics, a history of 2 choices, 1 fault | a question is folded once and let go of; only what was chosen twice is answered automatically |
| `memory` | 1 chat, 2 days, 4 texts in 3 sections, 2 commands or resets, 1 extraction by compaction, 1 fault | once a day, stable numbers, nothing dropped without a backup, nothing archived lost |
| `workspaces` | 2 conversations, 3 turns each, 1 directory kept, 1 fault | does a rotation spare the newest directory, until its files are read back? |
| `skills` | 2 conversations, 2 commands each, 2 directories, 5 archives, one of them invalid, one that does not parse and four for one directory, batches of one or two, 1 fault | are packs whole, reports true, numbers as shown, downloads of one moment, and is there what pip was asked for? |
| `records` | 2 users, one of them nameless, 2 turns at a time, 2 each, over 2 days; histories, days and prompts of 2 or 3 turns; a window of 2 days, 1 fault | what was told is replayed, logged and recalled; what is old is collected |
| `model_client` | 3 calls, answers of 7 tokens, 2 currencies | every word in its place, the answer shown, the usage summed |
| `kernel_orphan`, `clarify_global_key`, `replay_pairs` | as above, reduced | expected counterexamples, section 6 |

*The bounds are enough to meet the interesting cases.* Nine calls pass the trimming
length of six by half and fill every window twice. Three rounds are a loop whose
first, middle and last rounds differ; the limits keep their order (warn before stop,
stop within the window), a result weighs more than half of the budget, so that
compaction happens between the rounds, and two equal calls in a batch reach the stop
inside a round. Two chats of two users under one key, and one of the first of them with a conversation of its own, suffice for
a command read and run twice, a grant lost to a race, a
verdict after a crash, and a newer command in the place of a held one. Four
messages cover asking, two misses or a miss and a choice, and a second
question, with a message of another chat in the place of any of them. With sections of two entries and a threshold of two, the document
overflows a section, is consolidated on the first day and again on the second; a
rewording may produce a duplicate entry before the user deletes one by number. With
one directory kept, every second conversation evicts the first; three turns each let a
rotation with an old listing meet a directory that was removed, made again, or reused. Three conversations
with one turn each, and one or two directories kept, were checked too; they show nothing else.
Two commands per conversation let an install meet another install of the same directory, a removal, a
download, pip, and itself, with archives that are valid, invalid, or cannot be parsed; one requirement is no mere name and one is
beyond the cap of two; an install of two uploads
may name one directory twice. Two turns at a time are enough for a lost update, two per worker for a full history
and a full day; midnight falls between any two steps, and a digest of before the first
day is due from the start. Seven tokens hold two regions with words before, between and after
them, a region in a region, and regions left open.

What the properties say (each is stated in its module, next to its definition):

* `LoopMonitor`: `TrimInvisible` and `ImplementsBreaker`, the trimmed guard cannot be
  told from one that forgets nothing, warnings included; `NoProgressSubsumed`, with limits
  ordered like the shipped ones the no-progress rule never decides.
* `Kernel`: `ImplementsTurn` (refinement of `AgentTurn`, with its liveness);
  `NothingAfterClosing`;
  `ModelSeesAnsweredCalls`; `EvidenceSurvives`, the fake-text guard never forgets a tool ran;
  `SavedAsTold`, the user gets one closing text at most, over the branches that emit one, an error besides exactly
  when the invocation failed, and the history keeps the text, which was shown unless nothing of it is visible.
* `Preflight`: `ImplementsApproval`, a chat runs what it has read under its key, once per yes, and, alone on the
  key, what waits there; `GrantsWereGiven`; `AcceptedAsShown`, in a conversation of its own a yes is about the
  command shown last; `FoldedOnce` and `QuestionLetGo`, of a question that only its own chat has
  read; `AnsweredAsChosen`, an automatic answer repeats a position the
  user has chosen twice before for a similar question.
* `Memory`: `ExtractedOnce`; `StableOrder`, a number means what the last list said; `DroppedIsBackedUp`; `ArchivedKept`, through all
  consolidations until a reset, but for a failure in one. They
  are about a user with one chat. With two, an entry merged between the backup and the
  commit of the other chat is lost, numbers move, and both may extract.
* `Workspaces`: `FreshExportsDelivered`, what a turn exports from a directory it made itself
  is delivered unless as many others as are kept were changed since.
* `SkillStore`: `PacksWhole`, a pack never has the files of two archives unless its installs overlapped, broke or met a
  removal; `ReportedIsThere`; `RemovedAsShown`, a number means what the last list said; `DownloadIsOneMoment`;
  `DependenciesServed`, what pip was asked for is there. Each names the interference by which it may fail.
* `Records`: `HistoryIsTold`; `DigestIsLogged`; `CollectorServed`; `TodayRecalled`. The exceptions are
  lost updates and lost reads, and they too are needed.
* `ModelClient`: `AnswerShown`, all words outside of regions reach the user, in order, and none is hidden by a region left open;
  `EveryWordOnce`, text and reasoning share nothing and lose nothing; `UsageTold`.

Every property of a passing run has a mutant of the code's model that breaks it
(`PROJECT.json`, "mutants").

## 5. Theorems

For every value of the constants that satisfies the named assumptions, and in each case by an
inductive invariant, which TLC checked on the instances of section 4 before it was proved:

* `LoopMonitorProofs!GuardTypeOK`, `TrimmingInvisible`, `GuardImplementsBreaker`. The
  invariant says that both lists agree with the whole history on every age below
  `TrimTo`. Appending shifts ages by one, and trimming drops only ages no window
  reads, since `GuardLimits` puts `Window` and `NoProgress` within `TrimTo`. Lists that
  agree are judged alike, which gives the step simulation. `NoProgressAddsNothing`: the two
  lists are lists of the same calls, so identical pairs are repetitions of one signature.
* `KernelProofs!KernelTypeOK`, `ClosingEndsTheRun`. The type invariant is not
  inductive: the counters of empty and fake rounds are bounded only because the loop
  leaves when they reach their limit, and `emitted` excludes further rounds only
  because every branch that sets it leaves the loop. `IInv` adds three conjuncts:
  `LimitsLeft`, while the loop runs another empty or fake round is still affordable;
  `Undecided`, while it runs there is no final text; `EmittedIsFinal`, a closing text
  is emitted only outside the loop.
* `KernelProofs!HistoryAnswered`. Between rounds every call has its one result, within a round
  the calls left are exactly those without one (`HistoryInv`, with `OpenIds`), and the results come
  later than the calls. A compaction keeps a suffix, which drops calls before their
  results. Numbers of rounds grow, so that no new call has the name of an old one.
* `KernelProofs!ReplyIsTheOneTold`, `RunImplementsTurn`. `TextInv` counts the closing texts over what
  was shown and what is buffered, by phase: none while the loop runs, the one of the outcome from then
  on, an error after it once a failure has been reported, and what is saved is that outcome. Each step then maps to a step of `AgentTurn` or to none. This
  is `Init` and `Next` of that specification; its fairness is left to TLC.
* `KernelProofs!EvidenceIsKept`. `EvidenceInv` places a tool result near the end of the messages: after it come notes of
  the kernel only, no more than the empty and fake rounds counted so far (`EvidenceAt`), and `IInv` keeps those
  below three each. So four notes at most follow the last result. The hypothesis is that they weigh less than what a
  compaction keeps (at most 104 tokens against 2500, `kernel.py:80,104`, `context.py:50`); then the cut, which
  moves back until it has that much, is never behind the result. The weight of a list is the number of its tokens
  (`Total`), so that finite sets bound it and no induction is needed. Without the hypothesis the property is false.
* `PreflightProofs!GrantsBacked`, `ApprovalImplementsProtocol`. Neither follows from its own
  statement. The invariant adds `TakenWhileDecided`, that a chat holds a copy of a command exactly while it
  decides on it or runs it, which is what waits under its key as long as nobody shares the key, and `Backed`,
  that what was read of the grants, and what is about to join them, was given: without
  it a write that races with another chat could not be justified. Every step is first
  shown to be of one kind, as far as approval sees it: nothing, a drop, a hold, or one of
  the approval's own; each kind keeps the invariant and maps to a step of the protocol.
* `PreflightProofs!PreflightTypeOK`, in three parts: storage (`StoreOK`), turns (`TurnOK`), users (`UserOK`).
  `YesIsAboutWhatWasShown` needs `HeldAsShown`: a command that waits for a chat alone on its key is what that
  chat was shown last, in every phase, unless the turn died that left it; and as long as no read of it failed, only lists and
  errors were told since.
  `AnsweredByPrecedent` needs `Backing`: the remembered choices, and those a turn has read, can be
  matched one to one with answers that were given, so that two alike mean two answers.
* `PreflightProofs!QuestionsFoldOnce`, `ChangingTheSubject`, for any number of chats under the one key. `Questioned` covers the
  question in the storage and the copies that turns have read, which may be older: as long as no other chat than its own
  has read it, such a question has not been folded, and the messages that passed it by are no more than its misses and the
  failures (`Sound`). What has been folded is older than any question its chat may yet ask.
* `MemoryProofs!DigestMinedOnce`: `ExtractedOnce` for a user with one chat. The
  invariant counts a digest that was looked up and not yet extracted as extracted
  (`Due`), and needs both halves: a marked day has at most one more extraction than
  lost reads, and a day without a marker has no more than lost reads.
* `MemoryProofs!DroppedTextsBackedUp`, `ArchiveIsForGood`, for one chat too. `Safe` follows a consolidation
  through its last phases: before the commit the backup is the document, and after it what was archived is in the archive
  or on its way there, and nobody else writes the archive meanwhile; a reset empties both at once.
* `MemoryProofs!MemoryTypeOK`, for any number of chats: whatever is in the storage or about to be written is `Bounded`,
  that is, no section is longer than merging leaves it, or the whole is within the cap of consolidation. `NumbersStable`,
  for one chat: entries of a section stand together (`Together`; without it a merge would move them when it writes
  sections one by one), a document about to be written keeps the order of the one in place unless a read was lost, and a
  list still in sight is the document (`OrderInv`). Both rest on lemmas about `ManagedMemory`: what is written is the places
  that stay, each at its rank (`RankedIs`, `WrittenIs`), so a merge, a deletion and an edit are told by ranks
  (`MergeBounded`, `MergeKeepsOrder`, `DeleteIs`, `EditIs`).
* `WorkspacesProofs!WorkspacesTypeOK`, `RotationSparesFresh`. Directories are told apart by the turn
  that named them, so a directory just named is in no rotation (`Named`). Whatever is changed after it
  is noticed by its turn (`Ranked`); when a rotation finds it overdue, as many others as are kept
  were noticed; until then nobody is about to remove it, and what was exported is there until it has been read back (`Spared`).
* `SkillStoreProofs`: `SkillStoreTypeOK`, and one invariant for each of the five properties. Each follows one operation through its phases and
  says that what it has gathered is still what is on the disk, or that the history names the one who interfered:
  `ShownInv` for the numbers, `ReportedInv` for installs, `ZipInv` for downloads, `PipInv` for dependencies. The one for `PacksAreWhole` covers all installs of a pack at a time.
* `RecordsProofs`: `RecordsTypeOK`; `HistoryKept` and `DigestKept`, whose invariants (`HistoryInv`, `DigestInv`) say
  of every turn between its read and its write that what it read is still there or that it was overtaken;
  `DigestInv` needs `Timely` too, which orders the days a turn has seen, so that no digest in use is old enough to be collected. `TodayInPrompt` follows from it; and `CollectionServes` (`GcInv`),
  that no digest comes back behind a collection: a turn writes of its own day and the one before at most.
* `ModelClientProofs!UsageIsTold`. Bills are numbered, and `whole` names old numbers only, so a new one is not
  among them; the currencies of the counted bills grow by one at a time.
* `ModelClientProofs!AnswerIsShown`, `WordsAreKept`, `ClientTypes`. Content may be of any length, and the library's
  induction over sequences cannot be used, so texts are compared without it: tokens are numbered as they come, a text
  whose numbers grow is told by its set of tokens (`SameText`: the lowest place where two differ leads to a contradiction),
  and picking, cutting and joining give such texts, with sets that can be named. For this the model picks
  tokens by their rank (`Picked`). The invariant (`ClientInv`) says that no prefix of the content closes more than it opened
  (`Sound`, the assumption about the provider), and that an answer is `Faithful` to it: its words are all those
  that came, once, with those outside of regions in the text, and tags in the text are those of the content or only closing ones.

What they assume: the named assumptions of the modules, which TLC evaluates, and nothing else but the single chat of a user (`MemoryProofs`)
and the weight of the notes (`KernelProofs`), where the statements of the theorems name them. Those assumptions say, besides the order of the limits,
that the openings of a turn hold neither calls nor results (`KernelConstants`; the code replays texts only,
`my_claw_tool.py:173-181`), that there are finitely many packs (`SkillStoreConstants`), and that markers like
`None` are no values.

Model-checked only:

* Liveness: `ImplementsTurn` promises that a turn comes to its end, under the fairness of section 3. Liveness and
  `ENABLED` are out of this prover's reach.

## 6. Where the code differs from its documentation

Three are runs that expect a violation; the trace shows how.

1. *Orphan results* (`kernel_orphan`). `kernel.py:127-128` requires a call before its
   results; `_compact` (`context.py:67`) cuts by weight alone and may start the kept
   tail with a result. The repairing rule is absent, and so is a test of it.
2. *One question for all* (`clarify_global_key`). `docs/plan-0.6.0.md:43` keys the pending
   question by conversation; `clarify.py:15` has one key.
3. *Replies to other questions* (`replay_pairs`). A stored turn is a question with its reply;
   `my_claw_tool.py:175-178` takes the question of the first, the reply of the second, and so on, where the comment
   above it promises the recent turns.

Others met on the way, which no run states:

* *Silent stops.* A timeout, the loop breaker, three empty rounds and the files-only stop set the
  final text and emit nothing, against `kernel.py:9`. The history keeps the text as the reply.
  `AgentTurn` therefore demands a closing text of answers, questions, held commands and failures only.
* *The wrong original task.* `ask_user` (`builtin.py:331-338`) takes the last user-role message that does not begin with
  a certain character; it may be a note of the kernel or a summary.
* *Archived, and gone.* Stale experiences leave MEMORY.md (`consolidate.py:161`) before they reach the archive
  (166); a failure in between leaves them in the one backup, which the next consolidation
  overwrites, against `docs/plan-0.6.0.md:126`.
* *Commands of skills never run.* `builtin.py:221` promises an interpreter for python and the collection of produced files.
  `run_skill_command` replaces `python` by an absolute path, which `exec_policy.py:132-133` denies; anything else that is allowed
  meets a `NameError` for `list_dir` (`builtin.py:252`), which is not imported.
* *A key for strangers.* Runs without a conversation id hold their commands under one key, "anonymous"
  (`my_claw_tool.py:260`): the "1" of one user accepts what another user was shown. The command is read (290) and the key cleared (310)
  in two calls, so two such turns, or two of one conversation, may run it twice. `ApprovalProtocol` therefore promises once per yes,
  and what waits only to a chat alone on its key.
* *Saved, and not shown.* An answer nothing of which is visible is the final text and counts as emitted, and nothing is
  shown (`kernel.py:224-228`).
* *An error after the answer.* An exported file that vanishes or cannot be read between `isfile` and `open` (`workspace.py:66-69`)
  makes the invocation fail: an error text follows the answer (`my_claw_tool.py:57-59`), and the other files are not delivered.
* *Dependencies that nobody asked for.* The message that dependencies are installed (`skill_manager_tool.py:172`) is told after `pip` got the bare
  names among the first thirty requirements (154, `packages.py:151`); `requests>=2` is never among them.
* *A malformed manifest is no verdict.* `frontparse.py:13-14` promises that a pack "is reported invalid"; `parse_manifest` lets the
  exception through (`packages.py:131`). A failed install leaves its directory, every list fails from then on, and so does every turn of the
  agent, whose prompt lists the packs (`prompt.py:35`, `my_claw_tool.py:189`), until the pack is removed.
* *Removed, it says.* `rmtree` ignores errors (`skill_manager_tool.py:196`), and the removal is told anyway.
* *Undone resets.* A reset (`persona.py:54-64`) during a consolidation of another chat is undone by its writes (`consolidate.py:160-167`).
* *Questions nobody saw.* `ask_user` writes the question before the kernel shows it (`builtin.py:345`). When it is answered automatically, or its turn
  dies in between, it stays, and the next message of anyone may answer it.
* *Positions, not options.* Automatic answers count positions over similar questions, not the options that stood there,
  and not in a row (`clarify.py:150-168`).
* *One collection for all.* The marker of the collection is per app, the digests per user (`service.py:79`): who is never the first
  of a day to end a turn keeps his digests. The window is `KEEP_DAYS*12`, its docstring says `*2`.
* *An answer in a region left open.* `llm.py:15-17` says that it can never be swallowed; `split_think_tags` makes it
  reasoning, the text is empty, and the kernel asks again. And usage outside of `delta`, that of whole messages, is never counted:
  `record_response` is called by nobody.
* *One identity for all.* IDENTITY.md is per app, and onboarding writes the user's name into it
  (`my_claw_tool.py:358`): it is the name of the last user who told one.

## 7. Plan

Done, in this order: loop guard, kernel, preflight, memory, workspaces, skill store, records, model client. Left:

1. `Kernel` over `Records` and `ModelClient`, in place of its constants `Openings` and the kinds of its rounds.
2. `Memory` with two chats as a run of its own, once a document of the repository is
   found to promise something about it.

## 8. Not modelled, and why

String work (front matter, command phrases, similarity of questions,
wording) is data to these properties: its result is an input. The classification of
command lines, web fetch, prompt assembly, logging and packaging keep no
state that a property depends on. Parts of an answer that are no text are passed on as they are.
An archive that is no zip and a download that fails are one failure. The free text of MEMORY.md above its managed
entries is carried along by every write and is not modelled; a failed read in
`_write_managed` would drop it. Workflow runs without a conversation id share one session
directory and are not among the conversations of `Workspaces`. Time is a free choice: a deadline may have passed
whenever the code looks, a question may have expired.
Calls without a user id, whose documents are those of the app (`persona.py:33-36`), are left out, and so are the tools that write USER.md
(`update_persona`) and the onboarding that is skipped. Commands of the agent that delete a file it has exported are like a failed read.
A requirement with an empty name, which makes `pkg_version` raise, is left out. `run_skill_command` never changes any state (section 6).
`_now_cst` of `service.py` and the local clock of `consolidate.py` may disagree on which day is
over; the models have one calendar.
