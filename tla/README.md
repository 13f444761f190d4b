# Formal models of kols

kols is a chat client over a peer-to-peer protocol library: each member has a
store of plain files per network, a background *node* that talks to peers, and
one or more processes (a window, one-shot commands) that read and write the same
store. These modules model the parts of it whose correctness depends on
interleavings, crashes, clocks and limits, check them with TLC on small
instances, and prove the central properties with TLAPS for every instance.

The sources are under `crates/`; the protocol library (governance log, MLS group,
transport) is a dependency and appears only as the code here uses it.

## 1. The system

| Component | Code | State | Operations | Talks to |
|---|---|---|---|---|
| Projection of a channel | `kols-node/src/store.rs`, `kols-store` | record files, arrival log, SQLite rows, folds row | `put_record`, `load` → `fold_into`, `rebuild_arrivals`, `forget` | written by node and commands, read by the window every 2 s |
| Own log and publishing | `executor.rs` `write`, `readings.rs`, `chat.rs`, `serve.rs` `publish_own_logs`, `kols-core/src/log.rs`, `segment.rs` | own-readings index, records, published-through mark, segment chain | write, note, prune, replay, seal, publish, mark, re-announce | writers in any process; the node publishes |
| Node claim | `store.rs` `hold_node`, `NodeClaim`; `serve.rs` | claim directory, owner token, heartbeat, saved MLS group | take, wait, beat, lose, release | one node per network and machine |
| Governance store | `store.rs` `append_entry`, `replayed`, `lock`; `executor.rs`; `serve.rs` | entry files, tally, lock directory, a cache per handle, the node's log | govern, adopt, persist, answer a key or a join | commands, the window, the node, peers |
| Backfill | `serve.rs` `request_foreign_segments` … `absorb_chain`; `store.rs` wants, segment links | wants, segment links, fetch queue | ask, fetch, absorb, resolve, retire | peers' author logs |
| Replica duty | `replica.rs`, `serve.rs` `duty_pass`, `store.rs` duty | duty list, at-risk marks, census, budget | take on, census, shed, evict, repair | peers' ledgers |
| Admission | `serve.rs` `admit_redeemers`, `join.rs` | waiting room, conversation members | answer a join, admit, make Founder | governance store |
| Epochs | `serve.rs` `exclude_removed_members`, `catch_up_epochs`, `persist_*` | rotation entries, keyring, group | rotate, deliver, save three files | governance store, node claim |
| Conversations: arranging, sleep, knocks | `dm.rs`, `nodes.rs` `settle_sleep`, `store.rs` 1660–1910, `serve.rs` 4130–4375 | offers, requests, activity stamps, recorded sleeps, owed knocks | offer, accept, decline, sleep, wake, knock, keep | peers, the supervisor |
| Presence | `kols-core/src/presence.rs`, `store.rs` `record_beat` | floor of accepted beats | beat, accept | live channel |
| View and merge | `kols-core/src/view.rs`, `record.rs`, `cursor.rs` | none (a fold of records) | edit, redact, withdraw, react | projection |
| Names, channels, permissions, policy | `kols-core`, `kols-api/src/authorize.rs` | none (functions of replayed state) | claim, create, move, permit, authorise | governance store |
| Unread counts | `unread.rs` | last seen counts | see, count | projection |
| Workspace, accounts | `workspace.rs`, `account.rs`, `secret.rs`, `bundle.rs`, `invite.rs` | directories, the application's claim, the process's key, seeds, invites | launch, come forward, unlock, lock, forget, import, export | all |
| Node supervision | `nodes.rs`, `drive.rs`, `kols-app/src/main.rs` | one entry per network, polls, the network in view | reconcile, start, stop, restart, poll, forget | node claim, workspace |
| Relays, redial, pulls | `serve.rs` | timers, backoff | dial, pull, back off | transport |
| Front ends and data types | `kols-api`, `kols-app`, `kols-ui`, `main.rs` | drawing state | command, event, outcome | executor |

What makes it hard: nothing locks handles of one store against each other except
the append lock, and not everything that appends takes it; every file operation
is visible to the others; a process can be killed between any two; the wall
clock stands still and moves backwards; limits change under an index built with
the old ones; two copies of one log, in files and in the node's memory, each
grow and have to be brought together.

What makes each component correct, in a sentence: the *projection* shows exactly
what a fold of all record files would; the *own log* always replays, is never
refused by a reader and is eventually published; the *claim* gives one node and
never loses a group; the *governance store* loses no entry, replays, answers
from no stale cache and forks no local chain; *backfill* brings every readable
log whole and says so when it has not; *duty* never gives up the last copy by
itself without a trace; *admission* ends with a founder who is a member; *epochs* give every
member every key and shut out who was removed, across restarts; *knocks* bring
two people together and then let them rest; the *supervisor* runs what is wanted
and deletes nothing that runs; a *launch* ends with one application in front; the
*view* is the same for every order of arrival. Everything that is hard to test and at which line is listed
under `hazards` in `PROJECT.json`.

## 2. Modules

| Module | What it models |
|---|---|
| `ReaderLimits` | The rate rules twice: the whole-set pass of `limits.rs` and the incremental decision of `verdict.rs`. No state. |
| `ChannelIndex` | What the read side promises: a reader is shown every record held, with the verdicts of the whole-set pass. Abstract specification. |
| `Projection` | One channel of a store as its handles see it; implements `ChannelIndex`. |
| `ProjectionProofs` | Types, and for serial handles all four properties: the refinement of `ChannelIndex` among them. |
| `AuthorLog` | One member's writes to a channel, the own-readings index and the publish pass. Instantiates `ReaderLimits` for what readers make of it. |
| `AuthorLogProofs` | For one writer: records replay in order, sealed segments are final, no reader withholds any. |
| `NodeClaim` | Processes taking, keeping, losing and releasing the claim; the group it protects. |
| `NodeClaimProofs` | Its inductive invariant and four consequences. |
| `GovernanceStore` | Commands and the node appending to, caching and reading one governance log. |
| `GovernanceStoreProofs` | Its inductive invariants and five theorems. |
| `Governing` | What the commands of one member do to groups, roles and policy, while others write too: authorise, wait, read again, append, ask replay. |
| `GoverningProofs` | Its inductive invariants and three theorems. |
| `Structure` | Channels, categories and names as replay and the chat reader make them of the log; authorisation, declaration and acceptance of each entry. |
| `StructureProofs` | Types, and its three properties. |
| `Backfill` | One node collecting the logs of others: what it asks for, absorbs, walks, marks and tells the member. |
| `Duty` | Nodes that hold, promise, shed and repair objects under ceilings, on what they last heard of each other. |
| `Promises` | What a node's promise to keep a copy is worth, of the marks, copies and records on disk alone. `Duty` extends it. |
| `ReplicaProofs` | Of `Backfill`: types, and that what is marked whole is held. Of `Duty`: that one node alone never loses the last copy without a trace, wherever it is killed. |
| `Keying` | Admission, key requests, rotations in three saves, catching up, exclusion; restarts between any two. |
| `Contact` | A conversation of two people: arranged through a shared network, put to sleep, woken, knocked for. |
| `Window` | Launches of the application, unlocking, and the supervisor that keeps a node for every wanted network. |
| `WindowProofs` | Types, and its two safety properties. |
| `MC*` | Values of the constants for TLC. |

`map` in `PROJECT.json` names, for each definition, the lines it stands for.

### Projection

A *handle* is one `Store` value. `put_record` is `PutName` (append to the arrival
log) then `PutFile`; `load` begins with the folds row and the log's length
(`LoadBegin`), reads the tail (`LoadTail`), may forget rows and folds row in two
transactions (`ForgetRows`, `ForgetFold`), rebuild the log from a directory
listing (`RebuildList`, `RebuildReplace`), read every file (`RefoldRead`), decide
and insert one record at a time (`Insert`) and write the folds row (`FoldEnd`).
Every write another handle can see, and every read used after one, is a step.
`PutCrash` and `FoldCrash` stand for deaths and for errors that return early.
Records are ids with a clock reading, an author and a class; the index of records
by text, attachments and reactions is left out.

### AuthorLog

`Sign` reads the newest own reading, takes the next one (`NextReading`), checks
the writer's own rate (`WithinRate`) and signs; `PutFile`, `NoteRead` and
`NoteWrite` store and bring the index up to date. The node's pass is `PassBegin`
(anything new, or a re-announcement due?), `PassReplay` (replay all records into
segments, sealing as `should_seal` says; refuse on a reading that does not pass
the one before), `MarkThrough`, `MarkAnnounced`. The clock ticks, is set back
(`SetBack`), a writer dies (`Die`), the node restarts. Keys, bytes and the byte
ceiling of a segment, retention and rebasing between devices are left out.

### NodeClaim

`hold_node` is `StartWaiting`, `Look`, `GiveUp`, `MakeDir`, `WriteOwner`,
`FirstCheck`, `WriteHeart`; a running node restores its group, `Check`s its token
on each beat, writes its heartbeat and saves its group; `drop` is `Leave`,
`RemoveHeart`, `RemoveOwner`, `RemoveDir`. The variable `faults` records what the
code does not defend against, and properties say which of them they exclude:
*overlap* (two processes inside the few file operations that take or release),
*asleep* (no beat for the whole staleness window), *starved* (a waiting process
not scheduled between looking and giving up).

### GovernanceStore

`append_entry` is `Mark` (tally), `Count` (directory), `Write` (rename into
place); `replayed` is `ReadTally` and `ReadList`; a command takes the lock
(`Govern`), reads, makes its entry on the head (`Extend`), appends, and may re-read to see that
it took effect. The node's tick is `Adopt`; a key request, or a rotation away
from a removed member, takes the lock, adopts, makes its entry (`AnswerKey`) and
saves (`Persist`); a join makes its entry on the node's head and saves after the
lock is gone; entries from the network are saved without it. The lock is a
directory nobody takes over, so a killed holder leaves it for good: `GiveUp` is
the node ending with an error after waiting, and starting again. An entry is its
identifier and its parent; fork choice is "longest branch, then least
identifier", and is only used through `Chain`. `faults` records an append that
overlaps an unlocked one (*overlap*), and a chain extended from a cache that had
been read in the middle of an append (*torn*).

### Governing

The log is here what its replay says: one record `net` of groups, capabilities
and policy. A command is `Submit` (authorised on a fresh replay, which it keeps
as `view`), for a member who takes itself out of groups `Check` (`depart`,
`would_strand`: is there anybody left who can revoke?), `TakeLock` or `GiveUp`,
`Read` for the edits that replay again under the lock (`set_permission`,
`set_chat_setting`, `set_admission_mode`), `AppendEntry` or one
`AppendDeparture` per group, and `Verify`, which reports what replay says.
`Peer` is an entry of another member that the node saves at any moment, lock or
not; `Killed` leaves the lock to nobody. An entry carries a whole policy or a
whole capability set, so an edit made of an old reading takes back what came
between; `ours` remembers what was last changed on this machine, to say so.
`Unguarded` are the settings that are written from what `submit` had read.
`Put` is the protocol library's replay of one entry, as this code relies on it.
Governing uses `GovernanceStore`'s promise that entries appended under the lock
form one chain, and does not model forks again.

### Structure

A command is prepared by `CreateChannel`, `UpdateChannel`, `CreateCategory`,
`UpdateCategory` or `SetName` on the state it is authorised on; `Declaration`
picks the capability the entry declares. It then `Land`s at some later place
in the log, after other commands' entries, or is dropped (`Drop`). `Accepted` is both
questions asked of it there: the library's (does the author hold what is
declared?) and the reader's (`admit`: is it the right thing to declare?).
`Regrant` changes roles and membership in between. Names are not state of
their own: `Holder`, `Bound` and `NameOf` fold all claims of the log by current
membership, as `replay_names` does. `Sidebar` is `sidebar_order`.

### Backfill

An author's log is published over and over: `Publish` adds a reading, a new index
and a new or replaced last segment, so objects are (log, publication, kind).
`Tick` is the node's tick: what changed and what is asked for (`Begin`), which of
the queued objects are still worth fetching (`Planned`, `Wanting`), how many the
page or the ceiling lets through (`HistoryBudget`, `Taken`), and the pass it
starts. The pass is `TakeLog`, then per segment `WriteLink`, `MoveTally` and
`MarkWhole`, walking back until `ChainEnds`, and `EndPass`, so that `Die` falls
between any two. Readings, pin and link are one step, and tally and channel mark
another: a death between readings and link leaves readings that the next walk stores
again, and of the marks only those set apart here are read by what is claimed. `FetchArrives` and `FetchFails`
are the transport's answers; `Pull` is the pull of pointers by which a node comes
to know newer publications. `Ask` and `FetchHistory` are the window's request for
older history, kept as a want until it is met; `seen` is the cached answer of
`history_incomplete` in another process. `Turn` fills and empties the disk.

### Duty

A node `Fetch`es an object once, promises it by its place in the ranking
(`Primary`, `Keeps`) or as a standby while copies are missing (`Standby`, `Steps`),
and over its ceiling sheds cached copies, then promised ones it may safely give
(`Safe`: enough other holders), then those marked at risk for a week. `Tick` is one
tick: look at the disk, shed, evaluate, on what it last heard (`Hear`) of who holds
an object, which may be stale (`Stale`). The measurement of the disk is shared by
the nodes of an installation (`Looked`, `MeasureAges`). Machines disappear
(`Lose`), restart, change their ceiling; provider records age out one by one.

What a tick gives up goes file by file (`Order`): chunks, manifest, `.duty`, `.repair`,
then the line in `dropped`, then the `.at-risk` mark. `CutShort` is a tick that ends
after any of these, of any object it sheds, killed or because a write failed, and the
node starting again; `Tick` is one that ends well. Chunks that went without
their manifest leave it behind (`stubs`): it is announced again, and taken for a copy.
A manifest alone counts as weighing nothing. Not modelled is a death inside `evaluate`,
which takes and releases one mark at a time: a promise left without its `.repair` mark
is released by the next evaluation, unless the ranking places it here.

### Keying

`AdmitMember` and `AdmitFounder` are the two entries that admit; `OwedFrom` is what
a restarted issuer finds half done. `Ask`, `Answer` and `Delivered` are the request
for a key and its answer, either of which may be lost (`Drop`). `Rotate` puts the
entry into the log and leaves the keyring and the group to be saved (`SaveKeyring`,
`SaveGroup`), with `End` possible in between; `Restored` is what the next start
makes of the three. `TickCatchUp` and `Sync` follow the rotations of others,
`Exclude` rotates away from who was removed. `torn` remembers nodes that ended
between two of the three saves. The group is reduced to the rotation it is at and
who has a leaf in it.

### Contact

Each person's machine runs the shared network's node and a supervisor while the
application is up. `Start`, `SendOffer`, `Redeem`, `Record` and `Decline` arrange
the conversation; `Decide` then `Sleep` or `Wake` is the supervisor's pass, split
where `settle_sleep` reads activity before it writes its decision; `Link` and `Meet`
connect the nodes of the conversation and of the shared network; `KeepKnock` is the
conversation's node owing a knock for what it wrote, `SendKnock` and `Heeding` the
shared node's delivery and what the other side does with it, `HearBeat` the beat
that wakes a side with a pending knock. Stamps of the activity clock are abstracted
to the two comparisons made of them. Time is abstracted to the order the constants
guarantee: a round of a loop is shorter than the least idle timeout
(`Unsettled`, `Elapse`, `Quieten`). `Leave` is closing or killing the application.

### Window

`Launch`, `Notice`, `GiveUpAsking`, `TakeClaim` and `Beat` are the application's
claim: a launch that finds a fresh heartbeat asks its owner to come forward and
takes over when nobody answers. `Tick` is the supervisor's minute: from the stores
it can open (`Specs`, empty without the key) it computes what is wanted, lowers the
rest and polls what is set aside (`Reconciles`, `Polling`). A task is `waiting` for
its store's claim, then `serving`; stopped, it is `leaving` and holds the claim until
it is dropped (`Release`), which nobody awaits except `forget_network`
(`StopParting`, `CheckParting`, `DeleteParting`). `SetAside`, `OpenNetwork`,
`FallAsleep`, `Restart`, `Gain`, `Lock` and `Unlock` are the member's; `Kill`,
`TaskEnds`, `Elsewhere` and `Age` are what goes wrong. What NodeClaim and Contact
say in detail is used here as a claim that is held or not and a conversation that
sleeps or not.

### Mutated forms

A definition beside another with nearly its name and one difference
(`StrandsInEveryone`, `BudgetForgetsAsked`, `KnocksAwake`, `FreshOneShort`, ...) is a
plausible mistake in the code. It is used by no specification; `mutants` in
`PROJECT.json` says which property rejects it.

## 3. Runs

| Run | Expect | Question |
|---|---|---|
| `projection` | pass | One handle, any order of arrival, writers and loads that die at any step, a change of limits: does the index serve what a fresh fold would, hide nothing, name every file, and does a finished re-fold heal what a death left? |
| `authorlog` | pass | One writer with a clock set back or a death, and the publish pass: does the log stay publishable, is nothing withheld, are sealed segments final, is every record published? |
| `nodeclaim` | pass | Two processes, killed anywhere, slow or asleep: is there one node, is no group saved over, do two nodes ever last? |
| `governance` | pass | A command, the node and one kill: is an entry ever lost, the log ever refused, a cache stale, a local chain forked; do node and store keep in step? |
| `governing` | pass | Two processes of a founder and another member, edits, grants, departures, kills: does an edit ever undo another, is somebody left who can revoke? |
| `structure` | pass | Commands that land late, roles and members that change: is what was authorised accepted, is every channel in the sidebar once, do names stay? |
| `backfill` | pass | Two logs, a refused segment, a disk that fills and empties, a death at any write: does history arrive whole, is a mark ever ahead of what is held, is a truncated channel told? |
| `duty` | pass | Two machines under ceilings, answers minutes old, a tick cut short, one gone for good: can one node lose the last copy without a trace, do promises settle, does repair come? |
| `keying` | pass | An issuer, a friend and a third, with processes that end anywhere and messages lost: is anybody left half admitted, without a key, or in the group after removal? |
| `contact` | pass | Two people who write, close and are killed: does an offer arrive, does a knock bring them together, does an event racing the decision to sleep wake, do they come to rest? |
| `window` | pass | Two launches, a network set aside and back, a conversation that sleeps, restarts and departures: is a launch answered, is what is wanted served, is a store in use deleted? |
| `locked` | violation | Locking the application stops the nodes it was to leave running. |

The properties, each stated in words at its definition:

- *Projection*: `ImplementsIndex` is refinement of `ChannelIndex` up to the first
  death of a load; `NothingHidden`, with the same exception, `StoredIsNamed` and
  `RefoldHeals`, without it, relate rows, folds row, log and files. The exception is
  a death inside `forget`, which deletes rows and folds row in two statements
  (`schema.rs` 436–447).
- *AuthorLog*: `AlwaysPushable`, `NeverWithheld` (writer's check against readers'
  pass), `SealedForGood`, `EventuallyPublished`.
- *NodeClaim*: `SoleServer`, `NothingSavedOver`, and `AloneAgain`, which is under no
  hypothesis: two nodes never last.
- *GovernanceStore*: `NothingOverwritten`, `Replayable`, `CacheCurrent`,
  `OneChain`, `KeptInStep`.
- *Governing*: `EditsKeepEdits` and `Governable`, each with the exception the code
  leaves: a setting in `Unguarded` or a new role overtaken since it was submitted;
  a departure written on a reading that had become untrue (`late`).
- *Structure*: `AuthorizedIsAccepted` (three functions that must agree on which
  scopes count), `SidebarShowsAll` (channels moved to categories nothing defines),
  `NamesStay`.
- *Backfill*: `WholeIsHeld`, `TruncatedIsTold`, `AllArrives` (with room on the disk,
  and whatever is refused elsewhere), `AskedIsBrought` (at the ceiling too, unless
  the page is `Crowded`).
- *Duty*: `NoSilentLoss` (a loss leaves a record, a mark a week old, or another who has
  had the copy), `DutySettles`, `RepairComes` (unless a left-over manifest passes for a
  copy).
- *Keying*: `AdmittedIsFounder`, `MembersReadAll`, `RemovedIsShutOut`; the last two
  except nodes that ended between two saves of a rotation (`torn`).
- *Contact*: `OfferArrives`, `KnockIsAnswered`, `StirringWakes`, `ComesToRest`.
- *Window*: `AskedIsAnswered`, `LaunchComesForward`, `WantedIsServed`,
  `ColdTakesTurns`, `DeletedIsIdle`; `LockKeepsServing` is what `locked` violates.

### Bounds, and why they are enough

- *Projection*: four records of two authors placed at the edges of a window three
  ticks wide, so that which are refused depends on which have arrived; a late
  arrival sorts before rows already decided; two sets of limits; one writer and
  two loads that may die, so that a load may die while it repairs what one left.
- *AuthorLog*: three records over four moments, segments sealed at two records or
  a span of two, so that a chain has a sealed and an open segment; one accident,
  a clock set back or a death; one restart of the node.
- *NodeClaim*: two processes; `Stale` 3 and `Patience` 4 keep the code's order
  (the deadline lies past the staleness window); six ticks cover a wait, a
  takeover and a loss; one save makes a group that can be overwritten.
- *GovernanceStore*: one command, which is also a window that polls, and the node;
  two entries, by whichever of command, join, key request or peer makes them, so
  two siblings, a fork and a chain all occur; one kill, of either, anywhere.
- *Governing*: two processes of one founder and one other member; three commands
  submitted (one to overtake, one to be overtaken, one after) and two entries of
  the other; a role that holds nothing and one that holds everything, so that a
  member can hold everything twice; one setting read under the lock and one not.
- *Structure*: two members and two commands under way, two channels, one category
  and the place without one, two names, three entries in the log; ids and positions
  order siblings. Commands and names are interchangeable, so the run uses symmetry.
- *Backfill*: a log of three segments, so that there is one in the middle, and in
  another channel one whose only segment is over the size readers accept; a page of
  one object, which a single stale one fills; one want, one turn of the disk, one death.
- *Duty*: two machines that rank and stand by for one object, either of which may
  be lost, restarted, cut short in a tick or heard of falsely once; a ceiling with room for it and one
  without, changed once. Two machines are what losing a copy takes.
- *Keying*: an issuer and a friend whose machines are modelled and a participant
  who is only named; one removal; two processes that end or messages lost, so that
  a restart can fall into the recovery from another.
- *Contact*: two people are all a conversation has; two events, each a message, a
  closed or killed application, a lost request or acknowledgement: one to set a
  knock and one to disturb it. The conversation's nodes can reach each other; where
  they cannot, see section 5.
- *Window*: two launches, one with somebody who logs in; one network that is set
  aside and one that sleeps; three wishes of the member, enough to set aside, open
  again and lower, and one fault.

Deadlock is checked in the runs of the first four components, in `backfill` and in
`duty`; in the others nothing is left to do once the bound on commands, entries or
events is reached.

### Fairness

- *Projection*, *Governing*, *Structure*: none; only safety is stated.
- *AuthorLog*: the writer's steps after `Sign`, the pass (every tick of the node),
  and the passing of an hour. Nothing makes anybody write.
- *NodeClaim*: a running process keeps taking steps; nothing makes one start,
  stop or be killed.
- *GovernanceStore*: weak fairness for what the node has begun, strong fairness
  for its tick: the loop is a `select!` over all sources that polls its branches
  in random order, so a timer that is due is taken up again and again among
  whatever else is ready. Commands and peers are given none.
- *Backfill*: the tick and the pass it starts, weakly; strongly, that of repeated
  fetches of an object somebody serves one succeeds, and that pulls, which repeat,
  succeed again and again. Nothing makes anybody publish, ask or free the disk.
- *Duty*: ticks, answers, the ageing of answers and measurements; strongly, that a
  node ticks while it is informed, since an answer lasts ten minutes and ticks come
  every two seconds. A member who offers or a machine that is lost has none.
- *Keying*: everything a running node and the issuer's waiting room do by
  themselves. Requests for a key are given theirs apart, since where nobody can
  answer they go on for ever.
- *Contact*: loops and timers, and that somebody who closed the application comes
  back. Nobody has to write, accept or close.
- *Window*: the claim's own steps (the heartbeat of the holder, the answer window of
  a launch), the supervisor's minute, and that a task takes or refuses its claim and
  a stopped one is dropped. The member owes nothing.

## 4. Proofs

All theorems hold for every value of the constants under the named assumptions
of the modules (finite record ids, natural readings and bounds, markers that are no
data, `Patience >= Stale`).

**Projection** (`ProjectionProofs`). `Typed`. `SerialNothingHidden`: if calls of
different handles do not overlap (`[]Exclusive`), `NothingHidden` is an invariant.
Its strengthening, `Covered`, says at each place of a load which records are rows,
named ahead, or carried by the load (in the listing, in what is left to insert);
what is inductive is that it holds until a load dies (`CrashesStay`).
`SerialStoredIsNamed` needs no exception for deaths, by `Recoverable`. That handles
do not overlap cannot be dropped: see section 5.

`IndexIsImplemented` is the refinement, step by step: every step is one of
`ChannelIndex`, changes nothing it speaks of, or follows the death of a load. Its
invariant adds `Decided`: the rows are those a walk of the records they cover would
make (`Walks`), and what a load still has to insert comes after all of them. The
lemmas it rests on are about the rules. `DecideIsWalk`: of a record that comes after
every row, the incremental decision of `verdict.rs` is the verdict of the walk of
`limits.rs`. `WalkIsPass`: such a table is the whole-set pass, since two greedy sets
(`Greedy`) would agree up to the first record they differ on. `RefoldsHeal` adds that a re-fold
counts what it inserts (`Counted`), and needs no exception for deaths.
Two hypotheses are about what is read, and without either the two implementations
of the rules differ: an author's readings are distinct (`OneReadingEach`, which is
`AlwaysPushable` of their own log), and a slowmode goes with a ceiling on messages
(`PausesHaveCeilings`, section 5). `Serially` says that a call begins only when none
is in progress. `Exclusive` alone would not do here: a load that finds nothing new
returns in one step, and in the middle of another's re-fold it would show no rows.

**NodeClaim** (`NodeClaimProofs`). The inductive invariant is
`TypeOK /\ Alone /\ Owned /\ Recent /\ Held`: who is busy with the claim is alone
there unless an overlap was recorded; whoever is past writing its token owns it;
the heartbeat is as recent as the times of waiting processes say; a process that
serves holds directory, owner and a beat within the window, and its group is the
saved one. Then `OneServer`, `GroupIsCurrent`, `RefusalIsEarned`, `ReleaseIsOwn`.

**GovernanceStore** (`GovernanceStoreProofs`). `Alone` (roles, and no two appends
at once unless *overlap*) makes a counted position still the end of the directory
when it is written: `Kept`. `Current` says that a tally unmoved since a read that
began between appends means no append began since: `TallyIsEnough`. `InOrder`
says that what each cache holds is closed under parents and what a handle has
still to append hangs together with what is stored: `FilesReplay`. It needs that
a canonical chain contains its ancestors; a branch is therefore defined as the
intersection of the closed sets around an entry, not by recursion.
`LockedDoNotFork`: `Secured` says of each handle that what was made under the lock
is stored by the time the lock is free, or its holder is just storing it, and that
whoever is about to make an entry knows all of them; so the parent it takes, the
tip of the longest chain it knows, is no earlier one's parent (`Single`). It is
inductive only with `Acyclic` (parents strictly shorten a branch, without which
the longest chain could end below its tip) and while `faults` is empty.

**Governing** (`GoverningProofs`). `Sound` is the type invariant with what may be
asked of a process at each place. `StaysGovernable`: `Foreseen` says that whoever
is about to take itself out of groups has been told, of what it has read, that
this strands nobody; if the memberships are still those it has read, removing it
leaves a holder, and any other removal is by a holder who stays. `EditsKeep`: only
the holder of the lock changes what is `ours` (`Locked`), so that what was read
under it still agrees with all of `ours` when it is written (`Rereading`), and a
role that does not exist holds nothing (`NewRoles`), so that creating it on a
current reading takes nothing away.

**AuthorLog** (`AuthorLogProofs`). All theorems are for one writer (`OneWriter`; two
take the same reading, section 5), the first two for any number of accidents of one kind
(`OneAccident`): deaths leave the index behind, and only a clock set back then makes
the next reading repeat one the index missed. `EveryPassAppends`: `Follows` says that
every record reads later than all before it (`Sorted`), because each of them is in
hand, known to the index, or before the clock of a writer that started since
(`Kept`). `SealsHold`: `Cuts` characterises the segments a pass cuts, without the
recursion of the fold, by where each record goes given those before it. Cuts agree
on a common initial part, and exist for every finite set of records (by a greatest
one, not by induction); `Published` says that the chain is the cut of an initial
part of the store, so that a later pass only adds behind it.

`SparseIsAdmitted` and `RoomyIsAdmitted` are about an index no death has left behind.
`Recalls` says that it holds the newest records it has noted, and that the newest it
dropped is older than the kept window or has `MaxRecent` after it. So the writer's
count is that of all its records (`CountsAll`), each record signed keeps the pause and
the ceiling to those before it (`Metered`), and the walk of a reader, which counts the
admitted ones among them, admits it. That the `MaxRecent` newest are enough does not
hold of every instance (section 5): it does where no rate window has more than
`MaxRecent` records of all classes (`Sparse`, of the behaviour), and the writer's own
checks see to that where every class written has a ceiling and `MaxRecent` is at least
their sum (`Roomy`, of the constants; those of the run are such).

**Structure** (`StructureProofs`). `AuthorizedStands` needs no more than types: an
entry is declared on a state where its author may make it, what is declared is
among what replay and the reader accept there (`DeclaredIsAccepted`), and whatever
changes that state marks the entry overtaken. `NamesDoStay`: of the claims of a key
by present members the first one holds it, so that appending a claim moves nothing
that was bound. `SidebarComplete`: a finite set with a total order has a listing
(`Listing`: an id's place is the number of ids before it), so that `Siblings` and
the named categories are listed once each.

**Backfill** (`ReplicaProofs`). `WholeIsHeld` is not inductive, as the marks are
written when the walk has forgotten how it came to its end. `Walked` says that
what lies behind the segments taken in is linked, but for what the walk has still
before it, at each of its three writes. `Ready` and `OneLog` keep a walk in one
log; `LinkedIsStored` says that readings go before the link.

**Duty** (`ReplicaProofs`, as the instance `D`). `LossIsTraced` is `NoSilentLoss`, the
action property of `Promises`: what a node promised, and what it has no longer, stays
accounted for by the node itself or by another who has had it. `Types` says that what
is promised is held, or left as a manifest by a death, and then was given up.
`Recorded`: a provider record, however old, names somebody who has the object or gave it
up. `Told`: an answer above zero was counted from the records of others, and stays true
when it is old, since who has had an object has had it for good. `Sheds` is what a tick
and any part of one have in common, and enough: what goes was cached, or `Safe`, which
asks for an answer of at least one holder, or had lapsed, and then is recorded or keeps
its mark; a mark goes only with the record or where others hold the object. So the
order of the files is what the proof of `CutSheds` rests on. The hypothesis `Arranged` is the module's own `ArrangedAssumption`, which
an instance does not bring along: finitely many nodes, which hold at first what is
of their network, and an `Unknown` that is no number.

**Window** (`WindowProofs`). `AskTaken` adds to `AskedIsAnswered` the launch that still
waits after its ask was taken: whoever took it is there unless they ended.
`NoneDeletedUnderNode`: from the question to the deletion, a store in use was taken
in between (`Asked`).

`Typed`, `RefusalIsEarned` and `ReleaseIsOwn` state what no run repeats: types;
that a process is refused only when another has beaten since it began to wait
(`RefusedIsServed`); and that a release removes the releaser's files only, unless
another is in the middle of taking the claim (`ReleaseOnlyOwn`).

The library's induction theorems take an operator as a parameter, which the provers
here cannot instantiate. Where an argument is inductive it takes a least
counterexample instead: `<` on the naturals is well founded, which the library
states of a relation (`Least`, and `Greatest` of what is bounded).

Every invariant and action property of the runs that pass has a theorem. Only
model-checked is what is temporal under fairness: all of `Keying` and `Contact`, the
other two properties of `Duty`, and the liveness of the rest.
Liveness and `ENABLED` are out of the prover's reach, and so are induction over
data through an operator parameter and `RECURSIVE` operators; no module here uses
the latter.

## 5. What the checks found

**Locking stops the nodes** (`locked`, `findings`). `lock` clears the key that stores
are opened with and promises that the node "keeps serving"; the supervisor's next
minute finds no store it can open, takes the empty list for what is wanted and stops
every node.

Further places where the code does not do what a comment of the repository says.
The models contain each of them, and the properties above name the exception:

- *A record named before its file is counted as consumed* (`store.rs` 1306). With two
  handles, a load between `PutName` and `PutFile` skips the name and consumes it; the
  record is then in nobody's view until something else re-folds the channel. The
  comment at `store.rs` 891–895 says the order of the two writes is there to prevent
  a message no reader would ever see. `projection` has one handle; the theorem has
  `[]Exclusive`.
- *`forget` deletes in two statements* (`schema.rs` 436–447): a death in between leaves
  a count of consumed arrivals beside an empty table.
- *Two writers of one member take one reading* (`executor.rs` 915): reading the index,
  signing and storing are under no lock, and the log then refuses to replay.
  `authorlog` has one writer.
- *An unlocked save replaces an entry* (`serve.rs` 1496): entries from the network are
  appended without the lock, and names count the directory (`faults`, *overlap*).
- *The tally moves before the entry's file* (`store.rs` 571): a reader in between
  caches the old entries under the new tally (*torn*, `half`).
- *A join is answered without adopting* what commands appended (`serve.rs` 1721).
- *A network's name, written with an old policy, takes a setting back*
  (`executor.rs` 347, 470; `Unguarded`).
- *A name does not stay with a member who leaves* (`names.rs` 228–230 says it does).
- *A slowmode without a ceiling* is applied by the incremental verdict and not by the
  whole-set pass (`verdict.rs` 107); the run uses positive ceilings.
- *A head waits for room*: `serve.rs` 2436–2439 says a head is fetched whatever the
  ceiling says; it is queued with the history, whose budget is nothing at the ceiling.
- *Index objects crowd the page* (`serve.rs` 2582): they leave the queue only when
  refused, and eight of them fill the page of history (`Crowded`).
- *Falling behind a rotation* (`serve.rs` 815): `catch_up_epochs` runs only for a node
  that started with a group, and the delivery of a first key does not call it, so a
  rotation synced between request and answer waits for more of the log or a restart
  (`holds` in `MembersReadAll`).
- *Torn saves* (`serve.rs` 3704): a process that ends between two saves of a rotation
  restarts with keys and a group that are not of one rotation; and a Founder whose
  node starts before it has a key makes a group of its own (`serve.rs` 406).
- *An at-risk mark survives the pressure* (`replica.rs` 620): under new pressure a week
  later the copy goes without a new grace period; and two nodes over their ceilings at
  once can each give up a copy that counted on the other's, which is why
  `NoSilentLoss` and not "no loss".
- *A loss is not always written down* (`replica.rs` 708). The comment at 702-704 says
  that giving up the last known copy "is written down rather than merely done". The
  bytes go first and the line in `dropped` is written after (712): a node killed in
  between, or one whose disk takes no more writes, never writes it, as the next pass
  finds no bytes and passes the object over. The at-risk mark, which goes last,
  is then the only trace (`Accounted`); no later pass reports it to the member.
- *A manifest without its chunks* (`store.rs` 3094): `forget_object` removes the chunks
  first, and a death before the manifest goes leaves one that every start announces.
  Others count it as a copy, and this node may promise it again; nobody repairs
  the object (`Needed` in `RepairComes` exempts it).

Noticed while modelling, and stated by no property:

- `readings.rs` 50-58 says that the writer's count "stays exact wherever a ceiling
  exists" short of a ceiling beyond `MAX_RECENT`. The list of 512 is of all classes,
  though, so records of a class without a ceiling (control records; messages where
  only reactions have one) can push counted ones out within the minute, and the
  writer then signs what readers refuse. Hence `Sparse` and `Roomy` in the proof;
- nothing enforces that two channels differ in name; an archived channel is not
  refused by the authorisation of a message; `update_channel` and `update_category`
  report success without asking replay; a claim on a taken name stays in the log and
  takes effect when its holder leaves;
- being admitted to a conversation does not count as activity in it; an
  acknowledgement forgets the offer by person, so a second conversation offered to
  the same person at the time loses its offer (`serve.rs` 1950); a lost
  acknowledgement records a request again after it was accepted; two people whose
  conversation nodes cannot reach each other and who both have a knock pending keep
  waking each other; what is written just before quitting, and found old on return,
  is owed no knock;
- a node that ended by itself keeps its entry, and `reconcile` only relabels an entry
  (`nodes.rs` 562): a hot or warm network is not started again until it leaves the
  wanted set, is restarted by hand, or the application restarts (`crossed` in
  `WantedIsServed`), although `is_live` says "until the next reconcile";
- the network in view stays in view when its window is closed or the application is
  locked, so a network set aside stays hot;
- a launch that asks just before the holder quits finds its ask removed by the
  holder's release, takes this for an answer and leaves with nobody running
  (`betrayed`);
- leaving a network: a supervisor's tick between the stop and the deletion starts the
  node again; the deletion is then refused after the departure was announced, or, if
  the node takes its claim after the question, goes ahead (`parting.taken`).

## 6. Plan

1–9 are done.

1. `ReaderLimits`, `ChannelIndex`, `Projection`: the read path, recovery, and proofs.
2. `AuthorLog`: the write and publish path.
3. `NodeClaim` and its proofs.
4. `GovernanceStore` and its proofs.
5. `Governing` and its proofs; `Structure`.
6. `Backfill`: history arrives whole or is told to be incomplete.
7. `Duty`: census, at-risk marks, shedding, repair.
8. `Keying`: admission, keys, rotations and restarts.
9. `Contact` and `Window`: conversations, and the application around the nodes.
10. Further theorems. Done: `WholeIsHeld`, `AskedIsAnswered`, `DeletedIsIdle`,
    `AlwaysPushable`, `SealedForGood`, `NeverWithheld`, `OneChain`, the three of
    `Structure`, the step refinement `ImplementsIndex`, `RefoldHeals`, and
    `NoSilentLoss`.
11. `ChannelView`: effects of edits, redactions and reactions over record sets,
    checked for convergence; presence beats and their floor; unread counts.

### Not modelled

- Of modelled components: bytes, keys, retention and rebasing between devices in
  `AuthorLog`; forks in `Keying`, where `GovernanceStore` has them; in `Contact`
  software that cannot be knocked, several conversations with one person, presence,
  and a second process stamping activity; in `Window` creating and encrypting the
  account, transfer bundles, event forwarding and the relay's standing.
- Presence beats, the merged view, unread counts: planned above.
- Relays, redial and pull cadence are timers and backoff over the transport library;
  live delivery is a hand-over to it.
- Front ends, encodings and seeds at rest: drawing, byte formats and cryptography,
  with no steps to interleave.
