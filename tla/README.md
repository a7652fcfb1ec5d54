# TLA+ models of rapp-workspace-manager

The repository is a set of small command-line tools around three kinds of
state: the **frame streams** of projects (`tools/append_frame.py`), shared by
any number of operators through git; a **private manager** directory
(`tools/workspace_manager.py` and what it imports), which records pointers to
workspaces and to the metadata of native AI programs; and, inside a manager,
the **Workspace/1 control plane** (`tools/workspace1_manager.py`), which
captures, interprets and adopts values in a SQLite store. There is no server and
no daemon. Everything that makes the tools hard is in what happens *between*
their processes: two runs that read the same chain, a directory that is moved
while a scan looks at it, a command that dies between two files.

`PROJECT.json` lists the components, runs, mutants, hazards, findings,
theorems, and the source lines behind every definition.

## Inventory

| component | state | operations | who touches it | hard part |
|---|---|---|---|---|
| frame streams, `append_frame.py` | `frames/*.json`, one file per frame named by sequence and hash; a host clock | `--punchin --heartbeat --handoff --takeover --punchout`, `--event`, `--genesis`, status and verification | any number of processes with no lock; other clones through git | reads, lease check, stamp and rename are four steps; clocks differ; leases lapse; frames merge |
| stream identity, `genesis` | `rappid.json`, frame 0 | `--genesis` | the same processes | two files, one written in place |
| manager store, `save_registry`, `load_registry`, `init_manager`, `routing_io` | `rappid.json`, `registry.json`, `HOME.md`, up to 16 `*.code-workspace` views, `.routing.lock` | every mutating command; `init` | one process at a time under `flock`, except `init` | several files, each atomic, together not |
| local routing | `workspaces`, `forgotten` of the registry | `scan`, `scan --mode exact`, `clear`, `forget`, `re-add` | the manager's command; the owner, who moves directories meanwhile | identity is (device, inode), places are paths, and both change under a command; version 1 records know only the path |
| organization and views | `organization`, `editor_view`, `editor_views` | `group add/remove/assign/unassign`, `focus`, `editor-view`, `tree` | the manager's commands; every change of the selection remaps it | references into a selection that is replaced whole; names that fold to one another |
| provider partitions | `providers[p]`: catalog, selected, forgotten, pending, histories | `provider refresh/select/clear/clear-cache/forget/re-add` | the manager's commands; the native programs, who change their stores meanwhile | key migration by alias; a checkpoint that spans several refreshes; last good state on failure |
| native adapters, `native_ai.py` | none of their own | `scan_provider` per provider | provider refresh | stores that change while they are read |
| Workspace/1, `workspace1_manager.py` | `binding.json`, `policy.json`, one SQLite row, its mirror `state.json`, three view files | `bind init capture migrate run stage adopt materialize recover` | one command at a time under the manager lock; the registry, the policy and the files around it change regardless | everything is decided by one commit, files come after it; frontiers are read, compared and read again |
| runtime image, `workspace1_runtime.py` | none | load and measure a pinned image | Workspace/1 | hashes |
| conformance checkers | none | print a verdict | the CI | none |

What makes each correct, in a sentence: a stream is one verifiable log, in
which only the holder of an active lease writes, and which never locks
everybody out; a manager loses no committed change and its projections are at
worst old; what the owner forgot stays out until re-added; each selected
pointer is reached by one path and shown once; a provider's partition is
replaced whole or not at all; Workspace/1 adopts a job at most once, only what
may be adopted, and only at the frontier it was approved at.

## Modules

| module | models | abstracts |
|---|---|---|
| `Lease` | `lease_state`, `lease_active`, `check_lease` | a stamp is a number of ticks; a body is its event, actor and expiry |
| `LeaseLog` | what a stream promises: atomic appends under one lease | abstract specification |
| `AppendFrame` | the writers: `verify_chain`, `append`, `write_frame`, the lease flags of `main`, clocks, crashes, git merges | a frame's hash is its content; JSON and rappid rules |
| `AppendFrameProofs` | theorems about `AppendFrame`, and that it implements `LeaseLog` | |
| `Induction` | lemmas: induction in terms of sets, functions along `0..n` | |
| `GenesisStream` | `genesis`, and appends that meet a stream half made | the first frame's payload |
| `GenesisStreamProofs` | theorems about `GenesisStream` | |
| `LocalRouting` | `scan_manager`, `local_action`, `replace_local_workspaces`, `validate_registry`, and assign, unassign and focus as far as they refer to pointers | a directory is its identity; names, tags, budgets |
| `LocalRoutingProofs` | theorems about `LocalRouting` | |
| `ManagerStore` | the lock, load, save and `init_manager`, failing and dying between files | what commands change is a set of edits |
| `ManagerStoreProofs` | theorems about `ManagerStore` | |
| `Organization` | `group_manager`, `focus_manager`, `editor_manager`, the remapping of references, the tree and the views | the selection is replaced by any other; names are folded labels |
| `OrganizationProofs` | theorems about `Organization` | |
| `ProviderPartition` | `refresh_provider`, `provider_action`, `remap_native_identities`, `scan_provider`, Copilot's checkpointed inventory, the provider part of `validate_registry` | one partition; a key is a root's spelling or identity with a session's name; the words of the status |
| `ProviderPartitionProofs` | theorems about `ProviderPartition` | |
| `JobRegister` | what Workspace/1 promises about its jobs | abstract specification |
| `Workspace1` | `tools/workspace1_manager.py`: every command that changes state, the order of its reads, its commit and its files | the kernel's frames are a counter, of a job's attempts the last is kept, a view is its focus and the adoptions it shows |
| `Workspace1Proofs` | theorems about `Workspace1` | |
| `MC*` | constants, symmetry and fairness of the small instances | |

### Frame streams

`frames[c]` is the set of files in clone `c`, `clock[c]` what its host reads,
and a process goes through `check`, `build`, `write` with the chain it read
(`seen`), what it was asked to append (`job`: the event and `--actor` that
`check_lease` is asked about, and the body) and the frame it built (`draft`). `LeaseFlag` and `PlainEvent` are the two ways of `main` into
`append` and include `verify_chain`; `CheckLease` is `check_lease`;
`BuildFrame` the second look at the clock and the bump past the head;
`WriteFrame` the rename. A process that dies leaves a `.tmp` that no glob
matches. `Merge(c, d)` is git: file names are content-addressed, so a merge is
a union. `seen` is what the directory held at *one* moment: `glob` lists names
and the loop opens them one by one, but files are immutable, are never removed
by the tool, and appear by rename, so the list decides. Removal of frames by
hand (fork recovery) is outside.

The lease is checked for `--actor` (line 198), while a frame keeps an actor its
payload names (203, 310), and `lease_state` reads that one (105). The two are
therefore different things here: `OwnActors` are the actors a payload may name,
`OwnBodies` the events and expiries. A lease can be granted, renewed or released
in another's name, and the properties about who wrote what look at `written`, a
history of each frame with the `--actor` it was written under, which no step
reads. A grant whose actor is not an object makes `lease_state` raise for every
later append (`Raises`, `Unreadable`); for the abstract log that is an end, as a
fork is.

Two things are idealised. The two calls of `main` and `append` that look at
the clock are on one host, whose clock does not go back; between clones there
is no relation at all between clocks. And the hash of a frame's body stands
for the body, with no collisions.

### Genesis

`genesis` checks for `rappid.json`, opens it (empty from here on), fills it
and renames frame 0. `StoreIdentity` over another process's text may leave a
longer text's tail behind: what is read then is not JSON. `solo` says whether
operators run `--genesis` one at a time, which `OneIdentity` needs and
`OneVerifiedIdentity` does not.

### Local routing

The command under way is in `cmd`; `manager_lock` allows one. `fs` is the
world: `Relocate` puts another directory, or none, at a path between any two
looks of the command. A scan looks at a path (`Look`: `directory_identity`,
`seen`, `local_suppressed`) and then reads it (`Read`:
`read_workspace_pointer`), two steps with the world in between. Re-add takes
the matching pointers first and reads the directory afterwards, two steps
again. What is validated and saved at the end is one step, `Commit`; that
saving is several files is the matter of `ManagerStore`. Initially there may
be version 1 pointers and identifier-only tombstones, as `load_registry`
fills them in; a command that would need one of those tombstones to be
interpreted is refused as the code refuses it.

`Relocate` lets two paths lead to one directory (bind mounts, case-folding
file systems): `same_location` in the code is there for it. The run
`ForgottenPlace` takes that freedom away, so what it shows needs no aliases.

### Manager store

A command reads `rappid.json`, takes the lock or fails, loads, changes, checks
and writes `registry.json`, `HOME.md` and every tracked view. `Stop` is every
failure and death between two of these. `init_manager` is `InitLook`,
`InitIdentity` and the same save, with no lock.

### Organization

Every command is atomic here, because it runs under the lock. A selection is
replaced by any other, with every remapping `local_pointer_remap` may come to
(`Remaps`): a version 2 pointer keeps its id or goes, a version 1 pointer may
become another. `Collect` and `TreeLines` are the recursive renderers as
recursive functions; the properties compare them with the sets they should
show.

`PointersOf` is `folders_for_editor_view` and `Folders` is `editor_folders`: it
keeps of the pointers' directories those that are still the ones recorded
(`Verified`; version 1 pointers record none), opens each once and the manager's
first (`Add`), and refuses the command where one lies around the manager
(`Overlaps`). What the host has made of the paths by then (`host`) and which
native references are selected (`native`) is quantified over in the property:
rendering reads them and keeps no state. A path in a native store is one that
names no directory.

### Provider partitions

`fs` says which directory is at each spelling of a profile root and `sessions`
what the native program keeps in it; both change at any time (`Relocate`,
`Session`). The refresh under way is `cmd`: `Resolve` keeps one spelling of
each directory, `Identify` looks at the roots again, `List` takes an inventory
or `Resume` the one of the checkpoint, `Verify`, `ReadBatch` and `Check` are
one batch, `Confirm` the last looks of `scan_provider`. Then the partition is
replaced, put aside as a checkpoint, or left as it was by `Fail`, which any
step may come to. A version 1 key is `[space |-> spelling]`, a version 2 key
`[space |-> identity]`. `requestedRoots` is not a variable of its own: a
command may ask for any roots, and only a checkpoint's own roots matter.

`save_registry` validates what it is about to save. The model saves without
asking, and `PartitionLoads` says that `validate_registry` never has anything
to refuse.

Three looks are drawn together, each because nothing is lost: the names and
the identity of a root in `List` (`Verify` refuses a pair that does not
belong together), the comparisons of all roots in `Verify` and in `Check` (a
change between two roots' comparisons could as well have come before or after
both), and the lookups of `same_location` in the merge, of which each
concerns one spelling. The model accepts a session that went and came back
between two looks, where the code compares time stamps and refuses; so it has
more behaviours than the code, never fewer. That two candidates claim one key
(the second disjunct of `Ambiguous`) did not happen in the run: spellings that
could be claimed twice are in doubt already.

### Workspace/1

`controller` is the SQLite row as it is committed, and `value` the same row as
the command under way has it; `Commit` (`Host.transaction`) is the one step
that takes the second over into the first. `pc` is where that command stands,
`seen` the registry it took for its frontier and the one it loaded, `todo` the
views it has still to write. A command that looks and computes under the lock
and touches nothing but `value` is one step up to its COMMIT (`Capture`,
`Run`, `Stage`, `Render`); where it reads a file that others change a second
time, or hands over to the kernel, it is several: `Migrate`, `MigrateLoad`,
`MigrateRead`, `MigrateCompare`, and `Adopt`, `AdoptInController`,
`AdoptCompare`. After COMMIT come, for each view file, the comparison
(`CompareView`) and the replace (`WriteView`), and then `Mirror`.
`Refuse` is every `require` that does not hold in the middle of a command,
`Stop` every other failure and every death. `recover` is two commands under
two locks: `Recover` and `RecoverViews`, with `pending` between them, and other
commands may come in between. One recover at a time is asked for.

The protocol kernel is a pinned checkout outside the repository. What it
answers is taken from how it is called: `Interpretations` and `Results` leave
open which lens succeeds and which budget is spent, `KernelAdopts` compares the
frontier that `request_adoption` returned and the restrictions that were
inherited, and `Faithful` is the fidelity proof for the identity contract. The
ledger of adoptions that `LedgerMatches` compares is the kernel's.
`registry` counts the changes of `registry.json`; every other part of the
manager's frontier changes with it, or is `policy`. A registry that is restored
byte for byte between two looks of a command is therefore not in the model: the
code compares contents and would go on, having missed nothing but the detour.
The frontier read at the end of a transaction and COMMIT are one step; what may
come between them is what `slipped` marks: a change of the registry after a
command's last look and before the COMMIT, or the replace of a view, that
relies on it. `LoseController` and `LoseMirror` are the loss of the SQLite file
and the deletion of `state.json`, between any two commands.

What the model shows about the code's limits, beside the properties:

- A registry that changes after `projection_bytes` looked (line 1115) and before
  the transaction looks again (533) is taken over into the committed frontier,
  so the comparison before each file (1192) passes and a view with a past
  adoption is written. The same happens when it changes between the comparison
  before a file (1192) and the replace of that file (1194). `ViewsFresh`
  excludes exactly these two moments (`slipped`), in which "Changed
  manager/suppression frontiers refuse stale materialization" (`SPEC.md`) is not
  kept. Every command on a manager that exists holds its lock throughout, so
  only a writer that takes no lock can cause it.
- The same holds between the last comparison of `adopt` (934) and COMMIT.
- `init` knows a lost store by its mirror (450) and by nothing else. Where the
  SQLite file is lost and `state.json` was deleted, or was never written because
  the process died between the COMMIT of the seed (989) and the mirror (990),
  the next `init` mints another seed. `docs/frame-anything.md` (89) says the
  opposite: "Deleting a state cache cannot remint the seed. A missing
  authoritative store is a recovery blocker, not an empty manager." The model
  reaches this (`LoseController`, `LoseMirror`, `InitPolicy`, `InitOpen`,
  `Seed`). `SeedKept` is what does hold: while there is a mirror, the store
  beside it is its own.
- Between the two locks of `recover` (1209, 1211) another `materialize` may
  commit another focus, which the second half replaces by the older one.

## Runs

| run | module | result | question |
|---|---|---|---|
| `OneClone` | MCAppendFrame | passes | do two processes in one directory amount to one log with one lease? |
| `TwoClones` | MCAppendFrame | passes | and two clones, with skewed clocks and merges: who wrote into whose lease? |
| `Takeover` | MCAppendFrame | passes | does an operator who keeps asking take over from a dead holder, whatever payloads say? |
| `Genesis` | MCGenesis | passes | does a stream get one identity? |
| `GenesisRemedy` | MCGenesis | violated | can the refusal of `append` be acted on? |
| `Routing` | MCLocalRouting | passes | does what was forgotten stay out, and do placements follow directories? |
| `ForgottenPlace` | MCLocalRouting | violated | does every forgotten place get its tombstone? |
| `Store` | MCManagerStore | passes | lost updates, projections, busy managers |
| `InitRace` | MCManagerStore | violated | is the manager's identity minted once? |
| `Partition` | MCProviderPartition | passes | do choices follow profile directories through moves, and does a failed refresh lose nothing? |
| `Overlay` | MCOrganization | passes | does the tree show each pointer once, and do views open what they are about? |
| `Workspace1` | MCWorkspace1 | passes | is every decision lawful, approved, recorded and made once, and do mixed views come back? |

**Bounds, and why they are enough.** Streams: two processes, two actors, two
or three frames after genesis, clocks to 3 and leases of one tick, so that
leases bind, lapse, are renewed and are taken over within a run, and a fork
has room for a frame on each side; a third process can only repeat what the
two do to each other, since a process is affected by others only through the
directory. A lease asked for ends before the clocks do, so every lease is
shorter than the run. `OneClone` has plain events, punch-ins, heartbeats and
punch-outs in strict mode, in the names of both operators and of one nobody can
read; `TwoClones` takeovers and handoffs in both names; `Takeover` leases of no
tick and of one, so that a heartbeat changes an expiry, and payloads with
missing and unreadable ones. More of these in one run do not fit the time it
has. Genesis: three processes,
because a race of two with a third that reads is the longest interaction.
Routing: three paths and two directories, the least that has a pointer move
to a path another was forgotten at. Store: three processes, two edits, two
views, so that a failed command, one that overtakes it and one that is refused
meet. Overlay: three groups (a chain of two below the root), two pointers one
of which is of version 1, four file names of which two fold together, two
tracked views of the sixteen, and four directories: the manager's, the one a
pointer was selected for, another, and one inside the manager's. Partition: two spellings and two directories, so
that a spelling can mean either and both can mean one; one session in each,
read one at a time, so that an inventory of both roots takes two refreshes;
four remembered namespaces of the six there are, so that the limit is met; and
five turns (`MaxTurns` counts moves, sessions, choices and refreshes
together), enough for a choice under a spelling, two moves and two refreshes.
Workspace1: two jobs (a fixture, which may be staged and never adopted, and the
registry's metadata), two operations, five frames, which is an adoption (four)
and one frame that makes a stage stale while there is still room; one change of
the registry and one fault (a failure, a death, another policy or a lost
store), at every step, and any number of deleted mirrors; two view files, so
that a death leaves them mixed. `materialize` is asked for everything only;
another focus shows fewer of the same adoptions.

**Fairness.** `Takeover`: the persistent operator's process runs (its host
schedules it, nobody kills it) and time passes on every clone; nothing is
assumed of the others, who may die at any step. `Store`: a started process
goes on, or is stopped by an error, which is always allowed; nothing is
assumed of who gets the lock. `Workspace1`: a command that was started goes on
(`WF` of its next step; failing is among the steps it may take, and the number
of faults is bounded), and the owner asks again and again to recover (`SF`,
because other commands hold the lock in between and a lock that is waited for
is not granted in turn); `ViewsRestored` leaves out the states in which
`recover` refuses, because an adoption shown is of a past frontier or the
store cannot be opened. No other run uses fairness, and no symmetry is
declared where a liveness property is checked.

**Deadlock** is checked in every run but `Partition`, whose manager rests when
its turns are used up, and `Workspace1`, where nothing can be done once the
store cannot be opened and the bounds on faults and edits are reached.

## Findings

- `GenesisRemedy`: a crash between `rappid.json` and the first frame leaves a
  stream `append` answers with "run --genesis first", which `--genesis`
  refuses.
- `ForgottenPlace`: `forget` of a second location of a directory that is
  forgotten already keeps no tombstone for that location.
- `InitRace`: two `init` on one empty directory mint two identities, and the
  second replaces the first.

## Proofs

`tlapm` checks the proof modules for all values of the constants. Every
theorem is about `Spec`; what else it assumes is said below.

**`AppendFrameProofs`.** Assumptions: those named in `Lease` and `AppendFrame`;
`LawfulHistory` and `ImplementsLog` also assume that payloads carry no event of
their own (`OwnBodies = {}`), which is a condition of the property; the actors
that payloads name are not restricted anywhere. The inductive invariant adds to
the types: every directory is linked down to the genesis frame; what a process
has seen is a verified part of its directory, closed towards lower positions; a
draft follows the head of what its writer saw; the writer's lease check was
passed for its `--actor` at a time not later than its stamp; and `written` tells
the writers of the frames there are. The lease of a history depends only on the
frames below a position, and where those are not forked every linked set has the
same frames there, so the check against an old copy of the chain is a check
against the merged one: that carries `NoToeStepping`, `LawfulHistory` and
`ForksOutsideLease`. `ImplementsLogHolds` is the refinement: a frame that
arrives on top of what is known to all is the append of its body to the abstract
log, one that forks it or grants the lease to an actor nobody can read ends the
log, a merge and every other step change nothing of it. It needs that the lease
`lease_state` computes for a chain with one more frame is the abstract lease one
append later, and `LeaseMatchesHistoryHolds` that the fold comes to what the
last event that counts left.

**`Induction`.** `lease_state` is a recursive function of the position, and what
it computes is proved by induction. The induction theorems of the library take
an operator, which no prover here instantiates; the lemma `SetInduction` says
the same of a set of natural numbers, and follows from the well-foundedness of
`<` in its set form. `AlongExists` and `AlongUnique` give the one function
that satisfies such a recursion.

**`GenesisStreamProofs`.** Assumption: a rappid is none of the words a run may
be told. Where `--genesis` runs one at a time, the process in it finds what its
last step left, so there is at most one sequence-0 file and it is that of
`rappid.json` (`AloneInGenesis`, `OneFirst`): `OneIdentity`. For races the
invariant does not speak of `rappid.json` at all: files are never removed, so
all listings are comparable (`OneHistory`), and two listings of one file each
are the same: `OneVerifiedIdentity`. What a verification reports is the lemma
`VerdictIs`, which needs that `frames/` is finite.

**`LocalRoutingProofs`.** The routes that a command is about to select are not
in the registry yet, so the invariant speaks of the command: what a scan
accepted is at no tombstone's place and each path is in one of its hands
(`Scanning`), and a re-add's remaining pointers are elsewhere (`Readding`).
That *identities* are not suppressed is re-established by
`validate_registry`, which compares ids, at each commit; that *places* are not
is never checked at commit, and holds only because of the scan's look. Proved:
`TypeOK`, `OneRoute`, `SuppressedStaysOut`, `OverlaySelected`, and the action
properties `TombstonesAnswered` and `PlacementFollows`: a reference that is
carried over to another key comes from a version 1 pointer, to what is at its
path or is selected there (`SuccessorIs`).

**`Workspace1Proofs`.** Assumptions: those of `Workspace1Assumption`, which only
say what the constants range over and that `None` and `All` are none of the
values. A property of the store that one command keeps is not inductive as it
stands, because COMMIT takes over a value that was computed many steps before.
The invariant therefore says what `value` is at each `pc`
(`InTransaction`): the store as it is committed, or one command's outcome on
it (`Observes`, `Interprets`, `Prepares`, `Decides`, `Projects`). That holds up
against failures, deaths, changed registries and replaced policies, since none
of them touches the store while a command is under way, and COMMIT then makes a
sound store of a sound one (`Sound`: jobs, stages and the ledger fit together,
one stage to a job, and what is adopted was lawful). `Writing` says the same of
the views: what a command is about to replace was current when it compared, and
is still, unless `slipped`. From it follow `TypeOK`, `OneDecision`, `AdoptedLawfully`,
`SeedKept`, the action properties `AdoptedAsApproved` and `ViewsFresh`, and the
refinement `ImplementsRegister`: each COMMIT is one step of `JobRegister` or
none, a seed and a created store are none, and a lost store is `Lose`.

**`ManagerStoreProofs`.** Two invariants. `StoreInv` is of every manager:
processes hold registries, and in a manager that was founded before, whoever is
past the lock holds it and shows what it saved; from it follow `TypeOK` and
`SuccessIsCurrent`. `OnceInv` is of a manager that at most one process ever
initializes (`OneInit`): `init` takes no lock, but what it is about to save is
the first registry (`ChangesPresent`: either one holds the lock and its
registry follows the present one, or there is none yet), and so each registry
follows the one before. From it follow `NeverAhead`, `NoLostUpdate` and
`MintOnce`; the run `InitRace` has two `init`, and the last of them fails.

**`ProviderPartitionProofs`.** Assumptions: those of `PartitionAssumption`. The
invariant joins what `validate_registry` asks with what the refresh under way
holds (`CommandOK`: an identity for each root, an inventory for each, and
candidates out of it): `TypeOK`, `PartitionLoads`. The action properties rest
on `EquivalentRecorded`: a spelling from which a choice is carried over has no
identity recorded but the root's own. `SuppressionKept`,
`ChoiceFollowsIdentity` and `NothingSuppressedListed` follow from what
`remap_native_identities` takes and gives, and `LastGoodKept` from the fact
that `Replace` is the one step of a refresh that changes the partition
(`WhoReplaces`), with an inventory of which every entry was read.

**`OrganizationProofs`.** Assumptions: those of `OrganizationAssumption`. That
the groups form a tree is `Rooted`, a statement about sets closed under
parents: each that has a group has the root. A new leaf and the removal of a
leaf keep it, without any depth or count, for any number of groups. From it
follow `TypeOK`, `OverlayLoads` and `FocusKept`, which takes the remapping of
`Remaps` at its word: a version 2 pointer goes to itself or to nothing.

What is rendered is proved by induction over the tree, from the leaves up. That
this is sound is itself invariant (`Grounded`: what passes from the children of
a group to the group is true of all groups), and so are the finitely many
groups (`TreeInv`). With it, the recursion of `collect` has one solution
(`SolutionExists`, `SolutionUnique`), no child is among the ancestors of its
parent (`NoCycle`), and what lies below a group lies in it or below exactly one
child (`BelowParts`); so `Collect` lists what lies below a group, each pointer
once (`CollectLists`). The lemmas about lists (`ListsConcat`, `ListsFlatten`)
say the same of `\o` and `FlattenSeq`. `TreeShowsSelection` and
`FocusedViewsExact` follow, the latter with `editor_folders` as one more
recursion, along the list of candidates. The assumption that the pointers and
the native references are finitely many says that a registry has no infinite
selection: their ids are digests.

Only model-checked: the liveness properties (`MCTakeoverServed`,
`NotBusyForever`, `ViewsRestored`), which are out of the prover's reach. Every
invariant and every action property of a passing run is also a theorem, with
the hypotheses named above.

## Not modelled, and why

- Loss of a rename or of a directory entry when the *host* dies: the code
  calls `fsync` before and after each rename; the models let processes die,
  not disks.
- Parsers (`parse_editor`, YAML, schema checks of native stores), rendering of
  `HOME.md`, budgets and size limits: text in, refusal or value out.
- Refusals because a path lies in a native store or in the manager itself:
  they only take behaviours away from `scan` and `re-add`. In views the second
  is modelled, and the first is a path that names no directory. The bound of
  10000 folders is not.
- What an append that reads an empty or half written `rappid.json` tells its
  user, beyond that it fails.
- What an editor saves into a view between the command's read and its write is
  overwritten; the editor takes no lock, and the model has no editor.
- In Workspace/1: rights, the clock and its floor, expiry, the octet and attempt
  budgets, receipts, suppressed subjects and the generation counter, which take
  behaviours away or are recorded and never asked for; `inspect`, `history` and
  `demo`. The runtime image is measured and imported by
  `workspace1_runtime.py`: hashes, accepted or refused.
- `init` of a manager saves without the lock, so a command that slips in between
  `registry.json` and `HOME.md` can have its projections replaced by those of
  the empty registry; `SuccessIsCurrent` is stated for managers whose `init`
  has ended.

## Plan

1. A composition of `ManagerStore` with the commands of `Organization` or
   `ProviderPartition`, so that `refresh_provider`'s preflight, which loads
   the registry before it takes the lock, is seen with other commands.
2. Workspace/1 with its clock, and with a registry that can return to an earlier
   content.
