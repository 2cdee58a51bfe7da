# CorCode, modelled and checked

CorCode's core keeps *chats*: each is a manifest and a log on a dataset, a git
working tree, at most one container an agent lives in, and at most one ACP
connection to that agent. The core is one multi-threaded process; every HTTP
request runs its own handler, and the handlers meet at the dataset, the Docker
daemon, the connections and two kinds of lock. What is hard about it is not any
handler but all of them at once, with clients that hang up, containers that die,
an adapter that talks out of turn, a dataset that runs full and a core that is
restarted. That is what this project models.

## The system

| Component (source) | State | Operations | What makes it correct |
| --- | --- | --- | --- |
| Chat lifecycle (`src/chats.rs`) | `claims`, `parking`, `last_sweep` | `prompt`, `archive`, `create`, `sweep`, `cap_the_pool` | a chat is woken or archived by one handler at a time; work is never deleted before git has it; an open chat has its tree; every guard comes back |
| Connections (`src/acp/connections.rs`) | `held`, a turn lock per connection | `hold`, `of`, `busy_chat_ids`, `forget` | one turn at a time over a connection |
| Warm pool (`src/pool.rs`) | none: a rule | `beyond_the_pool` | the cap, the order of leaving, busy chats outrank the cap |
| Orphan sweep (`src/sweep.rs`) | none: a rule | `reconcile` | no pile stays, nothing that is claimed goes |
| Store (`src/store/`) | manifests, logs, working trees and who owns them | `create_chat`, `read_/write_manifest`, `scan`, `append_event`, `read_events`, `hand_workspace_to` | whatever is listed reads back; a log reads back; an agent owns its tree |
| Plane (`src/plane/`) | the network, containers by chat name | `spawn`, `ensure_network`, `teardown`, `list_live` | one container per chat, on a network that routes out |
| ACP client (`src/acp/mod.rs`), ladder (`src/resume.rs`) | message ids, a pipe | `greet`, `resume`, `load`, `open`, `take_turn` | every call ends, on its own answer; nothing of one turn is read as the next |
| Git gate (`src/git.rs`) | branches, here and on the remote | `push_for_archive`, `clone_at`, `revive_at`, slugs and clone URLs | everything lands before anything goes; a retry mints nothing twice; the token goes to GitHub only |
| Signing key (`src/auth/keystore.rs`) | the key's file, its pending file, the key in force | `open`, `rotate` | the file and the value in force agree |
| Sessions, gate, rate limit (`src/auth/`) | cookies, failures | `require_session`, `login`, `record_failure` | a rotation ends every session; lockouts grow |
| Secrets, settings (`src/secrets.rs`, `src/settings.rs`) | a file per secret | `write`, `clear`, `read`, `verify` | each secret is a register |
| Pages (`src/ui/`) | none: they read the log, the manifests and the daemon | `event_log`, `hot_log`, `survey`, `colorize` | what is shown was said, and was true |
| Configuration, command line, log text | none | | |

How they interact: a *prompt* looks up the chat's connection; if there is none it
claims the chat and wakes it (revival from git if it was archived, a handover of
the tree, a container if none is up, the ladder to a session), trades the claim for
the turn lock, takes the turn line by line, writes each event to the log, stamps the
manifest, and caps the pool. An *archive* claims the chat, takes the turn lock if
there is a connection, pushes, writes the manifest, gives the container up, deletes
the tree, and sweeps. A *creation* writes the tree, publishes the manifest, clones,
spawns, opens a session, records it, and caps the pool; it claims nothing. A
*capping* and a *sweep* each take several readings, awaiting the daemon in between,
and then act on what they read. `serve` opens the key store and sweeps once before
the first request. Every request passes the session layer first, and every spawn,
clone and push reads the secrets as they then stand.

## The modules

| Module | Models | Form |
| --- | --- | --- |
| `Pool`, `PoolWalk` | `pool::beyond_the_pool`, as a set and as the walk the code writes | operators; specification over both |
| `ChatsState` | the shared state of the lifecycle, and what an access to it does; what an earlier core may have left on disk (`Shapes`, `Init`) | constants, variables, helpers |
| `Capping`, `Sweeping`, `Prompting`, `Archiving`, `Creating` | one handler each: `cap_the_pool`; `sweep`; `prompt` with `wake`, `revive`, `climb`, `touch`; `archive` with `close`, `release`; `create` | actions |
| `Chats` | all of it together: requests that begin, agents that write, containers that exit, clients that hang up, a core that crashes; fairness; the properties | specification |
| `GitState` | commits, the workspace's clone, the remote, and what each git command does to them | variables, helpers |
| `Gate` | `git::push_for_archive`, a git command a step, and the manifest write after it | actions |
| `ArchiveGate` | the gate among the agent, others on the remote, hang-ups, crashes, retries and the revival | specification |
| `Acp` | the message loop, the ladder over it, and the turns and wakes that drive both | specification |
| `Dataset` | `create_chat` and `write_manifest`, one request to the filesystem a step | specification |
| `Handover` | who owns each entry of a working tree, from creation through wakes, failed archives and revivals | specification |
| `Plane` | `spawn` and `teardown`, one request to the daemon a step | specification |
| `Transcript` | what a page makes of a log: blocks, readings, passages, the elements of a message | operators |
| `EventLog` | `append_event`'s two writes and a page that loads, resyncs and polls | specification, over `Transcript` |
| `Survey` | the console's list of chats, read over a pass | specification |
| `Marking`, `Marked` | `colorize` and the code spans of prose; a text said an atom at a time and marked | operators; specification |
| `Names` | branch slugs, repositories, clone URLs, the environment of a chat and what `create` refuses | operators |
| `Form` | the fields of the new-chat form, typed an atom at a time, and what becomes of them (`Names`) | specification |
| `Keys`, `Logins`, `Access` | the key store; the limiter; the session layer and the sign-in over both | actions; specification |
| `Secrets` | the secret files and the settings panel over them | specification |
| `Register` | what `Secrets` promises of each secret: a register that changes whole and at one moment | abstract specification |
| `MCChats`, `MCGate`, `MCTurns` | symmetry, and the names the runs go by | |
| `MCPage`, `MCConsole`, `MCGround` | several modules that share no state side by side, one of them moving in a behaviour (`part`); they extend the modules that theorems are about, so that a theorem and a run speak of one definition | |
| `ChatsProofs`, `PromptsProofs` | of `Chats` | theorems and their proofs |
| `GateProofs`, `AcpProofs` | of `ArchiveGate`; `Acp` | theorems and their proofs |
| `PageProofs` | of `EventLog` with `Transcript`, and of `Survey` | theorems and their proofs |
| `GroundProofs` | of `Dataset`, `Plane`, `Handover` and `PoolWalk`, and of `Form` with `Names` | theorems and their proofs |
| `ConsoleProofs` | of `Secrets`, of `Access` with `Keys` and `Logins`, and of `Marked` with `Marking` | theorems and their proofs |
| `Folding` | of the community modules' fold, whatever it folds with, and of `FlattenSeq`; instantiated once per fold by the modules of the texts | theorems and their proofs |

`Chats` composes the handlers over one shared state. Where it takes a step that is
itself a protocol, another module opens that step up: `Push` is `ArchiveGate`;
`Answer` and `Climb` are `Acp`; a spawn is `Plane`; a manifest write is `Dataset`; the
handover, which `Chats` passes over, is `Handover`.

### The lifecycle

A request is a process with a program counter (`pc`) and the locals its handler
keeps across an await: the chat, the connection in hand (`conn`), the manifest it
read (`seen`), whether it spawned the container (`spawned`), the chats it has picked
(`victims`). A step is one access to shared state, since the runtime runs handlers
on several threads; what the code does under one mutex is one step. Stale copies
are therefore in the model as they are in the code: `seen` is written back whole by
`ReviveOpen`, `WakeRecord`, `TouchWrite`, `ArchiveWrite` and `RecordSession`, and
`forget` goes by the chat's id.

| State | In the code |
| --- | --- |
| `manifest[c]` | `chats/<id>/manifest.json`: state, whether a session and a pushed commit are recorded, `last_active_at` |
| `workspace[c]`, `unpushed[c]` | `workspaces/<id>`: none, part of a tree, a tree; whether it holds what the remote does not |
| `container[c]` | none, running, or there without running (its name still taken) |
| `stray[c]` | an adapter at work that no handler awaits any more |
| `held`, `lock`, `wired` | `Connections`, each connection's turn lock, and the container at the other end of it |
| `claims`, `parking` | `Chats::claims`, `Chats::parking` |
| `clock` | the last `Utc::now()` written; stamps are distinct |

What is left out: the wording and the log lines; the order among the victims of one
capping, which is left open; what a tree holds beyond "the remote has it or not". A
failure to read a credential happens where the failure of what needs it does (`git`,
`store`). A tree whose removal a crash interrupts counts as one not yet removed;
either is an orphan to the next sweep.

A client that goes away: the HTTP server drops the handler's future at the await it
is at, and with it every guard it holds. A call in flight at the daemon may have
landed, half landed (`CutShort`) or not have reached it. `git` runs on the blocking
pool and is not stopped by the drop. In `Chats`, that it lands and the handler is
gone is the step followed by `Hangup`; that it goes on *beside* what comes next is
what `ArchiveGate` and `Handover` are for.

### The gate

`Chats` knows of a tree only whether the remote has it. `ArchiveGate` opens `Push` up
for one chat:

| State | In the code |
| --- | --- |
| `commits` | every commit there is: its tree, its parent, and (for the properties) the checkpoint branch it was committed on |
| `repo` | `workspaces/<id>`: its branches, where HEAD is, the files |
| `remote` | the branches on the remote |
| `manifest` | state, `last_pushed_commit`, `checkpoint_branch` |
| `gate[g]` | the locals of one `push_for_archive`: `standing`, the `Checkpoint`, the `tip`, what `landed`; `abandoned` once nobody awaits it |
| `stamp` | `STAMPED_THROUGH` |
| `left`, `passed` | auxiliary: HEAD and the files as the agent left them; checkpoints a lookup passed over unread |
| `crowded` | auxiliary: the chat was used (archived, revived, worked in) while an abandoned gate was still at it |

Every command may fail, a push may land and lose its answer, a listed branch may not
be handed over, the remote may refuse the chat's branch or have moved on, the
manifest may not be written, the client may hang up and the core die between any two
commands. Whoever retries does so from whatever was left behind, and the agent may
have worked in it since. Trees are numbers: the properties ask only whether two are
the same. Files git ignores, and branches of the agent's that are not checked out,
are not in the model; the gate looks at neither. The clock does not go back (a core
that starts again reads a later millisecond than any it stamped).

### The turns

`Acp` keeps of a line what the client tells lines apart by: its kind, and the number it
carries. `inbox` is the adapter's stdout, `due` what we asked and it has not answered,
`owing` what it asked and we have not answered, `at` and `call` where the client is
(`send`, `wait`, `drain`, `told`, between rungs, in a turn), `log` the lines
`append_event` wrote. The adapter is the environment: it streams, asks, answers,
refuses, replays, numbers its own requests with the ids we use, and dies; something
between may garble any number of lines. Some of what the code does is worth knowing,
and is in the model as it is:

- whatever carries an id and is read past is answered, an *answer* to another call too;
- a turn that ends because its event could not be written leaves an ask unanswered,
  and keeps its connection with the rest of the turn in the pipe, as a client that
  hangs up does (`astray`: `unrecorded`, `dropped`);
- a replay that pauses longer than `REPLAY_TAIL`, or goes on past `REPLAY_LIMIT`, is
  read as part of the next turn (`replay`);
- the notice of a reset is lost when the append fails or the core dies between the
  recording of the session and the notice (`untold`).

Not in it: a request only half written when its client goes away, and a rung that is
refused and goes on replaying.

### The dataset, the tree, the plane

`Dataset` takes a manifest write apart into open, write, sync and rename, and a creation
into the tree, the directory it is staged in, the log, the manifest and the rename that
publishes it. A process that dies loses no bytes; a power cut may take whatever was
not synced. `Handover` gives each entry of one tree an owner; git writes as the core,
`hand_tree_to` lists and changes one entry at a time, and the agent adds and removes
entries whenever its container is up. Two processes: the chat's one claim, and a
creation, which claims nothing. A client may hang up at any await; git and handovers run
on the blocking pool, so what they were at goes on as `loose` work, an entry at a time,
beside whatever the chat is used for next, while the claim is free at once. A crash ends
it. A sweep is one step here, and a request to the daemon that lands long after its
client hung up is not in this module (`Plane` has it).

`Plane` has several spawns and teardowns at the daemon at once, each able to be dropped
at any await, and somebody at the network by hand. A chat has one spawn at a time, under
a wake's claim or by its creation; a teardown is beside anything, since a capping parks
under no claim and no turn lock (`cap_the_pool`, `park`). A container is started by the
id it was created with and stopped and removed by its name, so a teardown may take one
that was made since it began, and a start may find its container gone.

### The pages

`EventLog` has writers that append a line and its end in two writes, under no lock, and
a page that draws a history, and then a tail from the cursor that history ended at. The
file is a sequence of lines, a line a sequence of the pieces written onto it: an event, or
the part of one that still went in when the dataset filled up. A line reads if it is one
whole event. What may be said is any set of events (`PayloadsOK`).
`Transcript` makes blocks of what is read, and elements of the blocks; a message is a
sequence of the kinds of line that `passages` tells apart, never characters. `Survey`
reads the daemon's list first and the manifests one by one, while chats move.
`Marking` and `Names` work on atoms: the least pieces of text the code's rules
distinguish, an escaped quote being one that holds a digit. Escaped, a text is read
character by character; a token is the length that is claimed at a position, and
`Colorize` is the walk that resumes after each.

### The console's own state

`Keys` follows what a writer *opened*: once the pending file is renamed over the key's
file, a rotation that still writes to it writes to the key. `Access` has requests that
look at the key twice (recognising a cookie, minting its refresh) and a sign-in weighed
behind the limiter's mutex by the time it came. `Secrets` stages each write in a file
with a name of its own.

## The runs

All runs check deadlock. A module at rest has a stuttering step (`Idle`, `Refused`) or an
environment that can always move, so a state in which nobody can move and somebody
waits would be found.

| Run | Asks | Bounds |
| --- | --- | --- |
| `prompts` | does the pool come to rest inside its cap (`SettledWithinCap`), and is it never cut below it (`NeverCutBelowTheCap`) | two chats over a pool of one, three prompts, nothing fails |
| `archives` | is a woken chat always guarded (`NeverUnguarded`); does no container start under an archive (`NoSpawnUnderArchive`); does nothing write in a tree that is being pushed and deleted (`NoWriteUnderArchive`) | one chat, three requests, failing git, dataset, daemon and adapter, containers that exit, hang-ups |
| `restarts` | does an open chat always have a whole tree (`OpenMeansTree`; half a clone, whose config still has the credential in it, is never mounted); can a chat nobody holds be woken (`CanBePromptedAgain`); does the sweep before serving leave no pile (`BootLeavesNoPile`) | two chats in any of nine shapes on disk, two prompts, crashes at any step, failing git and adapters |
| `live` | types; are claims and turn locks exclusive, and do they never outlive their holder (`OneClaimant`, `OneConversation`); does every claim come back (`ClaimsComeBack`), and is everybody answered (`EverybodyIsAnswered`) | one chat in any of four shapes, two requests of any kind, failing dataset, daemon, git and adapter, hang-ups |
| `gate` | is what the agent left never out of reach (`NothingLost`); does a retry mint nothing twice (`NothingMintedTwice`); does a rollback restore the workspace (`RolledBack`); does the manifest lead to the work (`ManifestLeadsToWork`) | one gate, two trees, three commits of the agent's and others', three stamps, every fault, followed until the chat is used beside an abandoned gate; 2.8 million states |
| `turns` | does a call end on its own answer (`EndsOnItsOwnAnswer`) and every call end (`CallsEnd`); is the adapter left waiting for nothing (`NothingLeftOwed`) and nothing of a turn left for the next (`NothingLeftBehind`); is the log the conversation (`LogIsTheConversation`), and is a reset told (`ForgettingIsTold`) | two prompts, a tolerance of three garbled lines, two lines the adapter volunteers, one line in the pipe; 1.2 million states |
| `page` | is the log readable and what is shown what was said (`PageReadsTheLog`); is no line lost between two passages and the speaker named once (`NothingUnsaid`); does what was read stay as it was read (`WhatIsReadStays`); was each heading of the console true at some instant of its pass (`ShownWasTrue`); does marking keep the text (`MarkingKeepsTheText`) | two writers and three lines; two chats that move three times in a pass; texts of four atoms; 1.1 million states |
| `console` | is the key on disk whole and the one in force (`KeyStands`); does a rotation end every session (`LoggedOutEverywhere`); do lockouts grow (`LockoutsGrow`); is each secret a register (`IsARegister`) and does a section tell of one value (`SectionsTellOfOneValue`) | two requests, three keys, one device, a shift of one bit; two secrets with two values; half a million states |
| `ground` | does every listed chat read back (`EveryChatReadsBack`); does an agent start on a network that routes out (`SpawnsOnTheBridge`), does a name come back (`NamesComeBack`), does a container open on a tree that is the agent's (`SpawnsOnItsOwnTree`); is the pool's set form the code's walk (`WalkAgrees`); does the form keep its word (`TheFormKeepsItsWord`), and does the token go to GitHub only (`TheTokenGoesHome`) | three chats, two writers, two calls at the daemon about two chats, three entries of a tree with git, handovers and agents at it and clients that hang up, caps to three, texts of five atoms (six for an environment); 1.1 million states |

The bounds. A claim and a turn lock are per chat, so what two handlers do to each
other's guards shows on one chat; capping and sweeping relate chats, and two chats
over a pool of one are the smallest that make a victim and a survivor. Three requests
let one hold a guard, one wait for it and one act on what the first left. A request
has at most one connection in hand and a chat holds one, so with one chat and two
requests, or two chats and requests that reuse what is dropped, three connections
never run out: four give the same states. `Dawn` gives every chat on disk a stamp of
its own. `clock` moves once per request. Symmetry is used where no liveness is
checked.

`restarts` starts from every one of the `Shapes` but `standing`, an archived chat whose
container is still up (a crash between the manifest and the teardown of an archive,
`src/chats.rs:898`). Its tree is spared by the first sweep, which takes nothing a container
holds, and no wake takes the chat while it is there, so `CanBePromptedAgain` is not true of
it. `live` has that shape.

The prompts run starts from no archived chat on purpose: a capping weighs with the
manifests it scanned, and one that was archived at the scan and revived since is
parked below the cap. That a revival can be hit this way is the stale weighing of
`turn_cut`, not a property of its own.

In `gate`, two trees are enough to tell work from other work, three commits make an
amendment, a tip that moves and somebody else's commit on the branch, and three
stamps give two attempts that mint, and any number before the second that mint nothing: an
attempt begins only with a stamp for a checkpoint and one for a rescue to spare.
`MaxCommits` bounds the agent and the others, not the gate, which commits as often as the
stamps allow. An abandoned gate is followed to its end; a state in which the chat has been
used beside one is the last of its behaviour (`Followed`, which is `~crowded`), since no
property says anything from there on; what may happen then is told below. `Superseded`
takes three different works and cannot arise with two trees: that part of
`ManifestLeadsToWork` is there for the theorem, which is about any number of them.

In `turns`, two prompts make a turn and the one its leavings would reach; the
adapter's own ids include one that a call of ours carries while it is awaited. One
unread line is enough, because the client takes lines one at a time and the adapter
may always put the next: `MaxUnread` bounds how far it runs ahead, not what it says.
In `page`, a log of three lines has room for a call and its two amendments, or a
message cut by a notice, and each payload has one of the shapes the code tells
apart. In `console`, a shift of one bit passes its width at the second lockout, as
thirty-two bits do at the thirty-third; the code's constant is the same operator at
`Width = 32`. In `ground`, two calls on two chats make the race for the network; five
atoms spell a user, a port, a query and another case around a host; two lines of an
environment are six.

Several properties name what they leave out, by an auxiliary variable that records
the one thing in the history that excuses them: `cuts` (two appends at once, a crash or a full disk between the
two writes of a line), `astray` (above), `overlapped` (two rotations at once; for good),
`stray` (a refresh minted across a rotation), `spoilt` (a container that failed to start,
exited, or was not taken away, until a teardown has come through for it), `swapped` and
`crossed` (somebody at the network, or a change behind a spawn's back), `beside` (a handover
the core worked in the tree beside: a creation an archive met, or a wake that met the git
of an archive or revival whose client was gone), `crowded` (the chat used beside an abandoned
gate; for good), `revived` (a chat brought back in the middle of a pass), `moved` (a secret
changed after the action a section answers), `stray` and `Unheld` in `Chats` (an agent nobody waits for
any more, a turn whose connection was forgotten), `passed`, `Strayed` and `Superseded`
(below). Each is a thing the code does
not guard against, and each is set only by the step that is that thing.

The gate promises less than one might read into it. `NothingMintedTwice` is about
branches that stand on what their own attempt committed: what a crash left committed
under HEAD is the agent's to the next attempt, which looks for it by its sha.
`ManifestLeadsToWork` leaves out three ways in which the manifest does not name the
work though a checkpoint holds it: the remote lists it and does not hand it over
(`Unread`; the silence is justified by a push that follows, and after
`checkpoint_cut_off` none does), the agent had left HEAD off the branch's tip
(`Strayed`, next to the hole `checkpoint_cut_off` describes), and the agent went back to
what an earlier checkpoint of two holds (`Superseded`: the retry finds a clean tree and
takes the latest). The work is on the remote in all three.

`NoWriteUnderArchive` sets aside an agent that is at work without anybody waiting for it
(`stray`) and a turn over a connection its chat no longer holds (`Unheld`): no lock an
archive meets stands for either. The properties of `gate` say nothing once the chat has been
used beside an abandoned gate, `NoSpawnUnderArchive` is checked without creation (whose spawn
knows no claim), `OpenMeansTree` and `CanBePromptedAgain` where only prompts run and the
dataset itself does not fail. What happens otherwise is the last section of this chapter.

### Fairness

`Fairness` of `Chats`, used by `live`: a handler that can move does (`WF`), and what
it awaits answers or fails, *except* at the steps of `Unbounded`: git and the startup
script run without a timeout, and the patience of an ACP call starts over with every
line the adapter says, so that one which talks on without answering is waited for
without end. The liveness properties exclude exactly these waits: `EverybodyIsAnswered`
for the request that is in one, `ClaimsComeBack` for the claim whose own holder is in one.
Nobody waits for another's. `SF` on `CapScan` is the tokio mutex, which is first come, first
served. Nothing is fair about requests that arrive, clients that hang up, faults and the agent.

`FairSpec` of `Acp`, used by `turns`: weak fairness of the client, which has a line to
read or a patience that runs out, and of the limit on a replay, which is a timer. The
adapter, the garbler and every fault owe nothing. The lines the adapter says are
bounded, the garble is not: that is what `CallsEnd` is about.

### What the code does otherwise

Three runs end in a violation; each is a way the code leaves what its own
documents or comments promise.

| Run | Promise | What happens |
| --- | --- | --- |
| `turn_cut` | "A turn in flight outranks the cap" (ADR-0002, amendment; `src/pool.rs:14`) | `cap_the_pool` parks victims it weighed earlier; a turn that began since loses its container |
| `swept` | a sweep must not delete the clone of a revival (`src/sweep.rs:31`) | the sweep reads the open chats first and the claims last; a revival that ends in between is in neither |
| `handed` | "one entry the agent does not own is enough to stop it committing" (`src/chats.rs:1175`), and a failed archive leaves the chat as it was (`src/chats.rs:112`) | a failed archive of a *connected* chat leaves entries the core owns; the next prompt needs no wake, and only a wake hands the tree back |

These were met on the way as well. No run is kept for them; each is excluded by name
from the property it would break.

- A prompt whose client hangs up, or whose agent falls silent, frees the turn lock while
  the agent writes on; an archive pushes, the agent writes, the tree goes ("Work is never
  destroyed unless git has it", ADR-0002 rule 3).
- A connection is forgotten by its chat's id, after its turn lock was let go. Two turns over
  one spent connection each forget it at their end; when a prompt wakes the chat between the
  two, the second forgets the *new* connection, with a turn in flight over it. An archive
  then finds no connection, takes no turn lock, and deletes the tree under the agent ("the
  one thing that must never happen under an agent that is writing into it",
  `src/chats.rs:839`). It takes four requests, one more than `archives` has.
- An archive pushes a checkpoint and fails; the agent changes its work, a second archive
  pushes another checkpoint and fails; the agent goes back to the first work, which a third
  archive finds in the first checkpoint, and fails. The retry finds a clean tree, takes the
  *latest* checkpoint cut off the tip ("two attempts that both landed leave the later one
  holding the work as the agent left it", `src/git.rs:826`), and the manifest names work the
  agent had abandoned (`Superseded`).
- `create` claims nothing and writes its stale manifest over that of an archive that has
  run meanwhile: an open chat without a tree.
- A container that was created and would not start keeps its chat's name, and every later
  spawn is refused until an archive tears it down ("the prompt can simply be put again",
  `src/chats.rs:1076`).
- The client of an archive hangs up and its gate works on unguarded; a second archive
  finds the tree clean because the first has just committed it, passes with the branch
  alone, and the tree goes before the checkpoint is pushed (`crowded`).
- The same abandoned gate beside a prompt instead: the chat is open, its claim is free, so a
  wake hands the tree back and spawns while git still makes entries as the core in it
  ("one entry the agent does not own is enough to stop it committing", `src/chats.rs:1175`).
  A revival whose client hung up leaves a clone and a handover running the same way
  (`beside`, in `Handover`).
- A capping tears a container down under no claim. A prompt that wakes that chat meanwhile
  may find the container gone between its list and its connection, or spawn between the
  teardown's stop and its remove: the daemon refuses the name, and `spawn_failure` tells the
  prompt that a live container has it, over one that is going (`NamesComeBack` says which
  containers a clash can be with).
- Two rotations on one pending file and a crash: the key on disk may be half a key, which
  the next start refuses ("a crash leaves either the old key or the new one",
  `src/auth/keystore.rs:78`).
- A failed sign-in is counted from the time it came: one that waited for the limiter's
  mutex longer than another shortens the lockout.
- An archive whose container will not go warns, and deletes the tree; a wake may find that
  container live and take it, over a tree that was deleted under it and cloned again
  (`src/chats.rs:1267`).
- A wake fails when the agent removes an entry between its listing and its handover.
- Somebody who replaces the agents' network between a spawn's last look and its start puts
  the agent on whatever is there then.
- The form previews a branch with the browser's lower case, which takes the Kelvin sign to
  `k`, while `slugify` takes it for a separator (`src/git.rs:156`); `names_a_branch`
  accepts names git does not, such as `a.lock` and `a//b`, which the clone then refuses;
  the value of a line of the environment that ends in two returns loses both.
- "A path is claimed from the first character of the run it is in, so no boundary of its own
  is needed" (`src/ui/chat.rs:484`): not where something else claimed the beginning of that
  run. `a/b.c:12d/e.f` is marked as two paths, and of `1,2/a.b` the count takes `1,2` and
  `/a.b` is a path, while `1.2/a.b` is one path whole. The text is kept, which is what the
  marking promises first; `MarkingKeepsTheText` names the two.

## What is proved

For every value of the constants that satisfies the hypothesis: any sets of chats, requests,
connections, clients, keys and writers, any pool, any number of works, stamps and turns, any
set of faults the hypothesis does not name.

| Theorem | States | Where |
| --- | --- | --- |
| `TypesHold` | `Spec => []TypeOK` of `Chats` | always |
| `ClaimsAreExclusive`, `ConversationsAreExclusive` | `Spec => []OneClaimant`, `[]OneConversation` | always |
| `PromptsAreGuarded` | `Spec => []NeverUnguarded` | always |
| `NothingStartsUnderArchive` | `Spec => NoSpawnUnderArchive` | no creation |
| `NothingWritesUnderArchive` | `Spec => NoWriteUnderArchive` | no creation |
| `OpenChatsHaveTheirTree` | `Spec => []OpenMeansTree` | prompts only |
| `ChatsCanBePromptedAgain` | `Spec => []CanBePromptedAgain` | `SweptUp` |
| `TheFirstSweepLeavesNoPile` | `Spec => BootLeavesNoPile` | `SweptUp` |
| `CappingsCutNoDeeper` | `Spec => NeverCutBelowTheCap` | finitely many chats, `Unreviving` |
| `ThePoolSettles` | `Spec => []SettledWithinCap` | finitely many chats, `Settlable` |
| `GateInvariant` | `Spec => [](~crowded => MInv)`, the inductive invariant of `ArchiveGate` | always |
| `NothingIsLost` | `Spec => []NothingLost` | always; nothing once `crowded` |
| `MintedOnce` | `Spec => []NothingMintedTwice` | always; nothing once `crowded` |
| `RollsBack` | `Spec => RolledBack` | always; nothing once `crowded` |
| `LeadsBack` | `Spec => ManifestLeadsToWork` | always; nothing once `crowded` |
| `ConversationInvariant` | the inductive invariant of `Acp` | always |
| `OwnAnswer`, `NothingOwed`, `NothingBehind` | `Spec => []EndsOnItsOwnAnswer`, `[]NothingLeftOwed`, `[]NothingLeftBehind` | always |
| `LogIsTold`, `ForgettingTold` | `Spec => []LogIsTheConversation`, `[]ForgettingIsTold` | always |
| `PlaneInvariant` | the inductive invariant of `Plane` | `ShapesOK` |
| `NameIsFree`, `AgentsReachTheApi` | `Spec => []NamesComeBack`, `SpawnsOnTheBridge` | `ShapesOK` |
| `AccessInvariant` | the inductive invariant of `Access` | `KeysOK` |
| `KeyAlwaysStands`, `EverybodyIsOut` | `Spec => []KeyStands`, `[]LoggedOutEverywhere` | `KeysOK` |
| `LockoutsAlwaysGrow` | `AccessSpec => LockoutsGrow` | `KeysOK`, `LoginsOK` |
| `SecretsAreRegisters` | `Spec => IsARegister` of `Secrets`: the refinement of `Register` | always |
| `SectionsAreTrue` | `Spec => []SectionsTellOfOneValue` | always |
| `DatasetReadsBack` | `Spec => []EveryChatReadsBack` of `Dataset` | always |
| `TreeInvariant` | the inductive invariant of `Handover` | `RootOK` |
| `SpawnsOnOwnTree` | `TreeSpec => SpawnsOnItsOwnTree` | `RootOK` |
| `LogInvariant` | the inductive invariant of `EventLog` | `PayloadsOK` |
| `ThePageReadsTheLog` | `Spec => []PageReadsTheLog` of `EventLog` | `PayloadsOK` |
| `WhatIsReadIsKept`, `EverythingIsSaid` | `Spec => []WhatIsReadStays`, `[]NothingUnsaid` | `PayloadsOK` |
| `SurveyInvariant` | the inductive invariant of `Survey` | always |
| `ShownIsTrue` | `SurveySpec => []ShownWasTrue` | always |
| `TheRuleIsTheWalk` | `PoolSpec => []WalkAgrees` of `PoolWalk` | `PoolsOK` |
| `TokensGoHomeAlways` | `FormSpec => []TheTokenGoesHome` of `Form` | always |
| `FormsKeepTheirWord` | `FormSpec => []TheFormKeepsItsWord` | always |
| `MarkingKeepsEveryText` | `MarkedSpec => []MarkingKeepsTheText` of `Marked` | always |

**The lifecycle.** The assumption is `ConstantsOK` of `ChatsState`: `None` and `Boot`
are nobody's names, the pool and `Dawn` are naturals, the other parameters are among
those that exist. `TypeOK` is not inductive: that a step writes `manifest[chat[p]]` keeps
its type only if `chat[p]` is a chat. `Typed` adds what ties a program counter to the
locals: a process inside a handler works on a chat (`AtWork`), and the process at
start-up does nothing but sweep (`BootOnlySweeps`). `ChatsProofs` has one lemma per
handler and per thing that can happen to one, with a step per action below it.

`OneClaimant` is not inductive either: a turn ends by dropping *its* lock, which is
safe only because the process has the connection it locked in hand. `Guarded` adds
`WakersClaim` (a wake's claim says waking), `Connected` (where the code has a
connection in hand, so has the process), and carries `OneClaimant` and
`OneConversation` together; `NeverUnguarded` follows from it. A hang-up frees exactly
the guards `HoldsClaim` and `HoldsLock` name, which is where the argument would break
if one of them were left out.

**Under an archive.** Without creation every container starts from a wake, and a wake has
the chat's one claim (`NoCreation`, `Guarded`), which the archive has: so nothing starts. A
turn has no claim any more. What an archive meets is the turn's lock, if it looked at the
connection the turn goes over; `InHand` says that an archive past its look has the
connection the chat holds, if it holds one, and its lock. A turn over any other connection
is what `Unheld` sets aside: the invariant found that case before any run did.

**The trees and the first sweep.** A core that serves prompts. A manifest turns open only
under a request that has a whole tree (`Cloned`); every other writer of one works on a chat
that is open already (`Placing`); and nobody is served before the first sweep is over
(`Serving`). `Grown` carries the trees, `Planted` all of it, through every fault. That no
pile is left needs more of the world, `SweptUp`: what was archived was pushed, only an open
chat has a container, and what a sweep has read of a chat is still so (`Piled`). With a
failing store the sweep may leave what it could not remove; with a container standing over
an archived chat (a crash between the manifest and the teardown of an archive,
`src/chats.rs:898`, leaves one) a wake is refused until the next sweep. The constants of `restarts` satisfy
`SweptUp`.

**The pool.** Lemmas on `BeyondThePool`: what it cuts leaves the cap in place
(`CutsOnlyTheOverflow`), and what it keeps is within the cap or occupied
(`KeepsWithinTheCap`); both take the freshest or the last chat out of order, by the least
number of a set, which follows from the well-foundedness of `<`. `CappingsCutNoDeeper`
carries, for the one capping that may be at it (`parking`), that its victims are live and
that enough of what it listed is still there without them (`KeptEnough`); what was spawned
since is live too (`SpawnedLive`). `Unreviving` leaves out what ends a container by other
ways, and revivals: a chat revived between the scan and the list of one capping is a victim
it never weighed. `ThePoolSettles` follows the last capping, the one that weighs with every other request through (`Quiet`):
it listed all that is live, found nobody busy, and leaves no more than the cap
(`Settling`). Before it, a capping may leave too much; whoever was at work then caps again.
The weighing needs stamps that tell any two chats apart, though they are written back from
copies of manifests read long before: a stamp, on disk or in hand, is of one chat, and none
lies in the future (`Stamped`). The constants of
`prompts` satisfy both hypotheses.

**The gate.** No hypothesis, but a horizon: the theorems speak of a chat until it is used
beside an abandoned gate (`crowded`), since past that `NothingLost` is false (above). Until
then whoever enters the chat is alone in it (`EntersAlone`), hang-ups and abandoned gates
included; and `crowded` never clears (`CrowdedStays`), so that what a step shows of the state
before it is enough. The invariant `IInv` ties the clone to the branches it has
cut, a gate's locals to the step it is at, and what the remote holds to what the gate says
has landed; `NothingLost` follows. `MInv` adds what a branch minted off the chat's own was
minted *from*, which is what a retry looks for. The histories are chains of parents, any
number long: that an ancestor of an ancestor is one, and that what a branch keeps stays
reachable from every commit on top of it, are lemmas by the least counterexample, since
`Past` is a set and not a recursion.

**The conversation.** No hypothesis: any tolerance, any number of turns, any pipe. Each
number we gave is asked, awaited, answered or given up on once (`OnceEach`), what is awaited
is the current call's (`Current`), an update in the pipe belongs to the turn or the replay
it was said in (`Replaying`), and what the adapter asked waits in the pipe or is being
answered (`Owed`). On these rest what may still be added to the log (`Conv`) and what a reset
still has to say (`Forget`).

**The plane.** `ShapesOK`: before the first call the network is missing, or has one of the
two shapes. A chat has one spawn, with any number of teardowns beside it (`OneSpawn`). What a
call last saw of the network still holds, unless somebody else's step is recorded (`Seen`).
Of its container it may count on nothing: that is why the start is by id, and why the
invariant only accounts for each container that is there and does not run, as one that a
call is about to start or to remove, or that a failure left (`Accounted`).

**The key store and the sessions.** `KeysOK`: no request opens the store. `KeyInv` says that
a key is in one place (to be written, in the pending file, or in the key's file), that unless
two rotations overlapped the files are where the one writer left them, and that the key in
force is none that is yet to be moved. A cookie under a key from before a rotation that
succeeded is under neither the key in force nor the one on disk (`Honest`), but for a refresh
minted across the rotation (`stray`), which the property sets aside.

**The secrets.** Assumption `SecretsOK`: nothing is not a value. The mapping takes what
the files hold for the registers, and a client between its first step and its rename for
one that wants a change (`Wanted`). The invariant adds to the types that what a client
has staged by the time it renames is what it wants (`StagedIsWanted`); it is what makes
the rename a register's write, and it would fail were the pending file shared. Every
other step maps to a register step that begins or gives up, or to none. The sections
follow from the same invariant: a value read is the register's at that moment.

**The dataset.** Assumption `DatasetOK`: a writer is not a creation. The invariant says
that a file which is synced and waits for its rename is whole (`TempIsWhole`), that the
manifest of a published chat is a synced one (`ManifestIsSafe`), which a power cut cannot
take, and that a creation has laid what comes before the step it is at (`LaidInOrder`).
`EveryChatReadsBack` is what these say of a chat that is listed.

**The handover.** Assumption `RootOK`: a tree is itself an entry of it. A container comes up
where a wake, a creation or a ladder starts one, and each of these is past a handover. The
invariant says that whatever a handover has passed, and the whole tree once it is through, is
the agent's (`GivenAway`), as long as the core has not changed the tree since it was listed:
an agent writes only what is its own, a loose handover gives to the agent, and every step
that writes or removes as the core records the handovers it happens beside (`beside`). A
handover that lists anew is beside nothing until the core works again. So an archive beside a
creation, and git left running by a client that hung up, cost the spawns of the handovers
they overlap, and no other.

**The log and its page.** Assumption `PayloadsOK`: what is said is an event of a shape that
`entry` tells apart. The invariant says of the file that every line but the last is one whole
event, unless an append was cut (`Unbroken`; the last line is whole, empty, or waits for the
one writer whose pen is down), and of the page that its history and its tail are, put
together, a prefix of what the log reads as (`Shows`). The second is inductive only because a
log that reads never changes a line it has (`Grows`): a piece written onto the last line
makes it longer or unreadable, and an end begins a new one. That the blocks of two halves say
what the whole log says is a lemma about each operator of a reading: what a voice said and what
is neither chunk nor tool are put in one line after the other (`SpokenConcat`, `RestConcat`),
the latest word on a tool call is the second half's, if that has one (`LatestConcat`), and one
event more adds to the blocks exactly what it adds to the log (`AddAdds`, with a lemma for
`join` and one for `amend`). `amend` needs more than the code says: that a call with an id has
one block (`Alone`).

A message is read line by line. `Kept` is what of a reading is over, however the message goes
on: the passages so far, and of an open run of prose what `read_prose` has set down already.
Each line only adds to it (`TakeLineGoesOn`), and `passages` is `Kept` with at most one passage
more (`PassagesAre`); so all but the last passage of any beginning stand at the end
(`WhatIsReadIsKept`). `TakenSays` is what a half-read message says in its passages, its run of
prose and its open fence together; each line adds itself to it if it says anything
(`TakeLineSays`), whence `EverythingIsSaid`.

The readings are folds, over sequences of any length. `Folding` proves of the community
modules' `FoldLeft`, which is a recursion over sets of indices, that there is a function that
solves it, that two solutions agree, and so what a fold of one element more is. Its step is a
constant of the module, and `PageProofs` instantiates it with `Add`, `ReadLine` and
`TakeLine` (the folds of the form, below, likewise); the induction is over the set of the sequences for which a statement holds
(`SeqInduct`), not over the statement.

**The lockout.** Assumption `LoginsOK`: the free attempts, the longest lockout and the width
of a doubling are numbers. `Shifted` is a recursive function; that it is defined and never
falls is proved as for the folds. A lockout is then no shorter than the one before
(`LockoutGrows`: the shift grows, what comes past the width is the greatest number of that
width, and the cap is the same for both), and `LimiterInv` says that what is locked is locked
no longer than the lockout earned last, counted from the attempt counted last.

**The survey.** A page is true though its readings are of different moments because a chat's
status is drawn from two: what the daemon listed and what its manifest said later. The
auxiliary `seen` keeps every status that was true of a chat since the pass began;
`AllNoted` says that the status of this moment is among them, `ToldOf` that a chat the
daemon did not list was parked at some moment of the pass, unless it was archived or revived
since, and `RowsWereTrue` carries both over each reading. Archived chats are where it would
break: one archived between the two readings was open with a container when it was listed.

**The pool's walk.** Assumption `PoolsOK`: finitely many chats, stamps and caps that are
counted. The lifecycle is proved with the set form of the rule, the code walks the holders with a
running count, and `TheRuleIsTheWalk` closes the gap. It is an induction over the walk, which
`Induct` supplies as the least number outside a set of naturals: that there is an order of
the holders to walk in (`OrderExists`: take the stalest away, order the rest), that the walk
is a function (`WalkExists`), and that after `n` chats the running count is what the set form
counts before the next (`VisitTallies`, `WalkIsTheRule`). `OneCappingDoes` is about the set
form alone.

**The form.** Texts of any length over the atoms of a field. Reading one is either a fold or a
cut. The folds (the user stripped off a URL, a field split at a return or a slash,
`slugify`'s hyphens, the lines of an environment) go through `Folding`; a cut is at the least
or the greatest index of a kind, and what stands on either side of it is a lemma about that
operator. `TokensGoHomeAlways` needs that a URL which names GitHub has it between its slashes
and whatever comes next, wherever a user or a port stands. `FormsKeepTheirWord` needs the shape
of a slug (`Dashed`: no hyphen doubled, and only one at an end, which the trimming takes), that
spaces around a slug change nothing of it, that the browser's preview and `slugify` agree on
every text without a Kelvin sign, and of each line of an environment that it is refused, or
reaches the agent under its name.

**The marking.** The walk of `colorize` is a recursive function over positions. That it exists
(`WalkThere`) and that its pieces lie end to end from where it starts (`WalkTiles`) hold for
whatever claims the positions, as long as it claims at least one and none past the end; so they
serve `ProseLine` too. What each rule claims is a lemma (`EntityIs`, `LinkIs`, `PathIs`,
`CountIs`, `ChangeIs`), and `PieceIs` puts them together. No piece that starts outside an
escaped quote ends inside it (`QuoteStep`): an entity ends at a semicolon, a link at a space or
the end, and nothing else holds an ampersand. A path that could have been claimed from an
earlier character of its run would have been (`PathsStartEarly`), so what stands before one was
claimed by something that no path may go on from, and `PathStep` finds the two exceptions the
property names. The second was found by this proof; the texts of the run had no comma before.
Of prose it says that a backtick left standing has no second one after it on its line, or one
right after it (`LoneTick`); a backtick behind a link may be the link's, which goes on to the
next space (`inline_link`).

TLC evaluates the assumptions on every run of these modules, and has checked the
invariants on the bounds above.

Only model-checked: the three properties that are false of the code, and liveness under
fairness (`ClaimsComeBack`, `EverybodyIsAnswered`, `CallsEnd`), which is outside what the proof
system does. Every invariant and every action property of the other runs is a theorem. The
hypotheses of the lifecycle name operations and faults. They are enough, and not shown to be
the least; the section on what the code does otherwise and the comments at `SweptUp` and
`Unreviving` say what goes wrong without them. The texts are those that can be said with the
atoms of a module: that two characters the rules do not tell apart may stand for one another is
in the choice of the atoms, and not proved.

## What is not modelled

- The startup script's output and the notice of a permission mode: wording over what
  the lifecycle already does.
- Configuration, the command line and log text: read or written once, no state.
- `memory.rs` and `scripted.rs`: the doubles of the tests.
- Routes, the same-origin check, styles, syntax highlighting and the layout of a page;
  `idle_for` and the wording of what was swept; the image tag and the options of a
  container.
- The HTTP calls `verify` and the update check make to others: only that a verification is
  about the value it read matters here.
- The password hash, and the signature of a cookie, which are taken to tell right from
  wrong.
- The graceful shutdown: a core that is stopped is one that crashes with nothing under
  way.

## The plan

An abstract gate that `ArchiveGate` implements (everything the agent left is on the remote,
or the chat is open with it). An abstract owner per chat that `Chats` implements is not on
this list: a turn over a connection that was forgotten (`Unheld`) owns a chat beside its
next owner, so the code implements none.
