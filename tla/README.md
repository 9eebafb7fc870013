# Verification of the multithreaded chat application

TLA+ models of the UDP chat server and client of this repository, the TLC
configurations that check them, and proofs checked by TLAPS. The code is the
reference: every definition is translated from the C sources, and `PROJECT.json`
("map") names the lines that each one stands for.

## 1. The system

One server process and any number of client processes talk over UDP. Neither
side retries, acknowledges or numbers datagrams.

| Component | State | Operations | Source |
|---|---|---|---|
| Task queue | `data`, `head`, `tail`, `size`, a mutex, two conditions | `q_append` (listener), `q_pop` (manager), tokenising in place | `queue.h` |
| Server listener | the datagram in hand | receive, append | `server_interface.c` 29-49 |
| Queue manager | the command in hand, `active_worker` | pop, parse, mark the sender active, start a detached worker | `server_interface.c` 391-467, `server_types.h` 84-94, 282-296 |
| Monitor of the client list | `AR`, `WR`, `AW`, `WW`, two conditions | check-in and check-out of readers and writers | `server_types.h` 49-60, 240-280 |
| Client list | `head`, `tail`, nodes with address, name, `last_active`, `ping_sent` | add, find by name or address, remove by name, rename | `server_types.h` 38-143, `server_interface.c` 52-108 |
| Command workers | pointers into the list, kept between sections | conn, say, sayto, disconn, mute, unmute, rename, kick, unknown | `server_interface.c` 62-387 |
| Connection manager | candidates to ping or to remove | scan once a second, ping, remove | `server_interface.c` 469-537 |
| Chat history | array of 100 messages and its count | append (say), send the last 15 (conn) | `server_interface.c` 81-88, 184-187 |
| Command parser and texts | none | tokens to kind and arguments, arguments to text | `cmd.h`, `queue.h` 36-55, `server_types.h` 15-36, `client_types.h` 125-140 |
| Client connection state | `connected`, `name`, mutex, condition | connsuccess, disconnresponse; two input threads | `client_types.h` 184-251, `client_interface.c` 160-301 |
| Client messages and display | `messages`, `message_count`, mutex, condition | say, disconnresponse, rename, mute, redraw | `client_types.h` 125-181, `client_interface.c` 99-157 |
| Mute table | 100 hash chains | insert, remove, contains | `custom_hash_table.h` |
| UDP layer, start-up, terminal output | | thin wrappers, allocation, printing | `udp.h`, both `main`s |

How they interact: the server's listener hands datagrams to the queue manager
through the task queue; the manager parses each one, updates its sender's
activity *without* the monitor and starts a worker thread; workers and the
connection manager share the client list under the monitor, and workers share
the chat history under nothing; answers go out as datagrams, most of them after
the check-out. The client has the same listener, queue and manager; each server
message gets a thread of its own, which changes the connection state or the
messages and signals the display and the input threads.

What is hard: pointers to nodes survive the section they were found in;
decisions are taken in one section and acted upon in another; the monitor's
counters carry the whole exclusion; the queue lends a slot to its reader after
the unlock; the history is shared without a lock; answers of concurrent handlers
overtake each other; one condition variable serves two kinds of waiters; and a
text passes four buffers with four different limits. `PROJECT.json` ("hazards")
lists each of these at its line with the properties that are about it.

## 2. The modules

| Module | What it models |
|---|---|
| `BoundedFifo` | what the queue promises: a bounded channel and the message in its reader's hand |
| `TaskQueue` | `queue.h` with its listener and manager; refines `BoundedFifo` |
| `WorkerPool` | the queue manager's loop and its worker constraints |
| `ServerIntake` | `TaskQueue` and `WorkerPool` composed: from datagram to started worker |
| `RWLock` | a readers-writer lock |
| `Monitor` | `Monitor_t` at the level of counters and conditions; refines `RWLock` |
| `WorkerLocking` | every handler's series of read and write sections, run through `Monitor` |
| `ClientList` | the list and the heap its nodes live in: lookups, add, remove, rename |
| `CommandWorkers` | queue manager and command workers on `ClientList`, with `RWLock` as the monitor |
| `ConnectionManager` | the inactivity scan with time, on `ClientList` |
| `ChatHistory` | the unlocked history, load by load and store by store |
| `ClientConsole` | the client's connection state, its two input threads, the answers about membership |
| `ClientScreen` | messages, name, mute table and display, with the client's two mutexes |
| `MuteTable` | the hash table as a value; used by `ClientScreen` |
| `MessagePath` | a message from the line typed to the line shown, through every cut, join and copy |
| `MC*` | values of the constants for TLC |
| `ClientListProofs` | lemmas about the routines on the list, for the two modules that use it |
| `ServerSyncProofs` | proofs about `ServerIntake`, its two parts, and `Monitor` |
| other `*Proofs` | proofs about the module they are named after and the modules it extends (section 4) |

**TaskQueue, WorkerPool, ServerIntake.** `q_append` and `q_pop` hold the lock
throughout, so the part of each between two waits is one action:
`AppendWait`/`AppendTask`, `PopWait`/`PopTask`. `pthread_cond_wait` is a program
counter of its own ("asleep") that a signal or a spurious wakeup changes.
`Parse` is the manager's use of the token pointers after the unlock. In
`ServerIntake` the manager takes turns between the two modules: it pops and
parses, then passes check-in, start and check-out, while the listener goes on.
On the client, `cli_listener` and `cli_queue_manager` use the same queue.

**Monitor, WorkerLocking.** The variables are the counters of `Monitor_t` plus,
per thread, where it is (`phase`). `pthread_cond_signal` wakes any one waiter. A
woken thread takes the mutex again in a step of its own and re-tests. `WR` is
decremented when a reader re-tests, as in the code; `WW` never is. `Sections`
lists what each handler passes through, early returns included, and the scan.

**ClientList, CommandWorkers.** The list is the sequence of nodes reachable from
`*head`; `next` and `tail` are not variables of their own. A freed node stays in
the heap, marked, so that a pointer to it is recognised. Entering a section is
one action and its body with the check-out another; bodies are atomic because
they run inside a readers-writer lock, which `ServerSyncProofs` proves the
monitor to be. A conn$ is taken at any time, also from a client that is listed
or has one unanswered, as the client forwards it (`client_interface.c` 201-206,
291). Everything a handler does with a node outside its sections is an action of
its own and goes through `Follow`: NULL crashes the process, a freed node
crashes it or yields anything, and `misuse` records the place. `told` is what
the server last told each address about its membership.

**ConnectionManager.** Instants are ages, capped where all comparisons of the
code have become the same, so time goes on for ever in finitely many states.
`lag` is the age of `current_time`, taken at the start of a round. A turn of the
scan is two steps, as `last_active` and `ping_sent` are written without the
monitor by the queue manager (`Hear`, `MarkPing`) in between. A disconn$ looks
its sender up in one section and removes by name in the next. Of the monitor
only what matters is kept: no write section during the scan, and no scan once a
writer has waited (`waited`). `asked` is a history variable: the age of the last
ping$, and whether it was answered in time. A behaviour in which a pointer is
misused ends there.

**ChatHistory.** Test, index, store, load and increment of lines 184-186 are
steps of their own, and so are the loads of lines 82 and 83. A store outside the
array leaves the array alone, a load outside it yields anything. `raced`
remembers whether two handlers were ever between test and increment at once.

**ClientConsole.** A section that only tests or sets the flag is one step, taken
while `connection_mutex` is free. The two input threads read one stdin. `nodes`
is how often the server lists the client, `asked` the conn$ it has still to
handle, `sent` its answers on their way, which arrive in any order, late or
never: each is sent after a check-out and handled by a thread of its own.
`joined` and `spoke` remember that the client was ever listed and that it ever
sent anything but conn$.

**ClientScreen, MuteTable.** Each handler of `execute_server_command` is a
sequence of steps at its lock and unlock operations, and so is the display with
its first prompt, which it draws under `connection_mutex` alone. ping$ only
prints, without a mutex, and connfailed$ is never sent by the server; both are
left out. `dirty` is a history variable: something shown has changed since the
last complete drawing, which a mute$ of a muted user does not do. Keys are
users, `Hash` is any function to buckets, and `muted` is what the table should
contain.

**MessagePath.** A text is a sequence of words; a word is known by what it
stands for, its length, the place of a colon and whether it ends in a dollar
sign. `Fit` is `strncpy` and `snprintf`, `Kept` is `strtok`, `Tokens` is
`get_and_tokenise`, `CommandOf` is `command_handler`, `JoinArgs` and `Filled`
are the two joins. The server's answer is that of any handler to a user on its
list: the message of say$ and sayto$, the echo of mute$, unmute$ and rename$,
errors, connsuccess$ and disconnresponse$, the `SERVER: ... has been kicked`
line that kick$ broadcasts, or none. A line without a word leaves the command as
`malloc` returned it (`cmd.h` 32): the stages `unset_at_server` and
`unset_at_client` stand for a process that handles such memory, and nothing is
said of what it does then. Whether the client ever comes to that is a property
of its own.

## 3. The runs

| Run | Result | What it shows |
|---|---|---|
| `server_intake` | holds | ring of 4 slots and worker constraints: consistent, FIFO, no lost wakeup, the lent slot is stable, every queued request is dispatched, every append completes |
| `worker_locking` | holds | say, conn, disconn and kick handlers in the monitor together: counters exact, exclusion, no stranded writer, writers first, implements `RWLock`, every waiting writer gets in |
| `command_workers` | holds | three commands of any kind: list well formed, admin succession, kick$ only by the owner of the node that headed the list at the check, disconn removes a node of its sender, NULL is followed only for a client that was removed, a broadcast starts at the head, sections see a stable list |
| `connection_manager` | holds | nobody is removed who was not sent a ping$ and left the time to answer it, who falls silent is off the list in the end |
| `chat_history` | holds | without a race the history is complete and a newcomer misses nothing |
| `client_console` | holds | the responsible input thread is awake and comes to `fgets`; nothing but conn$ goes out before a welcome, in whatever order answers arrive |
| `client_screen` | holds | prompts read the name whole, messages stay apart, the mute table is the set of muted users, no thread is stuck between the mutexes |
| `message_path` | holds | the client always handles a command that was set, its buffer of 300 is not overrun, messages within the limits arrive whole, what is shown is recognised as its sender's (or the server's) |
| `say_completes` | violated | after one writer has waited `AW + WW > 0` for ever: the second section of `say` is never entered |
| `freed_nodes` | violated | the queue manager's walk for the next command follows a node that a disconn$ has freed |
| `answered_ping` | violated | a retping$ between the ping$ and the stamp of `ping_sent` is overwritten; later the client is removed though it answered |
| `display_update` | violated | a say$ that is stored and signalled while the display is not in its wait is not shown |

The violated runs each check one statement of the repository's documents or
comments; `PROJECT.json` ("findings") quotes it.

**Bounds and why they are enough.**

* `ServerIntake`: four slots give an empty, a partly filled, a full and a
  wrapped ring with the lent slot on either side of the wrap; two texts tell two
  messages apart; two running workers exceed the limit of one.
* `WorkerLocking`: four threads are one of each section pattern (read-read,
  write, read-write, read-write-read), hence two waiting writers and two waiting
  readers at once; one spurious wakeup. As each thread has finitely many
  sections, `WritersGetIn` says nothing of an endless stream of writers.
* `CommandWorkers`: two clients on the list and one that may join, two names for
  one of them so that rename matters; three commands of all kinds in three
  workers, so every handler meets every state another pair of commands can make,
  that of a client listed twice included.
* `ConnectionManager`: one client on the list that may rename itself, and one
  more node, for another client that joins, under the first one's old name too,
  and may leave again, or for the first one's return, before or after its
  removal; thresholds of two seconds and rounds of up to one second separate
  "inactive", "pinged" and "timed out"; `answered_ping` needs less. One worker
  at a time has still to change the list.
* `ChatHistory`: a history of three slots with a window of two is partly filled,
  wraps the window and fills up with four messages; two handlers can race.
* `ClientConsole`: two answers in handling, one of each kind on its way, two
  nodes of the client on the list and one conn$ under way: enough for answers to
  overtake each other and for a conn$ too many.
* `ClientScreen`: two handlers of any kind next to the display, two users in one
  bucket, two texts. The middle node of a longer chain is left to the proof
  (`TableStaysSet`).
* `MessagePath`: the constants of the code; lines on either side of each limit
  (49 tokens, 50 arguments, 19 letters, 255 and 287 characters), with dollar
  signs in the first words, and lines without a word; names of 0, 10, 18 and 19
  letters, one with a colon and SERVER, as conn$ and rename$ take any.
* The violated runs have the fewest commands that show what they are about, so
  that their traces are short.

**Inputs.** Clients send conn$ at any time, also while they are listed or have
one unanswered, and anything else once they were welcomed, also after they have
been removed (the client reads a line before it knows). That the server hears
nothing else of a client it never listed is checked of the client
(`NothingBeforeWelcome`). Names are distinct, the authors' assumption
(`server_interface.c` 6: "Assume no users with same name"): `CommandWorkers`
gives each client names of its own (`ClientsAssumption`); `ConnectionManager`,
where names pass from one client to another, only asks that a client takes a
name that nobody else on the list goes by or is about to (`NameFree`).

**Fairness.** Threads run for ever, hold a mutex for a bounded time and are
scheduled: weak fairness of the steps of a thread that can take its lock
(`ServerIntake`, `WorkerLocking`, the connection manager and workers), strong
fairness where a thread may find the mutex taken again and again
(`ClientConsole`, `ClientScreen`, and time in `ConnectionManager`, which passes
however much is sent). Nothing is assumed of the network, of the user, or of
workers: in `ServerIntake` no handler need return. A thread in
`pthread_cond_wait` has no enabled step until it is woken, so fairness never
wakes anybody. Deadlock checking is on for `ServerIntake` and `ClientScreen`;
the other models have ends: a bounded number of commands or nodes, handlers that
finish, `exit`, a message that has arrived, a misuse of a pointer after which
nothing is said.

## 4. The proofs

All theorems hold for every value of the constants under the named assumptions.
Most of these give the types of the constants (`WorkersAssumption`,
`TimingAssumption`, `HistoryAssumption`, `HashAssumption`, `ScreenAssumption`,
`ConsoleAssumption`, `TextAssumption`), among them at least two slots in the
ring (`QueueAssumption`), a positive limit (`PoolAssumption`) and finitely many
threads (`ThreadAssumption`). `LimitsAssumption` orders the sizes that the
headers define: for example that a command has an arg for each token but one,
and that a message with a name fits the client's join. One says more:
`ClientsAssumption`, that no name is used by two clients. Without it, a removal
by name may hit another client (section 5).

* `ServerSyncProofs`. The ring: types, `RingConsistent`, `NoLostWakeup`,
  `BorrowedSlotStable` and the refinement of `BoundedFifo`. The inductive
  invariant adds that the slot the manager reads is the one just behind `head`
  (`BorrowedSlotBehindHead`): the unused slot of the full test is what keeps the
  listener off it, so the race that `client_interface.c` 371 worries about
  cannot happen. The worker constraints: `active_worker` counts the dispatch in
  progress and nothing else, so the limit is not applied, for any `MAX_THREADS`
  and however many workers run (`LimitIsNotApplied`), whatever README.md 163
  says. The composition implements both of its parts, hence every theorem about
  the ring holds of the server. The monitor: types, `CountersExact`,
  `MutualExclusion`, `WriterNotStranded`, `WriterPriority` and the refinement of
  `RWLock`. The wait loops test counters, so exclusion is inductive only
  together with the exactness of the counters, and types only together with it
  too. `WW > 0` whenever a writer waits is all that the signals need, which is
  why a `WW` that never goes down costs readers their turn but no writer.
* `ClientListProofs`: what a search finds, and what add, remove and rename do to
  list and heap: which node appears, which one is freed, which one changes, and
  that all others keep their place and their owner.
* `CommandWorkersProofs`, in two invariants, the second inductive under the
  first. `IInv` (types, `ListMatchesHeap`, `BroadcastStartsAtHead`) adds that a
  handler about to write a name has one (`CommandsTyped`) and that whoever is
  inside a section is where it belongs (`LockSafe`); `AdminSuccession` and
  `ListStableForReaders` follow. `SenderInv` says what a handler still knows of
  its sender after the section it found it in: on the list or gone since, the
  owner of the node it keeps, which headed the list at the check of a kick$ and
  heads it still or has been freed since, and the owner of the name in hand. It
  is what `AdminsKick`, `DisconnectRemovesSender` and `NullOnlyForRemoved` need,
  as each relates a step to what an earlier section saw. Nothing is assumed
  about when a conn$ is sent.
* `ConnectionManagerProofs`: types, `TimeToAnswer`, and that the scan meets live
  nodes only. `TimeToAnswer` speaks of a thread that is about to remove, and is
  inductive with what leads there: `ping_sent` is set only after a ping$, is at
  most a round older than it, and is reset by an answer (`PingsKnown`). It is
  about the client that was chosen; the one removed by its name may be another
  (section 5).
* `ChatHistoryProofs`: types (races included), `LoneSaysRecorded` and
  `NothingMissed`. `IInv` says where the message of each handler is at each of
  its steps, and that what it has read is still so as long as it is alone.
  `JoinInv` is inductive under it: the entries from a newcomer's start up to its
  index have been sent, the index is within the count, and a newcomer past its
  first section is listed. A message recorded later than the index read last
  reaches the newcomer as a broadcast: `say` records before it broadcasts,
  `connect_to_server` lists before it reads.
* `ClientConsoleProofs`: types, `InputNotStranded`, `NothingBeforeWelcome`, in
  whatever order answers arrive. There is never more than one sleeper on the
  shared condition (`OneSleeper`), which is why a signal is enough, and who
  holds the mutex is copying the name (`MutexOwner`); before the server first
  lists the client nothing is on its way to it and its flag is not set
  (`Welcomed`).
* `ClientScreenProofs`: insert and remove on chains are insert and remove on
  sets whatever the hash function; which thread holds which mutex at each step;
  `PromptsReadWholeName`, `SaysKeptApart`, `TableIsSet`. The loop of the display
  holds both mutexes when it reads the name, so neither of its writers, each
  under one of them, is at work; its first prompt and that of error$ hold one
  and keep out the writer under that one.
* `MessagePathProofs`: types, `ClientCommandSet`, `JoinFits`, `SaysArriveWhole`
  and `SenderRecognised`, for every line, every name and every choice of limits
  that `LimitsAssumption` allows. Lengths and `strtok` are recursive functions
  over a text; what the passes need to know of them follows by induction on
  numbers, which is done with the least counterexample (`LeastExists`): how
  `Put`, a word in front of a text, changes the length and the tokens, and that
  cutting words makes no text longer. The inductive invariant `IInv` has a part
  for each stage. The properties speak of the two ends, so `Answered` carries
  across the client's ring what the server made sure of: the answer is short
  enough for every buffer, begins with the word of one of the handlers' answers,
  so that the client's command is set, and with every word cut it still fits
  join. `SaysArriveWhole` is inductive with the exact text at each stage in
  between.

Every invariant and safety action property of the passing runs is a theorem.
Only model-checked are

* liveness (`QueuedIsDispatched`, `AppendCompletes`, `WritersGetIn`,
  `SilentIsRemoved`, `ConsoleAttended`, `ThreadsFinish`), which is beyond the
  prover;
* the four violated statements, which are false.

## 5. Where the code and its documents differ

The four violated runs state what the documents or comments say, and their
findings quote the line. The following is in the models too. It is no property,
as it would be false, and no property relies on its absence:

* `active_worker` never exceeds 1, so the limit that README.md 163 and
  `server_interface.c` 21 promise is never applied (`server_interface.c`
  463-465): in `server_intake` two workers run under a limit of one.
* A conn$ that is repeated lists the client twice (`server_interface.c` 74);
  conn$, conn$, disconn$ leaves it listed and told disconnresponse$, where
  README.md 123 says "Remove client from list".
* A client that did not answer its ping$ is removed by a name copied a section
  earlier (`server_interface.c` 499, 529). If it takes another name in between
  and a newcomer its old one, which never gives two clients of the list one
  name, the newcomer is removed (README.md 223).
* A disconnresponse$ handled before the connsuccess$ that it follows leaves the
  client connected and unlisted (`server_interface.c` 78, `client_interface.c`
  387; README.md 175 on the prompt).
* A rename$ handled next to the display's first prompt or an error$, or any
  answer that sets the name next to a ping$, may write the name while it is read
  (`client_types.h` 176, 218; `client_interface.c` 113, 333).

And this the properties state as their exceptions:

* A command handled after its sender was removed follows NULL in `say`, `sayto`
  and `rename_client` (`server_interface.c` 179, 133, 299): lines sent after a
  removal are allowed, `NothingBeforeWelcome` is about the time before the first
  welcome (exception of `NullOnlyForRemoved`).
* An admin that leaves between the check and the removal of its kick$ still
  kicks (`server_interface.c` 325, 344; exception of `AdminsKick`).
* Two say$ at once may lose a history entry, leave a hole or exceed `MAX_MSGS`;
  a full history takes no new messages (`server_interface.c` 184-187, where
  README.md 184 and 188 speak of a rolling history of every message).
  `LoneSaysRecorded` and `NothingMissed` are about what is true besides these
  two.
* The time to answer counts from the round's `current_time`, not from the ping$,
  and an answer that is overwritten (`answered_ping`) counts for nothing
  (`server_interface.c` 477, 516; exceptions of `TimeToAnswer`).
* A name of 19 letters loses its colon on the way back and cannot be muted, nor
  can a name that is empty or holds a colon, which conn$ and rename$ accept
  (exceptions of `SenderRecognised`); a message of 48 words loses its last one
  (outside of `SaysArriveWhole`; `custom_hash_table.h` 85, `queue.h` 47).
* The line that kick$ broadcasts is shown as one of a user SERVER, which conn$
  and rename$ accept as a name, and is muted with that user
  (`server_interface.c` 353-362).
* A blank line makes the server handle a command it never set (`cmd.h` 32); no
  answer makes the client do so (`ClientCommandSet`).
* An error$ may replace the text of a say$ that is being stored
  (`client_types.h` 126; exception of `SaysKeptApart`).

## 6. Not modelled

`udp.h` (socket calls), `setup` and the two `main`s (allocation and thread
creation, whose results the initial states are), terminal output, the samples,
the binaries and `red_black.c` (an unfinished stub that nothing includes).
`pthread_create` and `malloc` are taken to succeed. Writing past the client's
`messages` array, the command that a process makes of memory it never set
(`unset_at_server`), and tearing of a name are undefined behaviour whose outcome
the models do not follow. The `next` pointers and `tail` are represented by the
sequence of nodes, which is what their only users see. Server and clients are
not composed over a network: what each assumes of the other is the input of its
models, and `NothingBeforeWelcome` checks the part that the server's handlers
rely on.
