# A verification project for clouddisk_v2

TLA+ modules that model the parts of clouddisk_v2 whose behaviour is hard to
test, TLC configurations that check them on small instances, and TLAPS proofs
of what matters most for every value of the constants. `PROJECT.json` lists
the components, the runs, the mutants that show each property can fail, the
source lines every definition stands for, the hazards and the theorems.

Commands, from this directory:

    tlasany StoreWorker.tla
    tlc -workers 2 -config StoreWorker_mixed.cfg MCStoreWorker
    tlapm StoreWorker_proofs.tla

## 1. Inventory of the system

A browser talks to the **gateway** (C++, drogon), which serves pages and
forwards calls by gRPC to account, file and AI services found through Consul.
The file service (not in the repository) writes a `files` row and an upload
command to Kafka topic `file.upload.cmd`; **store_srv** (Go) consumes it,
stores the content in MinIO and marks the file. The gateway writes e-mail
commands to another topic; **email_srv** (C++) consumes them, writes a code to
Redis and sends the mail.

| component | state it keeps | operations | interacts with | what is hard | what makes it correct |
|---|---|---|---|---|---|
| store_srv worker (`kafkacunsumer.go` 113-247) | inbox rows (status, locked_by, locked_until), files rows, objects | processMessage, tryBeginInbox, finalizeSuccess, markInboxFailed | MySQL, MinIO, other workers and processes | leases, retries, ambiguous errors, crashes | effects complete before success is reported; DONE final; locks exclude |
| store_srv consumer group (`kafkacunsumer.go` 50-110, `main.go`) | taskCh, sessions, marks, committed offsets | ConsumeClaim, worker loop, Cleanup, shutdown | Kafka, workers | rebalances, out-of-order completion, zombies | commits follow publication, never go back, queued work is finished |
| localfile (`localfile.go`) | a two-level directory tree | SaveFile, FindFile, DeleteFile | file system | mkdir against rmdir, partial writes | a saved file can be found; deletion leaves other files alone |
| email_srv (`emailServer.h`, `KafkaConsumer.h`, `emailsend.h`, `redispool.h`) | task queue, stop flags, Redis keys, pooled connections | poll, enqueue, handleTask, get/put, stop | Kafka, Redis, SMTP | lost wake-ups, duplicates, dedup expiry, pool exhaustion | nobody else has a connection in use, no task is overslept, permissions for one address are a time to live apart, connections return |
| KafkaProducer (`KafkaProducer.h`) | the librdkafka producer | init, send | gateway, Kafka | re-creation, failed delivery and death drop queued messages | an acknowledged request is on its way, or was lost in one of the known places |
| gateway controllers and FindService | one channel cache per controller | Account, File and AI handlers | Consul, gRPC, browser | stale channels, callbacks | one reply per request; a live instance is used |
| ArcCache (`ArcCache/*.h`) | LRU part, LFU part, two ghost lists, capacities | put, get | FindService | two copies of a key, capacities that move | last value put is the value got; capacity conserved |
| Consul client and discovery (`consul.cpp`, `concul.go`, `ConsulRegister`, lua) | registrations, Consul's entries, nginx's list | register, check, look up, fetch, pick | Consul agent, nginx | stale lists, outages, blocked health checks | dead instances leave the list, live ones get into it |
| JWT (`jwt.go`, `jwt_decode.cc`) | cached signing key, process-wide time function | GenerateToken, ParseToken, RefreshToken, the filter of the gateway | all services | shared TimeFunc | an expired token is rejected |
| configuration (`viper_config_centre.go`, `internal.cpp`, `config.cpp`) | current configuration | initial load, listener | Nacos | listener racing the initial load | nothing loaded is lost; what is published after the load arrives |
| MinIO, OSS, database, Redis and Kafka clients (`src/internal/*.go`) | connections | wrappers | external services | races of servers that start together on the bucket and the tables | an existing bucket is accepted |
| generated gRPC code, loggers, hashing, health, static pages, deployment scripts | - | - | - | - | - |

## 2. Modules and plan

| order | module | what it is | state of the work |
|---|---|---|---|
| 1 | `UploadLifecycle` | abstract: what store_srv promises about an event | done |
| 1 | `StoreWorker`, `MCStoreWorker` | processMessage statement by statement | done |
| 1 | `StoreWorker_proofs` | type, safety, lease and refinement theorems | done |
| 2 | `StoreConsumer`, `MCStoreConsumer` | composes StoreWorker with the Kafka side | done |
| 3 | `EmailService`, `MCEmailService`, `EmailService_proofs` | threads, wake-ups, pool and Redis of email_srv | done |
| 4 | `LossyCache`, `ArcCache`, `MCArcCache`, `ArcCache_proofs` | the gateway's cache and the map it implements | done |
| 5 | `LocalFile`, `MCLocalFile` | several callers in one directory tree, system call by system call | done |
| 6 | `Discovery` | instances, Consul, nginx's list | done |
| 7 | `Gateway`, `MCGateway` | composes Discovery with the handlers, FindService and the asynchronous calls | done |
| 8 | `Verification`, `MCVerification` | composes EmailService with sendcode, the producer, the topic, the keys, a crash and verifycode | done |
| 9 | `Configuration`, `MCConfiguration` | initial load against the listener, in Go and in C++ | done |
| 10 | `LocalFile_proofs`, `Gateway_proofs` | their invariants for every value of the constants | done |
| 11 | `StoreConsumer_proofs` | the composition implements WorkerSpec; commits follow publication and only advance | done |
| 12 | `Verification_proofs`, `Configuration_proofs` | their invariants for every value of the constants | done |

The token functions of `jwt.go` were planned and dropped: nothing in this
repository calls them, so that no order of calls could be justified. Left to
do: services that read ViperConf while OnChange writes it (the services are not
in this repository), and ArcCache without its one thread.

Every module with theorems is free of RECURSIVE operators, takes its sizes as
constants with the assumptions it needs, and has a property section whose
invariants are the conjuncts of an inductive one in its proofs module.

## 3. store_srv

### StoreWorker

`pc[w]` is the next statement of worker `w`; `event[w]` and `now[w]` are the
locals of processMessage and tryBeginInbox; `inbox`, `files` and `objects` are
the tables and the bucket. One action is one statement that reaches a server.
A statement may return an error and have been executed all the same; it always
returns an error once ctx is cancelled, which does not stop MinIO calls
(`context.Background()`). `Exit` is a crash and also main returning, which
waits for no worker. Time is one clock for all processes. The bucket and the
files rows only grow, for nothing in this service deletes. `attempts`,
`last_error` and `updated_at` are written and never read, and left out. A
statement of a process that has died is not executed later.

Runs. `worker_mixed` has two workers in one process and one in another, so that
both a sibling and a stranger can take over, as with the ten workers that
`main.go:52` starts under one instanceID; the clock (0..2 with LockTime 1)
lets a lock expire once. `UnexpiredLockIsKept` says what the lock columns do
ensure: a row whose lock has not expired changes only when a worker of the
process that holds it finishes the event or gives it up, although `now` was
read two statements before the take over that uses it. `worker_siblings` is the
same instance and shows what they do not ensure: the comment at
`kafkacunsumer.go:214` ("take over only once the lock has expired") is wrong,
for a late `markInboxFailed` (line 239) of a worker whose lock has expired sets
`locked_until` to NULL in the row that a sibling has taken over meanwhile, and
a third worker takes the event while that sibling works. What the effects need
holds all the same (`AcknowledgedIsPublished`, `SuccessIsStored`,
`ImplementsLifecycle`).

Proved, for any numbers of processes, workers of each and events, any lock
length and any failures: the type invariant; `AcknowledgedIsPublished`,
`SuccessIsStored`, `LockedIffProcessing`; `DoneIsFinal`; `UnexpiredLockIsKept`;
and that WorkerSpec implements `UploadLifecycle`. The inductive invariant
`EffectInv` adds what a worker knows at each statement (object stored before
finalize, row inserted before effects) and that DONE rows are published;
`UnexpiredLockIsKept` also needs `NowIsPast`, that no worker's `now` is ahead of
the clock. The assumptions are `PayloadAssumption` and `TimeAssumption`.

### StoreConsumer

Extends StoreWorker. `ConsumeClaim` pushes into `taskCh[i]`, `Receive` hands a
task to a worker, `Finish` marks the offset if the task's session is the live
one. The broker and sarama are external: `Rebalance` gives the partitions to
the members that wait in Consume, evicted members keep their session for a
while, and commits of an old generation are rejected. `Cleanup` is the end of a
session with its flush. Bounds: `MaxLog` messages, `MaxGen` generations,
`QueueSize` tasks, `MaxClock`. When messages and generations are used up the
system is idle, so some runs do not check deadlock.

Runs. `consumer_group`: two members, three generations, crashes; one
partition, for partitions meet only in the rebalance and in a session's end.
`consumer_fair`: nothing fails; every queued event is published and
every begun event finished. Fairness is weak and on the workers only
(`Receive`, `Process`, `Finish`): the Go scheduler runs every goroutine, and
statements return. `consumer_redeliver` (two workers of one
process) shows that the comment on failed messages does not hold: a later
success commits past them. The log line of Cleanup
("all pending tasks done") does not describe the code either: Cleanup waits for
nothing, and the model has the tasks that outlive their session.

Proved, for any numbers of instances, workers, partitions, messages and
generations and any channel size: the types of the Kafka side;
`WorkersImplemented` (every step of the group is one of StoreWorker or leaves
the workers alone, for a task reaches a worker only in `Receive`), and with it
`ImplementsLifecycle`; `CommittedIsPublished`, `MarkedInOwnClaim` and
`CommitsOnlyAdvance`. The inductive invariant `OffsetInv` is needed because a
mark outlives the worker that made it and a task its session. It says that every
task, queued or in a worker's hands, is a message of the log which its session
has read (`TasksRead`), that partitions are claimed once in a generation
(`ClaimsApart`), that marks and commits stand behind published messages
(`MarksGood`, `CommitsGood`), and that what the current generation reads and
marks is not behind what is committed (`CurrentAhead`). A session of an older
generation may be behind, and the broker rejects what it commits. The
assumptions are `PayloadAssumption`, `TimeAssumption` and `QueueAssumption`.

## 4. email_srv: EmailService

`main` and `pc[w]` are the next statements of the main thread and of each
worker; `tasks`, `stop`, `pool` are the members of EmailService and RedisPool;
`conn`, `task`, `code` are the locals of handleTask. Redis is `dedup` (when
each `email_dedup:<email>` expires) and `stored` (every code ever written under
an address); `rejected` are codes it refused to write, and `mails` is what the
SMTP server accepted. A critical section is one step, with one exception:
`cv_.wait` evaluates its predicate in `checked` and blocks in a second step,
between which `mtx_` is held by the worker (`Unlocked`), so that only code that
does not lock can run in between: the destructor, which sets `stop_` and
notifies. `notify_one` wakes one sleeper; a sleeper may also wake by itself. A
command may fail with its effect done and the reply lost, which breaks the
connection, or be answered with an error, which does not. When the workers
are joined (`Join`), the tasks still queued go with the object. Codes are model
values.

Runs. The invariants are checked by `verification` (next section), whose module
extends this one. `email_stop` is a disagreement with the message of the
signal handler: an exit that never comes, because `stop_` is set without the
mutex; a small run (499 states), for one task and two workers are enough.

What the code does and no property forbids: an error reply to the second SET
is not NULL (`emailServer.h:127`), so that the code is mailed and verifycode
will not find it. `MailedIsStoredOrRejected` shows that this is the only way in
which an unstored code is mailed. Two mails can reach an address in one
time to live, because the dedup key limits when a task is admitted and not
when its mail goes.

Fairness is weak, on the main thread and on each worker: the threads are
scheduled and commands return. hiredis is used without a timeout, so the second
half means that Redis answers or the connection breaks. Nothing is assumed of
signals, of the arrival of messages, of the clock or of spurious wake-ups.
Bounds: `MaxTasks` messages and `MaxClock` ticks; when they are used up the
system is idle, and the runs do not check deadlock.

Proved, for any numbers of workers, connections, addresses and tasks, with lost
replies and error replies: `TypeOK`; `PoolExclusion` and `NoConnectionLeaks`
(`PoolInv`); `NoSleeperIsMissed` (`WakeInv`, which counts the workers on their
way to the queue, hence `ThreadAssumption`); `DedupExclusion` (`DedupInv`: a
permission in use is younger than its key's expiry); and
`MailedIsStoredOrRejected` (`MailInv`: a code in a worker's hands is one that
was written or refused).

## 5. From sendcode to verifycode: Verification

Extends EmailService. `outbox` is what the producer of the gateway has queued
and not transmitted. `SendCode` is sendcode with `KafkaProducer::init`: a
configuration that is refused leaves the old producer and its queue, a producer
that cannot be created leaves none, and one that is created replaces the old
one, whose queue is dropped (`KafkaProducer.h:38`). `Transmit` stores the
message, or stores it twice (a retry), or gives up, which only prints a line
(`dr_cb`, `KafkaProducer.h:79`); `GatewayDies` loses it. `topic` is a log of
which email_srv has received the first `received` messages; `Receive` is
`Enqueue` of EmailService with the next one. `committed` is the offset of the
group: `Commit` is the periodic auto-commit (`KafkaConsumer.h:35`) and `Close`
the last one before the destructor. `Restart` is a crash of email_srv: Redis
keeps its keys, the tasks in memory are gone, and the topic hands out what
follows the committed offset, or what is yet to come if there is none
(auto.offset.reset). `key` and `until` are the key `<email>` with its expiry,
which EmailService abstracts to the set `stored`; `StoreCode` joins both.
`VerifyCode` is the comparison of verifycode. `waiting`, `lastMail` and
`disturbed` are history.

Run. `verification`: one address, two workers, one connection, three codes,
two messages, two ticks with times to live of 1 and 2, one crash, and every
failure of Redis and Kafka; 885,092 states. It checks the invariants of
EmailService (where lost replies and broken connections make the pool and the
workers wait for each other) and these. `AcknowledgedIsUnderWay`: an
acknowledged request is in the producer, the topic or the queue. What may take
it away is named in the property and modelled: a later request that
re-creates the producer, although the first was answered "code send
successfully" (`AccountController.cc:269`), a delivery that Kafka gives up, the
death of the gateway, and an email_srv that ends with tasks in memory or
crashes after a commit or before its first. In none of these does the
user learn of it. What the property does exclude is an acknowledged request that
never was in the producer, or that is lost anywhere else.
`LastMailIsAccepted`: the code of the last mail is the one under the key;
addresses are excepted with a job that outlived its dedup key, broke off after
storing or was answered with an error (`disturbed`), but only until a
job for them goes well. `AcknowledgedIsTaken`: a worker gets to every
acknowledged request, unless a signal stops the service or every reconnection
has failed (`Shrunk`: such a connection is gone, `redispool.h:59`, and workers
wait in `get` without looking at `stop_`). Two draws of `gen_code` differ in the
model: `Fresh` is a code that was never drawn (`Unused`), and `Codes` bounds how
many are drawn.

Fairness: weak on the producer's thread, the main thread and each worker, as in
section 4; strong on `Receive`, because a worker that wakes up for no reason
takes `mtx_` for a moment and could, under weak fairness, hold it whenever the
main thread wants it: a mutex that is free again and again is got in the end.

Proved, for any numbers of addresses, workers, connections, messages, codes and
crashes, and with all failures of Redis and Kafka: the types; that a step is
one of EmailService, or a crash, or leaves it alone, and that a crash preserves
`PoolInv`, `WakeInv`, `DedupInv` and `MailInv`, so that `PoolExclusion`,
`NoConnectionLeaks`, `NoSleeperIsMissed`, `DedupExclusion` and
`MailedIsStoredOrRejected` hold in the whole; `AcknowledgedIsUnderWay`, which is
inductive with the types; and `LastMailIsAccepted`. Its invariant `KeyInv` says
that a job for an undisturbed address ends before its dedup key does
(`Timely`), hence is the only one for it, that the code it is going to mail is
under the key (`KeyOfJob`), and that while there is no such job the code of the
last mail is (`KeyOfMail`).

## 6. localfile: LocalFile

`tops` and `subs` are the directories that exist, `file` what lies under each
name, `pc` the next system call of each caller. os.MkdirAll is its
stat/mkdir/lstat sequence and WriteFile its open with O_TRUNC and its write,
since a deleter can come between any two of them; `linked` tells whether an open
descriptor still belongs to the name. Every call that changes the disk, mkdir,
open, write, unlink and rmdir, may be refused by it. `kept`, `undone`,
`hindered`, `spoiled` and `left` are history. Files are named by hashes in
two-level directories, which `SubOf` and `TopOf` give.

Run. `localfile`: three callers, three files of which two share a second-level
directory, one first-level directory, five calls, a disk that may refuse
any call, and crashes; callers are exchanged (symmetry); 1,701,234 states. A save
may fail because the disk refuses a call or because a deleter removes one of its
directories while it runs, and for no other reason
(`SaveFailsOnlyUnderDelete`); what was saved is found until it is deleted and
is whole unless a later write of the same name broke off (`spoiled`: WriteFile
truncates first, so that a full disk can leave an empty file that FindFile
reports as stored); and a race never leaves an empty directory.
A call that the disk refuses after MkdirAll, or whose process dies, does leave
them: `left` has exactly these, and the next deleter in them removes them.
When the calls are used up the system is idle: deadlock is not checked.

Proved, for any numbers of callers, files, directories and calls, any
layout of the tree, and a disk that refuses any call: `TypeOK`; `SavedIsFound`
and `SavedIsWhole` (`KeptInv`: an open descriptor that is linked has its file,
one that is not has a deleter, and an empty file has a writer);
`FilesHaveDirectories` (`TreeInv`), which no run checks because it only says
that the model of the file system is a tree; `SaveFailsOnlyUnderDelete`
(`HinderedInv`: at each system call a saver's directories exist or it was
hindered); and `NoEmptyDirectoryStays` (`EmptyInv`: an empty directory is in
`left` or has a caller that is about to fill it or to remove it). The
assumptions used are `PathAssumption` and `BoundAssumption`.

## 7. Finding each other and answering: Discovery and Gateway

`Discovery` has the life of each instance, what Consul knows of it (`entry`),
Consul's outages, and nginx's list, which a timer fetches and stores without
waiting for the fetch before. Consul is external: it checks, and it reaps what
stays critical. `Gateway` extends it with the requests. Each gateway has one
event loop (`busy` names the request whose lookup blocks it) and one cached
channel per controller (`chan`), which stands for the ArcCache of section 8,
where a controller uses one key. The eight handlers that call a back end are one
handler: operations differ in the filter, the checks and the answers (`Refusal`,
`Answer`, `Unavailable`), and what can be wrong with a request is one of
`Flaws`. gRPC and drogon are external; a handler is `Reject`, or `Hit`, or `Miss`
with `Found` or `NotFound`, and its callback `Succeed`, `Fail` or `Throw`. A
back end that lives ends a call in one of the ways of `Ends`: with or without
the code of success, with a status that is not OK (`Fail`), and AI_srv also
with data whose fields are no strings, on which the callback of aiRequest throws
(`AIController.cc:198`): then nobody replies, until nginx gives up (`GiveUp`).
A lookup takes
any of the instances that pass: `rrIndex` lives in an object made for each
lookup (`consul.cpp:182`), so that the first of the answer is taken, in
whatever order Consul gives them.

Runs. `gateway`: one gateway, two back ends, two requests, one death of any
instance, registrations that fail and lookups that hang; six pairs of an
operation and a flaw (`MCInputs`); 2,064,363 states. `RepliedOnce`,
`RefusedHasNoEffect` and `SuccessIsExecuted` are about every way through a
handler; the last one says that 200 means that a back end executed the call and
answered with the code of success. It does not speak of filedowm and
Showfile, which redirect whatever the code is (`FileController.cc:209`,
`FileController.cc:348`), although the comments at lines 224 and 365 speak of
success. `ServedWhenHealthy` says that 502, 503 and failed calls come only to
requests during which something that was listed, passing or connected did not
live (`troubled`), or which the back end itself refused: a channel that idled
is replaced and does not cost a request.

`gateway_fair`: two gateways, one request, one death, one outage, two fetches
at a time, and lookups that may hang until Consul deregisters the gateway:
`EveryRequestAnswered`, `DeadIsUnlisted` and `UpIsListed`, although a lookup
blocks the very loop that answers the health check. `UpIsListed` speaks of a
gateway that Consul knows and that blocks no more from some time on: while
lookups go on it may fail its checks and leave the list again and again, and
one that was deregistered after 30 seconds, or whose registration failed
(`ConsulRegister.cpp:28`), is never registered again, which is a weakness of
the code that no property forbids.

Fairness is weak: the loop turns, Consul recovers, checks and answers,
nginx's timers fire and its fetches end, and a back end ends a call or
dies, which the code needs (its calls have no deadline) and does not ensure: a
back end that hangs keeps its request for ever, and no property catches that.
Bounds: `MaxDeaths`, `MaxOutages`, `MaxFetches`; each request is sent once.

Proved, for any numbers of gateways, back ends and requests, any requests, any
deaths and outages, hanging lookups and failed registrations: `TypeOK`, with
the stages at which a request has a gateway and a stub; `RepliedOnce`,
`RefusedHasNoEffect` and `SuccessIsExecuted` (`ReplyInv`: a request has as many
replies as its stage says, and none is executed before its call); and
`ServedWhenHealthy` (`ServedInv`: what Consul knows was started, a cached channel
leads to an instance that passes or is dead, and a request that nothing has
troubled calls an instance that lives and passes). The assumptions are
`InstanceAssumption`, `DiscoveryBounds`, `NoneAssumption` and
`StatusAssumption`.

## 8. The gateway's cache: LossyCache and ArcCache

`lru` and `lfu` are the two parts: `value` is `mainCache_` (None where there is
no node), `count` is `accessCount_`, `list` the main list of the LRU part and
all of `freqMap_` in order of arrival in the LFU part, of which the list of
frequency f is the sublist with count f. `ghosts` is the ghost list, whose
nodes say whether `ghostCache_` still points at them: a key can be evicted
twice, and then only its last node is in the map. Counts of the LRU part stop
at `Threshold`, beyond which they are not told apart. `Put` and `Get` are the
whole calls: the trade of capacity (`LruAfterCheck`, `LfuAfterCheck`), then
the lookups. They are single steps because a cache belongs to one controller
and `config.yaml` asks for one IO thread; `checkGhost` and the capacities are
outside the parts' mutexes, so that with more threads the class would need
another model. The controllers use one key each and a capacity of 20, so what
is checked here about evictions is the contract of the class and not today's
traffic. `LossyCache` is that contract: a map that may forget entries and never
answers with anything but the last value put.

Runs. `arc_cache`: four keys and two values in parts of capacity 2, so that both
parts evict, ghosts of both are hit and the capacity of the LRU part reaches 0
and 4; TLC visits 59,488 states. A get of a key that is a ghost of the LRU part
and an entry of the LFU part shrinks the LFU part first and can evict the very
entry it then looks for: a miss, which LossyCache allows. Hits of LFU ghosts can
bring the LRU part to capacity 0, and from then on a put of a new key returns
false (`ArcLruPart.h:26`), which `ArcCache.h:37` ignores. Neither can happen to
the controllers, with one key each.
Bounds: `MaxFreq` (2) and `MaxGhosts` (3) are guards of both actions; at the
bounds the model stops, and deadlock is not checked.

Proved for every `Capacity`, `Threshold` and set of keys: `TypeOK`,
`CapacityShared`, `ListsMatch`, `MinFreqIsLeast`, `CopiesAgree` and
`ImplementsLossyCache`. The inductive invariant `ArcInv` says of each part that
its list is its map in some order (`Sound`), that `minFreq_` is the count of a
cached key and below all others (`LeastFreq`), and that the capacities add up.
Each operation of a part has one lemma, and `GetStep` reduces get to a put of
the entry that is there already (`Leaves`).

## 9. Configuration

Nacos is `docs`, what was published in order; a document is malformed, empty,
or well formed with some sections (`has`), sections of another type (`bad`) and
sections that are missing. Go servers and C++ programs have two threads each,
init and the listener's hook, and share only the documents, the MinIO bucket
and the tables. Go (`viper_config_centre.go`): ReadConfig puts a new map into
viper (`NewMap`) and fills it (`Fill`), Unmarshal walks whichever map is there
(`Walk`) and assigns section by section (`Assign`), and nothing locks; two
threads in one section tear it (`Torn`), and a map that is read while it is
written may end the program (`Fatal`). An ill-typed section is left as it is,
and Unmarshal reports it: init() then returns without clients. Otherwise
init() connects to MySQL (`Connect`), creates the tables (`CreateTables`), the
clients of Kafka and OSS (`CreateClients`) and the bucket (`BucketExists`,
`MakeBucket`, `ExistsAgain`), and panics when a service fails, when the section
of one was never set, or when another server that found no tables either was
faster to create them (`db.go:64`); `cause` records why. C++ (`internal.cpp`,
`config.cpp`): a document is parsed as a whole and assigned section by section
until one is missing or ill-typed; an exception before that is not caught and
ends the program; when InitAppConfig returns its ConfigService is destroyed,
and with it the listener.

Run. `configuration`: one program of either kind at a time (`MaxStarts`), for
they share nothing but documents, bucket and tables, which `OtherServer` may
create at any time; two documents, each with at most one section missing or
ill-typed (`MaxFaults`); three sections, of which C++ reads two; every service
may fail; 497,116 states. `NeverErased`: a section that was loaded is never
lost, whatever is published. `NoRollback` and `UpdateArrives`: what OnChange
brings after init() has unmarshalled arrives and stays. `LoadedInOrder` is about
AppConfig, which holds a beginning of the sections. `BucketIsShared`: servers
that start together do not fail over the bucket.

What the code does and no property forbids. A document published while init()
is between GetConfig and Unmarshal is overwritten by the older one and stays so
until the next change, and an OnChange that is slow writes its older document
over the newer one that init() loaded; the properties except exactly these
phases. C++ programs never hear of an update, although `internal.cpp:68` adds a
listener for them and README.md:11 of the repository (and line 83) promises hot
updates; the theorem `NoUpdateReachesFronts` states it. Servers that start
together on an empty database can make each other panic.

Fairness: weak, on the listener being told of a change and on OnChange ending;
nothing is asked of init(). The SDK is taken to call OnChange once at a time.

Proved, for any programs, sections, documents and failures: the types, with
the places each thread of each language can be in; the four safety
properties of the run; and `NoHotUpdate`. `OthersSame` says that a step of one
program changes nothing that another has, but for the bucket and the tables;
each invariant is therefore proved for one program. `StartInv`: after an error
of MakeBucket the bucket is there or the error was MinIO's, and every panic has
its cause. `QuietInv`: when main of a C++ program runs on, its listener is gone
and its hook idle. `LoadInv`: what a thread has still to load is all that may be
missing. `MapInv`: viper's map holds sections of its own document, a thread that
fills a map of its own fills it from its own document, and what is still to be
assigned is in the document it is taken from; with `LoadInv` it gives
`NeverErased`. `RollInv` is what `NoRollback` needs: OnChange may work on a
document it was not told of (`Stale`), and then init() has replaced the map
under it and has assigned, or will assign, every section of that document
(`Overtaken`), so that OnChange writes what is there already. The assumptions
are `ProgramAssumption`, `OrderAssumption` (no section is listed twice),
`SectionAssumption` and `ConfigurationBounds`.

## 10. Limits and what is not modelled

Each module states one type invariant, and StoreWorker two simple properties of
its rows (`LockedIffProcessing`, `DoneIsFinal`). They are left out of the runs,
which ask what could be wrong, and are theorems instead.

Every safety property that a run checks, every action property and both
refinements are proved for all values of the constants. Only model-checked:
liveness (`QueuedIsPublished`, `ProcessingIsDone`, `AcknowledgedIsTaken`,
`EveryRequestAnswered`, `DeadIsUnlisted`, `UpIsListed`, `UpdateArrives`), which
is out of the prover's reach. The runs that end in a violation (`email_stop`,
`consumer_redeliver`, `worker_siblings`) have nothing to prove. No theorem has a
hypothesis besides the named assumptions on the constants, and none of these
switches a failure off.

Where the code falls short of what one would wish, the model has the behaviour
and the property names the exception. These are the lost requests, the rejected
SET, the shrunken pool and the disturbed addresses of section 5, the truncated
file and the directories left in section 6, the redirections, the missing
deadline and the gateway that is never registered again in section 7, and the
early and slow documents, the C++ programs and the tables of section 9. The
notes of the hazards in `PROJECT.json` say for each what is caught and what is
not.

Not modelled inside the modelled components: the content of objects in
store_srv; the decoding of addresses in email_srv; services that read ViperConf
while a hook writes it; requests that sendcode and verifycode refuse before they
ask Kafka or Redis, which change nothing. Not modelled at all, with the reason
(`PROJECT.json` lists them): the token functions of `jwt.go` (no caller here),
`GetFreePort` and the wrappers for OSS, MySQL, Redis and Kafka other than their
Init functions (one call and no state of their own), loggers, hashing, static
pages and scripts, the back-end services (an empty directory), and the generated
protobuf and gRPC code, which is most of the lines of the implementation: a
definition that named those lines would translate nothing, so that the share of
all lines that the project stands for stays small while most of the handwritten
code with state is covered.
