# Verification of neural

TLA+ specifications, TLC runs and TLAPS proofs for *neural*, the small question
answering service of this repository: a master process that keeps documents and a
network trained over them, an admin process that serves the pages for learning,
and a client process that serves questions.

Paths such as `store.cpp` mean `src/src/store.cpp`; `admin.js` is
`src/static/admin/admin.js`. `PROJECT.json` maps each definition to its lines.

## 1. The system

| Component | State | Operations | Interacts with |
|---|---|---|---|
| **Document store** (`store.cpp`) | in-memory SQLite tables chunks, chunk_tags, vocab, model, uml*; file `data.db`; `last_upload_result_`; cache of vectors; a `shared_mutex` | `add_document`, `add_tag`, `get_answer`, `serialize`, `create_uml_container`, searches, listings; constructor loads file and state | owned by the master; its two threads call it |
| **Vocabulary** (`vocabulary.cpp`) | words and their indices, df, doc_count | `add_words` up to MAX_VOCAB, `add_document`, `idf`, `vectorize` | the store |
| **Network** (`neural.cpp`) | sizes, flat weight vectors | `expand_inputs`, `expand_outputs`, `train_batch` (thread-parallel), `predict` | the store |
| **Master** (`worker_master.cpp`) | two socket pairs, two child pids | admin thread: one command at a time, TRAIN with a progress message per epoch; client thread: one command, one answer | store, both workers |
| **Admin worker** (`worker_admin.cpp`) | the job in its hands | dequeue, exchange messages, publish, fulfil the promise | master by socket, HTTP server by queue |
| **Admin server** (`admin.cpp`) | `jobs_`, promises, `is_training_`, `current_progress_`, `memory_usage_`, `last_file_result_`, two mutexes for them | a detached thread per connection; waiter threads for long jobs | browsers, admin worker |
| **Admin page** (`admin.js`) | statuses of the chosen files, an interval timer | upload a file, poll `/progress`, go on | admin server |
| **Client server and worker** (`client.cpp`, `worker_client.cpp`) | four queues under one condition variable | prompt, search, list, compose | browsers, master |
| **IPC** (`ipc.cpp`) | a stream socket | frame = command, 32-bit little-endian length, payload | master and workers |
| **Lifecycle** (`main.cpp`, the workers' constructors) | processes, inherited descriptors | fork, end of stream, SIGTERM, exit | all processes |
| **UML containers, table browser, project builder** | tables uml, uml_src, uml_events, uml_embeddings; files | TRAIN_UML, compose, page through tables, write a project | admin and client pages |

What makes the system hard: three processes and several threads per process; answers
on the stream carry no request id; the results of an upload are published through
four setters and read through a poll that consumes one of them; the database,
the vocabulary and the network must agree through every upload, failed save and
restart, and the process usually ends without a save; weights are kept in flat arrays that
are laid out anew when they grow, and learned by several threads; a job is packed, repacked
and unpacked by three processes over streams that cut messages anywhere; two threads read
the tables while one of them writes, and some readers lock twice.

What makes each part correct:

* store: ids, outputs, vocabulary, inputs and statistics describe the same chunks, in
  memory and in any file it wrote; only a restart loses anything, and brings back one
  earlier state as a whole;
* pipeline: messages belong to the job that is worked on, each job is answered once
  and in order, no failure is answered with success, nothing waits for ever;
* page: it comes to its end, and what it shows about a file is what happened to it;
* client side: as the pipeline, and no kind of request starves another;
* lifecycle: the end of any process ends the others, nobody waits for the dead;
* IPC: what is received is what was sent, in order, whole, and no two writers block each other;
* network: a word and a chunk keep the weights they were given and trained with, and a pass
  learns every chunk once;
* UML containers: they appear whole or not at all, and no thread waits for itself.

The hazards behind these are listed, each at its line, in `PROJECT.json`.

## 2. Modules

```
DurableLibrary <--implements-- DocStore <-- MCDocStore, DocStore_proofs
Connections    <--implements-- Learning <-- MCLearning, Learning_proofs
                                  ^
                    Texts, Vocabulary, Network
UmlCatalog     <--implements-- UmlStore <-- MCUmlStore, UmlStore_proofs
JobService     <--implements-- AdminPipeline <-- MCAdminPipeline, AdminPipeline_proofs
                                     ^
                                 UploadPage <-- MCUploadPage, AdminPipeline_proofs
MessageFifo    <--implements-- IpcChannel <-- IpcChannel_proofs
                                     ^
                       Wire --> IpcLink (two channels) <-- MCIpcLink, IpcLink_proofs
ClientPipeline <-- Lifecycle <-- MCLifecycle, Lifecycle_proofs
```

**DocStore** models the store. Every writer holds the store's unique lock from its first
statement to its last, so each is one action: `AddDocument`, `AddTag`, `Serialize`,
`CreateUmlContainer`, and `Restart` for the end of the process followed by the
constructor. `db` and `disk` are databases (chunks by id, tag rows, saved words and
df, saved model, container names); `vocab` and `net` are the live objects. The
network is abstracted to its two sizes and the ids that its last training pass
reached; weights are left out. Chunks, tags and words are model values, and what the
vocabulary extracts from a text is a constant function. A vocabulary is the *set* of
its words (its words keep their index, which is saved with them); with the limit in
reach, which words fit depends on their order in the text, hence the choice in `Grown`.
`add_document`'s parts are operators named after what they compute: `Fresh`
(unique_chunks), `RowId` (next_id in the loop), `Inserted` (rows the UNIQUE constraint
lets through), `CountedVocab`, `GrownNet`, `Trained`, `Saved`. `serialize` is a backup
in one SQLite transaction: the file holds the whole database or what it held before.
`get_answer` writes nothing; `Answers(T)` is the set of things it can say to a prompt
that matches the tags T. SQLite is taken at its word: transactions are atomic, UNIQUE
is enforced, and the in-memory URI is honoured.

**DurableLibrary** is the promise: items are added by uploads and removed by nothing but
a restart, which brings back exactly a copy made earlier.

**Learning** looks into what DocStore abstracts, and leaves out what DocStore is about (repeats,
failing writes). `add_document` is cut into its phases: `Upload` up to the first epoch, then for
each epoch `SkipBatch` (a vector of another size) or `StartBatch`, `LearnSample` per thread and
sample, `EndThread`, `EndBatch` after the joins, and `EndUpload`; `Restart` may come between any
two. It is built from three modules of pure operators:

* **Texts**: `split_into_chunks`, with a text as a sequence of lines and a line as a sequence of
  tokens. The size of a token is one byte, which is what makes the limit testable; newlines are
  counted as the code counts them. `IsSplitting` is the reference it is compared with.
* **Vocabulary**: `is_valid_word`, `add_words` (tokens, then bigrams), `add_document`, and
  `vectorize` as far as an entry is 0 or not. A token is the sequence of its parts between
  underscores, so a bigram can equal a token of the text, as in the code.
* **Network**: the flat arrays, `expand_inputs`, `expand_outputs`, the partition of a batch and the
  sum of gradients. A weight is a record [born, seen]: the connection it was made for, and how many
  samples were added to it. So a weight in the wrong place, or a sample left out or taken twice,
  is visible although no number is computed. A hidden unit at rest, which passes no gradient on,
  is not distinguished.

**Connections** is the promise: one row of weights per word and per chunk, which only grows, learns
each chunk once in a pass, is saved and comes back. Arrays, indices and threads are not seen.

**UmlStore** models containers statement by statement. The admin thread creates (`Train` to
`UnlockExclusive`), saves between uploads (`Save`, without a lock) and lists or browses; the client
thread lists, composes and searches; every `sqlite3_step` that matters is a step, and `Restart` may fall
between any two. The `shared_mutex` is `writer` and a count per reader, because `search_uml_nearest` and
`get_table_data` lock it a second time (`LockAgain`). Whether a container is near a query, or in a page
of the table, is a choice. `list_tables` and `get_source_types` hold the lock for one statement and are
the nested part of a table request.

**UmlCatalog** is the promise: containers as uploaded, each name once; a reader is answered from the
catalog of one moment, all of it, some of it, or those named in that order.

**AdminPipeline** models a request's way. A request is a connection with its handler thread (`main`), the
`waiter` that blocks on the future, and the responses written so far. The worker's program counter runs
through `dequeue`, `send`, `start`, `recv`, `memory`, `result`, `finish`, `fulfil` (or `stop`), one step
per message or lock. `/progress` takes two steps, because it holds `progress_mtx_` while it writes.
Messages carry the request they are about, which the code's do not: that is what `InStep` is stated with.
`MasterDies` stands for the end of the master process at any point: buffered messages are still read,
then recv fails; a write to it ends the admin process (SIGPIPE is not handled). `MasterThrows` is the
other end of the admin thread: an exception that no command catches, after which the process stays and
reads no more (`Serving` is false), while the worker waits in recv; the process ends when the client
thread sees `running` cleared (`MasterDies`). A SHUTDOWN, or a failed read in a case without its own
catch block, leaves `runChild`: the server is destroyed, the jobs in its queue break their promises, and
the process exits, while handler threads may still write what they were told (`Leave`, `Exit`). Handlers
do not look at `stop_`: a job that one of them queues after the stop is lost with the queue, its promise
broken at once in the model (`Enqueue`). Between `Leave` and `Exit` the program's handler threads use the
destroyed server, which is undefined; the model takes the outcome in which a queue takes no more jobs and
handlers write to their own connections only. COMPOSE goes the way of LIST_UML (kind `blocks`),
LIST_TABLES that of SRC_TYPES (kind `types`). Percentages are left out.

**JobService** is the promise: a first-come first-served line that closes once.

**UploadPage** composes the pipeline with `processAllFiles`: one upload at a time,
response, polls, next file. The page's polls are one of the pipeline's pollers; other
browsers may send requests and polls. A poll of the page is answered before it sends the
next one: callbacks of one interval timer that overtake each other are left out.

**ClientPipeline** models the client side: a queue per kind, the worker with its job
(`dequeue`, `send`, `recv`, and `gone` once it left the server), the two directions of its
socket pair and the master's client thread (`check` the running flag, `recv`, `work`,
`ended`). A request is a visitor, who may ask again when he was answered: steady load is
part of the model. `heard` says whether any process holds the far end of the stream.

**Lifecycle** composes it with the admin process and the master's admin thread. Of the
admin's jobs it keeps that there is one at a time (`InStep` of AdminPipeline justifies
that). Its subject is who notices whose end: an end of stream is seen when the last holder
of the other end is gone, and the admin process holds the client's end too; a write to
nobody raises SIGPIPE and kills the writer; the admin thread answers an end of stream by
killing the children and exiting; any other exception ends one thread and clears
`running`, which the other thread looks at after its next message; when both have ended
`run` returns and the destructors kill the children.

**IpcChannel** is one direction of a socket pair: `IpcSocket::send` puts a frame into the stream,
`Write(k)` and `Read(k)` are one `write(2)` and `read(2)` of any k bytes, and either end may go at
any byte. **MessageFifo** is its promise: a queue of messages in which everything arrives while both
ends are open.

**Wire** has the formats: TRAIN is packed with a 16-bit length of the tags, repacked by the worker
with a NUL in its place, and unpacked by the master; GET_TABLE is unpacked and packed again by the
worker; TRAIN_UML has counted lists of counted fields. **IpcLink** composes two channels with the
worker's loop and the admin thread's: each writes a whole frame before it reads. Base stands for
256: lengths are cut to two digits and counted in four, whatever the base.

The MC modules only define constants, the `_proofs` modules only what proofs need, and
**FoldTheorems** has the facts about numbers, sets of numbers and folds that several of them
need. Operators named as mutants in a comment are
deliberately wrong variants of the definition that follows them, used to show that each
property can fail.

## 3. Runs

| Run | Shows | Bounds |
|---|---|---|
| DocStore_clean | ids = outputs = labels in memory and file, no dangling answer, exact statistics, what was not learned is caught up with, saved tables current | 3 texts, one without a word of its own, 2 tags, one of a word no text has, 4 words, MAX_VOCAB 3, documents of 0-2 chunks without repeats, disk writes |
| DocStore_rough | what is left without these assumptions: durable library, inputs never beyond the vocabulary and MAX_VOCAB, restart and new words repair a mismatch | 2 texts, documents of 0-3 chunks with repeats, a tag of two words no text has, MAX_VOCAB 3, failing disk, feedback tags on a missing id |
| DocStore_reupload | **violated**: re-uploading does not cure "Model mismatch" | 2 texts of the same words, a tag with a new word |
| Net_learning | texts are cut as they should be; words, indices and saved rows agree; array sizes fit; every weight stays with its word or chunk and every pass learns every chunk once | 3 documents, 2 tag lists, chunks of 4 bytes, MAX_VOCAB 6, 2 hidden units, 3 threads, 2 epochs; splitting checked on all texts of up to 4 lines of 0, 1, 2 or 5 bytes |
| Admin_serve | one answer each; memory before done; everyone answered, training ends | an upload, a container, a table request (504 against late answer), a poller; 1 epoch; the store may throw |
| Admin_ends | in step, every promise held, no false success, who came before a stop is answered, first come first served | upload, container, types, stop; the master, or its admin thread only, may end anywhere |
| Page_uploads | the page ends, also when the server is gone before answering; results shown are real and shown once | 2 files, a stop request, the master or its admin thread may end |
| Page_learned | **violated**: "All documents learned" while one waits in the queue | 1 file |
| Lifecycle_all | answers reach who asked, promises held once, failure only when the master is gone, the admin's end ends the master, nobody waits for the dead, lists are not starved | two lists, a search and a prompt, asked again and again; any process may be killed, the store may throw |
| Ipc_link | jobs arrive as given, both streams are queues of whole messages, every job ends | 2 of 8 jobs in a row; bytes of 3 values, buffers of 4 bytes, requests of 5-45 bytes, answers of 14; both processes may be killed at any byte |
| Uml_threads | containers whole or not at all for every reader and in the file, no thread waits for ever | 3 uploads, two of one name, copies among sources and events, a type without a name; 2 threads; saves in between, failing disk, the process ends anywhere |
| Uml_shown | **violated**: a container that was created is shown as failed | the same |

Why the bounds are enough. In the store two documents make every relation between new and stored chunks
(none, some, all known), a third text makes the id of an earlier row differ from the last; a document of
three chunks with two texts must repeat one; with a limit of 3 both tags and texts reach it; a text whose
words are known makes an upload that adds none. In `Net_learning` the documents hold a pair that is a
word of its own, tokens that are words only as a pair, and a word that is none; there are fewer samples
than threads, as many, and more; the limit of the vocabulary falls in the midst of a text; and the array
of the second layer is laid out anew with several outputs and both hidden units. In the pipeline the
kinds `save` and `blocks` are in no run's instance: they send, receive and catch like `uml`, without its
progress state (the proofs hold for all kinds); two others wait behind the job worked on, and a job has
one message or more. One epoch stands for 100: each is one more message of the same kind. With two files
the page has a first, a last and a following one. On the client side two lists make a queue of more than
one, a search and a prompt are of lower urgency and end the thread when the store throws; a composition
differs from a list by its urgency only. The visitors ask for ever, so no bound is on the length of a
run. In `Ipc_link` every message is longer than the buffer, a second request follows the first at once,
and base 3 makes tags of ten bytes as much too long as 65536 are. All runs but the two of `UmlStore`
switch deadlock checking off: every request is made at most once, and a stopped server, like an idle one,
takes no more steps. `UmlStore` can always be asked again, and is checked for deadlock.

**Fairness** (`Fairness`, `PageFairSpec`, `FairSpec`). Threads keep running, so the master, the handlers
and a poll that holds the lock are weakly fair. The worker is strongly fair: it needs
`progress_mtx_`, which polls take again and again; they come half a second apart and hold it
for one short write, so the worker gets it in the end. The page's steps are strongly fair for
the same reason: its timer fires until it is answered. In `Lifecycle` worker, master threads and
replies are weakly fair: each waits for nothing but
a message; in `IpcLink` the two loops and the calls that move bytes, likewise. In `UmlStore` the
threads are weakly fair, and the exclusive lock is strongly fair: glibc's rwlock, which
`std::shared_mutex` is there, lets readers in before a waiting writer (a second shared lock of one
thread cannot block on it), and the last reader that leaves wakes the writer; with only two
threads the lock is free again and again. On a platform that prefers writers `OperationsEnd`
fails, which is its mutant. Nobody is obliged to send a
request, no timeout is obliged to strike, no process ever has to die, and no store has to throw. When the
master's admin thread has ended by an exception or the master is gone (`~Serving`), `EveryoneIsAnswered`,
`TrainingEnds`, `AnsweredBeforeStop` and `PageComesToAnEnd` promise nothing: its worker waits in recv.

## 4. Findings

* `DocStore_reupload`: a tag with a new word makes vocabulary and network differ in size
  (`store.cpp:293`, `338`); training is then skipped, prompts get "Model mismatch. Please
  re-upload documents." (`store.cpp:412`), and a re-upload is a full duplicate, which returns
  before anything is repaired. A restart or a text with a new word does repair it
  (`MismatchIsRepaired`).
* `Page_learned`: a poll between the upload and the worker's dequeue reads
  `"training":false`, which the page takes for the end (`admin.js:177-210`, `298`).
* `Uml_shown`: `post_train_uml` answers "accepted" at once and the result in a second response
  (`admin.cpp:616-637`); `fetch` resolves with the first, and the page returns
  `data.status === 'ok' ? 'ok' : 'err'` (`admin_uml.js:147`).

Seen while reading, without a run of their own:

* a word that a tag brings makes the training of its upload be skipped (`store.cpp:293`, `neural.cpp:88`); a
  restart widens the inputs (`load_state`) and so makes the sizes agree while the chunk is still
  unlearned, until the next upload. `EveryChunkLearned` exempts this restart and is violated without that;
* an exception other than a failed read ends the master's admin thread, not the process
  (`worker_master.cpp:264`): the admin worker then waits in recv until the client side sends something.
  The liveness properties of both sides exempt it;
* a full duplicate uploaded with "Serialize to disk after every file" (`admin.js:13`) is not
  followed by a save (`store.cpp:280-283`), so what was uploaded before without the flag stays unsaved;
* between `set_last_file_result` and `set_training_done` (`worker_admin.cpp:57-58`) a poll can take
  the result away, and a full duplicate is shown as done;
* the waiter thread may write "Learning Complete!" before "accepted" (`admin.cpp:443-459`), and the
  page takes it for a failed upload (`admin.js:238`);
* `admin_uml.js:21` sends type 3 for `.js` and `.html`, `initialize_db` names types 1 and 2 only
  (`store.cpp:38`): such sources are stored and never listed (the join in `SourcesOf`);
* bigrams are words, but `add_document` counts tokens only, so their df, and with it idf, stays 0 and
  they weigh nothing, unless a text holds the same word with its underscore (`Weighs`); likewise
  the words that only tags bring;
* the default of a prompt's threshold is -1.0 "use default" (`client.cpp:227`), but no one replaces it;
* `POST /feedback` sends nothing to the master; the handler of command 0x06 is never reached;
* a text in a table is cut after 100 bytes (`store.cpp:936`), a blob after 200 (`943`), possibly within
  a character: `dump()` throws and the page gets an error instead of the table. For a search result
  nothing catches it and the client thread ends (`worker_master.cpp:290`);
* events that cannot be read end the list of events of a TRAIN_UML, without an error; containers with
  an empty name cannot be composed.

## 5. Proofs

The prover states nothing about runs under fairness: what follows is safety, for all values of the
constants, with the assumptions of the modules (`ASSUME`, evaluated in every run) and no others
unless named.

| Module | Theorems |
|---|---|
| `DocStore_proofs` | `TypeCorrect`, `StoreIsLibrary`, `InputsStayWithinVocabulary`, `SavedStateStaysCurrent`, `MismatchesAreRepaired`; under `NoRepeats`: `StatisticsStayExact`; under `CleanUse`: `OutputsStayChunks`, `AnswersExist`, `EveryChunkIsLearned` |
| `AdminPipeline_proofs` | `PipelineTypes`, `JobsAreHeld`, `StaysInStep`, `SuccessIsTrue`, `AnswersOnce`, `MemoryIsFirst`, `ServesInOrder`; for the page `PageTypeCorrect`, `ShownResultsAreReal` |
| `Lifecycle_proofs` | `ClientTypeCorrect`, `ClientStaysInStep`, `QuestionsStayHeld`, `OnlyTheMasterFails` |
| `IpcChannel_proofs` | `FramesStayInStep`, `ChannelIsFifo` |
| `IpcLink_proofs` | `StreamsAreQueues`, `JobsAreWhole` |
| `UmlStore_proofs` | `UmlTypeCorrect`, `StoreIsUmlCatalog` |
| `Learning_proofs` | `LearningTypeCorrect`, `IndexStaysInverse`, `SplittingKeepsTheText`, `LearningIsConnections` |

### The store

`StoreConstants` says that documents are sequences of texts, that there are finitely many words, and
that a token of a text which is a word is among the words the text brings (`is_valid_word` is asked
of every token by `add_words`).

`TypeOK` is inductive; the work is in `StoreDocument`: the ids of new rows are numbers above
all old ones and the extended table is finite. `StoreIsLibrary` needs no further assumption: repeating
chunks, a full vocabulary, feedback on missing ids and failing writes included. Each
step of the store adds items (and perhaps copies them), saves, reopens or stutters
(`NextIsLibrary`), using that no step but `Restart` loses a row (`MoreRowsMoreItems`).

*Sizes.* `InputsWithinVocabulary` and `SavedStateIsCurrent` hold because of each other and of
what the tables say: `InputsInv` adds that no model, running or saved, is wider than the words it is
stored with (`InputsFit`), in memory and in the file, as a restart makes the file's state the live
one. `GrownSizes` is the fact behind it: `add_words` only adds, so equal sizes mean equal
vocabularies, which is what the code's comparison of sizes relies on. `MismatchesAreRepaired`
follows from `InputsInv` and the step alone.

*Outputs and answers.* `OutputsStayChunks` and `AnswersExist` assume `CleanUse` (no document repeats
a chunk, and command 0x06, which nothing in the repository sends, is not sent).
`OutputsAreChunks` is not inductive: tag rows must not be
orphans in the file either. `CleanInv` adds that the vocabulary is the saved one and
that both databases are clean (`CleanDb`: model sizes, tag rows on stored ids). The
heart is `RowIdsAreNext`: in a repeat-free document the fresh positions get exactly the ids
after the last one, which `RanksFillInterval` derives from finite cardinalities. The
texts and tags are arbitrary: no vocabulary assumption is needed for these two.

*Statistics.* `StatisticsInv` adds the same for both databases, that the df of what is no word is 0,
and that a token of a stored text which is no word met a full vocabulary (`CountsExact`): otherwise a
later upload could make it a word whose earlier occurrences were not counted. `NewRows` shows that
the insert loop is a bijection between the fresh positions and the new rows, so that counting
tokens of the document and counting them in the rows is the same. `NoRepeats` is needed: the code
counts a repeated chunk twice and stores it once.

*Learning of every chunk.* `train_batch` skips an upload when vectors and inputs differ in size, which a
tag's new word causes. `EveryChunkLearned` says what becomes of the skipped chunks: the next upload whose
text has a new word learns all that is stored, so does one that brings nothing new while the sizes agree,
and once everything is learned no step but a restart makes the sizes agree with a chunk that is not.
`EveryChunkIsLearned` proves it under `CleanUse`, for any texts, tags and MAX_VOCAB: it follows from
`InputsInv` and `CleanInv` (the labels are the outputs) in one step, by whether the text widened the
inputs (`GrownNet`).

### The admin side

`AdminPipeline_proofs` proves its theorems for any connections, kinds of request, pollers and number of
epochs, and whether or not the master may end or its store throw (`PipelineConstants`). None of the
properties is inductive alone. `Inductive` adds

* `OpenAtWork`: the server is there until the worker left it;
* `JobAtHand`: what the worker's program counter says about its job and that job's kind;
* `Stream`: where the messages of that job may be. Either the request is under way, or the
  master trains, or there are answers, and then the last message is the last of the job and
  bears the result the master computed. Outside `recv` (and the moment between a TRAIN and
  its `recv`) both directions are empty. That is why answers need no request id. A master
  that is gone only ever leaves a prefix of such a stream;
* `ResultAtHand`: a job in the worker's hands is unanswered, so whatever the master still
  computes cannot make an earlier answer false.

`NextHeld` needs no fact about messages, `NextStream` none about promises; `NextResult` joins
them: the only request the master can work on is the worker's (`OneMessage`), whose promise is
pending. For `ServesInOrder` the line is the job at hand followed by the queue: a dequeue
does not change it, `Fulfil` serves its head, a stop or a broken socket closes.

`AnswersOnce` needs `OneVoice`, which says of each connection which threads can run beside each
other and that none of them runs any more, or none that will answer, once there was an answer; a
504 ends the thread that waits, so the late value is read by nobody. `MemoryIsFirst` needs
`MemoryAtHand`: from the memory setter to the publication the memory is that of the job at hand.

The page's steps are steps of the server or leave it alone (`PageStepsAreServers`), so the pipeline's
invariant holds for the composition. For `ShownResultsAreReal`, `ResultsAreOwned` says that each
result which is shown, kept for the next poll, or in a reply not yet looked at stems from an upload
of its own which is past its publication. Its upload is a witness chosen step by step: the setter
creates an owner, a poll moves it to the reply, the page to the file. Other pollers may take a result
away, and then nobody owns it.

### The client side

`Lifecycle_proofs` proves what `ClientPipeline` states for the composition of three processes, each of
which may be killed at any time. `OneUnderway` is the client side's `Stream`: a question, an answer, or
the thread's job, never two of them, while the master is there; `WaitingAreHeld` says that the waiting
promises are the queues' jobs and the worker's, in one place each and in the queue of their kind. The
invariant speaks of a client that is up only: with its process the promises are gone.

### The streams

`IpcChannel_proofs`, for any messages below Base^4 bytes, any base and capacity
(`ChannelConstants`): its inductive invariant `ChannelInv` says that there are
positions at which the frames of the messages lie one behind the other in the stream (`Placed`), and
that the reader is within the frame of the first message it has not returned, holding exactly its
bytes so far (`Reading`). The lemmas show that the length read from a complete header is the length
that was written (`Digits` and those after it), and that a reader that asks for no more than
`Wanted` never reaches into the next frame. That a message given to send does come out is liveness
and is checked by `BothAreFifo`.

`IpcLink_proofs` uses that twice: every step of the link is a step of each channel or leaves it alone
(`DownSteps`, `UpSteps`). `JobsAreWhole` then needs that unpacking undoes packing, for every job the
formats can hold (`JobShape`: fields are bytes, no name has the byte that ends it, what is counted in
two bytes fits in two bytes): `TrainArrives` through the worker's repacking, `TableArrives`,
`UmlArrives` with its counted lists. A statement `HoldsAt(p, at, t)`, "t stands in p right
after position at", is taken apart field by field (`HoldsParts`); the readers are followed by
induction over the list (`ListIsRead`). `LinkInv` says that the executed jobs are the meanings of
the first requests received, which are those asked for.

### The containers

`UmlStore_proofs` shows that the statements of the two threads implement the catalog, for any uploads,
projects and faults: a creation is visible when its thread unlocks, a reader's answer is fixed when it
returns, a save between uploads copies the catalog of that moment, a restart reopens what was saved. The
catalog's `live` is the table without the container that is being created. `Inductive` consists of

* `TablesOK` for both databases: ids count the rows, names are given once, no orphans;
* `LockOK`: who holds the lock, once or twice, by where the threads are;
* `CreationOK`: which of its rows a container that is being created has already;
* `ReaderOK`: what a reader has gathered are blocks of containers that are still as they were, none
  twice and, for a list, none forgotten; for a composition the positions of the found names.

That the last event of a name wins is `LastEventsGrow`, one INSERT OR REPLACE at a time.

### Learning

`LearningTypeOK` and `IndexIsInverse` are about lengths and indices only, and neither is inductive: the
length of a flat array after it has grown or been saved and read again depends on what its layout
is. `LearnInv` is the inductive invariant. It says

* of the vocabulary that it is one of `Vocabs`: no word twice, `index` its inverse, a df for each;
* of the network that it is of `NetOK`: sizes of at least 1, arrays of exactly these sizes, and of the
  saved arrays that they are such a network's without its sizes, or no model at all (`ModelOK`);
* of the file that its rows are a vocabulary's, and of the tables between two uploads that they are the
  running vocabulary's (`Rows`);
* of an upload that its vectors have the vocabulary's size, and of the threads that their sums have the
  shape of the network and their samples are rows of the cache.

`AddWordsGrows` follows tokens and bigrams through the fold, and `TextsCounted` that counting changes no
word. `InputsExpand` and `OutputsExpand` are about the division that finds row and column in a flat
array; `SizedIs` says that `load_state` gets the sizes back from the lengths, which is what a restart
stands on; `LoadedVocabIs` that the rows are read back as the vocabulary they were saved from.

`SplittingKeepsTheText` compares a fold over lines with a declarative splitting. `CutAt` is the
invariant of the loop: which lines the chunks closed so far begin and end with (`first`, `last`), that
none of them could have taken the next line, and which lines the open chunk has. A line begins a chunk
(`CutBegins`), fits (`CutFits`) or closes the open one (`CutCloses`); `SizeOfAppend` says that the
size of a chunk is counted as its text grows. Blank lines are part of a chunk that is open and begin
none.

*Weights.* `LearningIsConnections` is about what the arrays mean: which row of weights belongs to which
word and chunk, and how many samples it has learned. `MeaningInv` adds to `LearnInv`

* `StoreOK`, of what runs and of what the file would be loaded as: every word of a stored text is in the
  vocabulary unless that is full, exactly the words of stored texts have a df (`Known`), inputs ahead of
  the vocabulary have learned nothing (`Spare`), and there is an output for each chunk;
* `UploadSees`: between uploads the tables would be loaded as the running network, widened to the
  vocabulary; during one the cached vectors are those of the stored chunks (`Vectors`);
* `BatchOK`: thread t has the samples from `Upto(N, t)` to `Upto(N, t + 1)`, and its sums are those of the
  samples of its share that it has been through (`Gained`, counted by `Hits`).

Growing: `InputRowsGrow` and `OutputRowsGrow` say that words and chunks find their old rows in the new
arrays, and rows that have learned nothing in the new part; `Spare` is why that holds for a word that
gets an input which was there before it. Learning: `SharesOfThreads` is the division of `train_batch`
(the shares are adjacent and together are all samples), `BatchLearns` adds the sums of all threads, and
`PassRows` finds the rows in the result; `VectorsHave` says that the vector of a chunk has a 1 exactly
for its words that have a df, which by `Known` are those the abstract `Weighs` asks for. Saving and
reading: `WrittenMeans` and `RestartMeans`, as widening twice to the same size is widening once
(`ExpandedAlready`).

### Numbers and folds

`FoldTheorems` proves induction over numbers for *sets* (`UpTo`: a set with 0 that is closed under
successor up to n has all of 0..n), from the existence of a largest element of a finite set of numbers.
With it recursive functions on sequences can be reasoned about after all: a fold has its steps
(`StepsExist`), and its values stay in a set that the operator maps into itself (`FoldValues`). As the
library's induction theorems take operators, which the prover cannot instantiate, the operator of a
fold is a CONSTANT of the module, which is instantiated once for each operator that is folded over
(`EachWord`, `EachThread`, ...; `FoldSteps` is what they give). Division and remainder are there too.

### Only model-checked

* Everything with fairness: who asks is answered, trainings and pages end, operations end, lists are
  not starved, nobody waits for the dead, and the half of `BothAreFifo` that says that messages arrive.
  The prover has no ENABLED, hence no WF and SF.

## 6. Not modelled

* Values of weights, of idf and of similarities; letters of words.
* HTTP, multipart and JSON parsing, the logger, the pages' drawing, failures to start.
* The columns, cut values and filters of the table browser; which rows it returns is a choice.
* The project builder (`client.cpp:461-605`): a handler writes the files of a composition one after
  the other and shares no state with the rest. Two overlapping builds of one project may mix files;
  nothing in the repository promises otherwise.
* Code without a caller: `search_uml`, `search_uml_by_embedding`, `store_uml_embedding`,
  `dequeue_src_types`, `dequeue_ask`, `dequeue_uml_search`, `dequeue_list_uml`, `dequeue_compose`,
  the commands ADD_UMLEVENTS, GET_UMLEVENTS and LIST_UMLEVENTS, which nobody sends, COMPOSE from the
  admin's side, which is never enqueued.

## 7. Plan

1. (done) `DurableLibrary`, `DocStore`, `JobService`, `AdminPipeline`, `UploadPage`,
   `ClientPipeline`, `Lifecycle`, `DocStore_proofs` and `AdminPipeline_proofs`.
2. (done) `MessageFifo`, `IpcChannel`, `Wire`, `IpcLink`, `IpcChannel_proofs`; `UmlCatalog`, `UmlStore`;
   `Texts`, `Vocabulary`, `Network`, `Connections`, `Learning`. Runs that asked the same
   instance were merged.
3. (done) Proofs of all safety properties of the store, the admin and client side, the page, the streams
   and the containers: `DocStore_proofs`, `AdminPipeline_proofs`, `Lifecycle_proofs`, `IpcLink_proofs`,
   `UmlStore_proofs`, `FoldTheorems`.
4. (done) `Learning_proofs`: the type invariant, the indices, the splitting of texts.
5. (done) `EveryChunkIsLearned` for any texts; the end of the master's admin thread by an exception in
   `AdminPipeline`, and saves between uploads in `UmlStore`, with their proofs.
6. (done) `LearningIsConnections`: coordinates of the arrays through growth, and the sums of the threads
   of a batch.
