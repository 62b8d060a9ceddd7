# A verification project for the ODPS C++ SDK

The SDK is a client library: an application links it to move table records,
volumes and query results between itself and the services of MaxCompute. Its hard
parts are not in computing anything. They are in what happens between a request
and its answer: other threads change shared tables, connections break in the
middle of a chunk, a retry repeats what may have been done, a clock read before a
lock is used after it, a loop polls a service that may never answer.

This directory holds TLA+ models of those parts, the TLC configurations that check
them on small instances, and proofs, checked with TLAPS, that hold for every value
of the constants. Every definition is translated from the source; section 2 gives the correspondence, and `PROJECT.json` the
lines.

    tlc -workers 2 -config <X>.cfg <Module>     model-check a run
    tlapm StreamUploadProofs.tla                check the proofs of a module

## 1. The system

| Component (directory `src/`) | State it keeps | Operations | What is hard | Modules |
|---|---|---|---|---|
| Stream upload (`tunnel/stream_upload.cpp`, `slot.h`) | slot table, round robin position, disable time of each slot, time of the last load; all under `mLock` | `OnWriteRecordPack`, `Reload`, `NextSlot`, `UpdateSlot`, `DisableSlot`, `CheckSlots`, `LoadSlots` | writers share the table while their requests are under way; `NextSlot` spins with the lock held; broken reloads | `StreamUpload` |
| – its EOS client (same file) | scheduled server, time of the schedule | `CreateEOSStream`, `TryReschedule`, `Write`, `Tell`, `Release` | retry loop, table read without the lock, writes that arrive after their answer was lost | `ExactlyOnce`, `EosStream` |
| Curl connection pool (`common/curl_connection_pool.cpp`) | idle lists, counts in use, time of the last cleanup; under one mutex | `Acquire`, `Release`, `MarkAsFailed`, cleanup | permits that leak when creation or reset fails; times read before the lock | `ConnectionPool`, `ConnectionLease` |
| HTTP connection (`common/http_connection.cpp`, `http_message.cpp`) | two buffers, curl's handles, status and length of the answer, time of the last byte | `Open`, `Close`, `Write`, `Read`, `WaitResponse`, five curl callbacks, `SuccessWithRetry` | callbacks in the middle of loops; early answers; pauses; timeouts | `HttpConnection`, `ChannelStream` |
| Upsert (`tunnel/upsert.cpp`, `upsert_stream.cpp`, `record_pack.cpp`) | buckets and status of the session; a pack for each bucket, the counted size | `Upsert`/`Delete`, `Flush`, `Reset`, `Close`, `Commit`, `Abort`, `Reload` | requests that were done although they failed, slots that move during a flush, a stream that failed and is closed, polling | `UpsertSession`, `UpsertStream` |
| Arrow streams (`tunnel/arrow_http_stream.h`, `arrow_record_reader.cpp`) | chunk offset, checksum of the chunk and of the whole, unread bytes | `Write`, `Flush`, `Read`, `ReadChunk`, `IsEOF` | chunk boundaries, broken transfers, the short last chunk | `Framing`, `ArrowStream` |
| Buffered readers (`tunnel/record_reader.cpp`, `arrow_record_reader.cpp`, `util.h`) | position, rest of the range, buffered records | `Read`, `ReadData`, `ReadWithRetry` | an exception between advancing and reading; short batches | `BufferedRead` |
| Block upload and download sessions (`tunnel/upload.cpp`, `download.cpp`) | id, status, block list | initiate, reload, write of blocks, both commits, complete | polling, retries, comparison and commit in two requests, lists compared by size | `CommitSession` |
| Volume tunnel (`tunnel/volume_*.cpp`) | file list; chunk offset and cumulative checksum | write, read, commit | truncation at a chunk boundary, commit of repeated names | `VolumeStream`, `CommitSession` |
| Protobuf records (`tunnel/serialize.cpp`) | three checksums, counts, buffers | serialize, deserialize, complete, close | exceptions in the middle of a record, a flush that fails | `RecordStream` |
| Compressing streams (`tunnel/lz4_stream.cpp`, `zstd_stream.cpp`, `arrow_stream.cpp`) | in and out buffers, what the codec keeps back | `Next`, `BackUp`, flush, close | buffers at their limits, what is left at the close | `CodecStream` |
| MaxStorage volumes and write sessions (`max_storage_api/volume_*.cpp`, `table_write_session.cpp`) | stream id, offset and count of a range, whether closed | create, write, close, read, commit, abort | every call a request of its own, ranges that shrink piece by piece | `VolumeFile`, `CommitSession` |
| MaxStorage table and instance reads (rest of `max_storage_api/`) | session status, range of a split, the arrow stream | create, refresh, read, close | a session prepared with a timeout; answers without checksums that come in pieces and may be lost | `TableRead` |
| REST client (`core/`, `common/marked_iterator.h`) | statuses of an instance's tasks; page and marker of a list | wait, stop, ask, list | statuses kept for good, a timeout that counts sleeps; lists that change between pages | `InstanceWait`, `Listing` |
| Records and types (`common/odps_*.cpp`, `complex_type_schema.cpp`) | containers of values | get, set, parse | sequential; nothing to interleave | later, if at all |
| Configuration, signing, helpers; tool, examples; vendored code | – | – | – | not modelled |

How they interact. A session object (stream upload, upsert, upload, download,
volume) sends requests through an `HttpConnection`, which either owns its curl
handle or, kept alive, borrows one from the process-wide pool. `Write` and `Read`
drive curl in the calling thread, and curl calls back into the connection. Record
writers and readers are layers above one connection: record → protobuf or Arrow →
compression → chunks with checksums → buffer → curl. Record packs are the same layers
over memory: a stream upload or upsert sends each in one request, chosen by the slot
table, and repairs the table from the answer. Threads meet in two places only, the
slot table of a stream upload and the connection pool; everything else is used by
one thread and meets the service, another session with the same id, the network and
the clock.

What makes each modelled part correct:

* *stream upload* – no thread ever finds every slot disabled (it would spin with
  the lock held); few addresses are out of use, and only those that failed lately;
  when the faults stop, the table becomes the service's.
* *pool* – counts never leak, limits hold, a connection is never shared; only
  expired idle connections are dropped.
* *HTTP connection* – buffers keep every byte in order, a `Write` that returns was
  taken and not refused, `Read` says "end" only at the end, every call returns.
* *upsert* – a record that was accepted is in a buffer or stored, never replaced by
  an older one; `Flush` delivers, and so does `Close` unless the stream had failed;
  `Commit` returns only what is true.
* *Arrow stream* – nothing is read that was not written; an undamaged transfer is
  read whole; a damaged one ends, and should end with an error.
* *volume stream* – a prefix of the file is read; undamaged, all of it; a break inside a
  chunk is noticed.
* *buffered readers* – records in order and once, and none missing.
* *exactly-once stream* – batches stored once and in order, and nothing taken for
  stored that is not; everything written when the faults stop.
* *record stream* – only records that were written, whole; the end only after all of
  them, and an upload closed without an exception only when the service has them.
* *compressing streams* – what is decompressed is what was written, and all of it if the
  transfer arrives whole: nothing stays behind in one of the buffers.
* *sessions of parts* – a commit that returns has committed what was listed, and is refused
  only for something that is not; every call ends.
* *volume files* – a published file holds what was written; a range is read in order
  and to its end.
* *table reads* – a session is returned when it is prepared; the rows of a split come in order
  and once, and a stream breaks only for a reason.
* *REST client* – a wait returns only for success and ends; a list that changes
  loses and repeats nothing that stayed.

## 2. Modules

Each component has one module, written so that it can be proved about: constants
with named assumptions, one action for each operation, no RECURSIVE operator. `MC*`
modules give the constants values for TLC that a configuration cannot express;
`MCTransfers` and `Sessions` put components that promise alike side by side;
the modules that need none are run directly. `*Proofs` modules hold the theorems.
Operators such as `UpdateSlotUnchecked`, `ReadEndUnreset` or `FailedUncounted`, which stand just
before the definition they are named after, are wrong versions of it. Each is a plausible bug, kept to
show that the property listed with it in `PROJECT.json` would find it; no
specification uses them.

### StreamUpload

A method body that holds `mLock` is one action. A write of a pack is a sequence of
them: `NextSlot`, the request, and then `DisableSlot`, `UpdateSlot` or a reload,
whose answer also comes later; between any two, other writers and the service move.
`serverSlots` is what the service would answer, `now` the wall clock in seconds,
`reportedAt` a history variable.

| TLA+ | code |
|---|---|
| `mSlots`, `mCurrentSlot`, `mLastUpdate` | the members of those names (`Slot` without its split address) |
| `pc`, `slot`, `answer`, `loaded`, `forceReload` | locals of `OnWriteRecordPack` and `Reload` in each thread |
| `NextSlot`, `DisableSlot`, `UpdateSlot`, `CheckSlots`, `LoadSlots` | the methods of those names |
| `LoadBroken`, `LoadEmpty` | the exceptions of `LoadSlots`, with what they leave behind |

The order in which `LoadSlots` carries over disable times depends on the order of
address names; `KeepsAsMany` describes every outcome of every order.

### ConnectionPool, ConnectionLease

`ConnectionLease` is what the pool promises: for each pool name at most `MaxTotal`
leases, never one connection twice, a refusal only when all are out. `ConnectionPool`
is the code: reading the clock is an action, what is done under the mutex another,
so a thread may act on an old time. `LeasesKept` is the refinement, checked by
TLC and proved.

### HttpConnection, ChannelStream

A loop of the connection lets curl work and then tests whether it has what it
waits for. Each callback is an action, enabled while a loop runs; each test is
an action (`LoopStep`). Bytes are numbered, so the buffers' contents can be compared with
what was given to `Write` and with what came. curl and the service are outside:
`StatusLine`, `ContentLength`, `WriteCallback`, `TransferEnds` may come whenever HTTP
allows. `RetryLater` is one turn of `SuccessWithRetry`: a 429 first, any failure
afterwards. `silent` is the time since `mLastUpdateTime`, which `Open` does not
reset. `put_buffer` trusts its callers; `TypeOK` includes that they never write
beyond the buffer.

### UpsertSession, UpsertStream

`UpsertSession` has the slot table and the status, both replaced by every answer of
the service, and the commit and abort requests; `UpsertStream` extends it with the
packs, the flush loop with its retries, and the calls of the application. A request that
goes wrong may have been done or not. Another session with the same id may commit or
abort (`ServiceMoves`). Records are versions of keys; `stored` is what the service has.

`Close` flushes an open stream only (`upsert_stream.cpp:72`). Of a stream that failed, because its listener gave
up, it returns at once and normally, with packs still buffered, which only `Reset` gives up. `reported` remembers what was accepted when
the exception of that failure reached the application. `FlushDelivers` therefore says three things: a `Flush` of
all packs that returns has delivered everything; so has a stream that is closed; and what `Close` of a failed
stream leaves behind had all been accepted before that exception, nothing after it. No text or test
of the repository says that such a `Close` delivers, so it is a hazard and not a finding.

### Framing, ArrowStream

`Framing` says what a transfer is made of: data bytes, and size and checksum words of
`WordSize` bytes that can be cut in the middle. A checksum *is* the data it was computed
of. `ArrowStream` writes a transfer with any pieces, cuts it anywhere or changes a byte,
and reads it, one `ReadChunk` at a time, as `ArrowRecordReader::Read` does.

### VolumeStream

`VolumeSerializer` and `VolumeDeserializer` over `Framing`, in the same manner. There is one
checksum, over the chunk size and all data so far, after each chunk; the serializer writes
it when the next byte comes or the file is closed. The streams between the serializer
and the connection only regroup bytes and are left out; the compressing ones are `CodecStream`.

### BufferedRead

`BufferRecordReader` (`format = "record"`) and `BufferArrowRecordReader`
(`format = "arrow"`) under `ReadWithRetry`. Requests fail before an answer
(`OpenFails`) or in the middle of it (`ReadDataBreaks`, `ReadBatchBreaks`). `broken` has the records that
were asked for in an answer that broke, and no others. An arrow reader whose answer breaks on its checksum
takes that for the end of its range, so that it misses what lies behind as well, which it has never requested.

### ExactlyOnce, EosStream

`ExactlyOnce` is the promise of the exactly-once stream: the table grows by the next batch,
and the application learns of nothing that is not in it. `EosStream` is the code, with two threads, one that writes and
asks for the offset and one that releases the client, as the stream's test has them.

| TLA+ | code |
|---|---|
| `mScheduledServer`, `age` | the member of that name; the time since `mLastRescheduleTimestamp` |
| `retried`, `target` | the count of `TryReschedule`; the server a request goes to |
| `Check`, `Schedule`, `Scheduled`, `ServiceChanged`, `ScheduleFails`, `Assign` | the turns of `TryReschedule` and its handlers |
| `slot0`, `reloading`, `Reload`, `Loaded`, `ReloadFails` | `mSlots.at(0)`, read without the lock, and `LoadSlots` with it |
| `Send`, `WriteSucceeds`, `AlreadyWritten`, `Refused`, `Fails` | the requests of `Write`, `Tell` and `Release`, and their outcomes |
| `home`, `gone`, `released`, `stored`, `late` | the service |

A read that races with an assignment gives either value or, as a fault, a torn one (`NoAddr`).

### RecordStream

Tokens (a tag with its value) go through the buffer of `HttpOutputStream` to a connection
that may break, and are read by `ProtoDeserializer::Deserialize`. The checksums of a
record, of the whole and of the metrics are what they are computed of; the reset of the
record's, which the metrics start from, is part of `ReadEnd`. `Serialize` on a stream whose flush failed, `Complete`, and
`RecordWriter::Close`, which ignores a failed flush, are there as they are: `EndMeansAll` says
that an upload ends well nevertheless only when the service has every record.

### CodecStream

The lz4 and zstd streams, the buffers that they lend to a writer or a reader, and those of
`HttpOutputStream` and `HttpInputStream` that they fill and empty. The compressor keeps back what it likes,
so `Compress` chooses how much of what it has it puts out, in block mode all of it; a block is two
symbols, so that a buffer or a cut may end inside it. `NextOut`, `BackUpOut` and `CloseOut` are the calls of
a writer, `NextIn` is one `Next` of a reader, of which it takes some bytes and backs up the rest.
`writer.codec` selects the code: lz4 writes its header when it is made and compresses at the next `Next`, zstd
in `BackUp`.

### MCTransfers

One instance for the three framings, `ArrowStream`, `VolumeStream` and `RecordStream`, and for
`CodecStream`. Each behaviour is a transfer of one of them.

### CommitSession

Parts (blocks, files, streams) are written and committed by name. A `Commit` is a query that
replaces what the client knows, a comparison at the client, and a request; the service and
other holders act in between. `kind` selects the code: an `Upload` compares sets, a
`VolumeUpload` compares the number of names with the length of the list, a
`TableWriteSession` takes an empty list for none. `SuccessWithRetry` is `Failed`, whose sleep ends with
`Wake`. A `Download` has no parts; its `Initiate` polls until the service has prepared it.

### VolumeFile

The streams of the MaxStorage API: `Write` opens the stream if it has no id and is one request; `Close`
(also from the destructor) publishes the file unless a session will; `Read` asks for all
that is left of the range, takes pieces from the answer (`ReadPiece`) and drops the rest.

### TableRead

The session is what the constructors of `TableReadSessionImpl` and `InstanceReadSessionImpl` do:
`CallBuild` creates a session or fetches one by its id, `Poll` is a turn of the loop, whose time is compared after
the answer. Only the table's `LoadSession` looks at a status that is neither being prepared nor ready. The
stream is `ArrowReadStreamImpl` with its `ArrowBatchReader`: `OpenReader` fails or has an answer, of which the
connection may bring only a part; `Fetch` fills the buffer of `HttpInputStream`; `Take` and `TakeNothing` are one
`ArrowInputStream::Read` each, with or without bytes. What arrow makes of them is external (`Item`): a message begins with two
words that it asks for with one call each and does not ask for again, and nothing instead of the first is the end.
`client.kind` is `"direct"` for previews and direct reads of an instance, which have no session.

| TLA+ | code |
|---|---|
| `service`, `client.mStatus`, `client.elapsed` | the session at the service; `mStatus`; `elapsedTimeMs`, in sleeps |
| `reader.mReader` | `mReader`: `"none"` is null, `"schema"` under construction |
| `reader.unread`, `wire`, `lost` | the buffer of `HttpInputStream`; what is to come; whether the connection breaks after it |
| `reader.mEOF`, `mEof`, `mClosed` | the flag of `ArrowInputStream`; those of the stream |

### InstanceWait

`WaitForSuccess` polls (`Poll`) until the instance is terminated and then judges its tasks (`Judge`); `TaskEnds`,
`InstanceMoves` and `Stop` change the instance in between. `AcquireTaskStatus`, called by the
application, keeps its answer in `mTaskStatus` for good. The sum of the sleeps is kept modulo `Word`.

### Listing

`MarkedIterator::Next` is `CallNext` and the turns of its loop, `Refill`, with the requests of
`TableIterator` and `PartitionIterator`. An entry is its place in the order of names; `service.always` remembers those
that nobody touched. `MaxFaults` bounds the changes and the failing requests together.

### Sessions, MCSessions

One instance for these: a behaviour is of a session of parts, a file, a table, an instance or a list (`part`).
`ReturnsAreTrue`, `RefusesForReason`, `ReadsInOrder` and `CallsEnd` say of each what they have in common.

## 3. What is checked

| Run | Checks | Bounds |
|---|---|---|
| `stream_upload` | no spinning, cap on disables, no disable without a report, types | 2 writers, 3 addresses, up to 3 slots, 2 faults anywhere, broken tables |
| `stream_upload_live` | the table converges to the service's when faults stop | 2 writers, 2 addresses, up to 2 slots, 2 faults |
| `pool` | counts, limits, no sharing, order and expiry of the idle lists, refinement of `ConnectionLease`, types | 4 threads, 2 pools, 3 permits, 2 idle places each, 2 instants of which the second expires the first |
| `upsert` | nothing lost or overwritten by older data, `Flush` and `Close` deliver, but for a stream that failed, `Commit` is truthful, calls end | 2 keys, 2 buckets, 1 or 2 slots, 2 writes of a key, 2 faults, 1 retry |
| `transfers` | of Arrow batches, volume files, records and compressed bytes: nothing read that was not written, everything of an undamaged transfer, what can be missing at the end, no spinning | words and chunks of 4 (up to 5 after damage), batches of 3, reads of up to 4, up to 12 bytes: three chunks, and every way a batch can straddle them; 2 columns, 2 records, a buffer of 4 tokens; 5 bytes compressed through buffers of 2 and 3 |
| `arrow_stream_cut` | **violated**: a transfer that breaks off is reported as its end | the same |
| `buffered_read` | order, once, no gap, what can be missing | 5 records, every range, limits 0 and 2, 3 faults, 1 retry |
| `buffered_read_retry` | **violated**: a retry skips the rest of a broken answer | the same |
| `http_connection` | buffers, `Write`, `Read`, return of every call | buffers of 2, up to 3 bytes each way, 2 retries, a timeout of 1 |
| `eos` | refinement of `ExactlyOnce`; everything written when faults stop | 2 threads, 2 servers, 2 batches, 1 retry, any 2 faults |
| `sessions` | what a commit, a wait or a built session that returns or is refused means; files, rows and lists in order; calls end | 2 clients with 2 calls in all, 2 names, the lists of none, one, one twice and two, 1 retry; a file of 3 bytes in chunks of 2, buffers up to 3, 1 fault; 2 rows in words of 2 units, pieces of up to 3, a timeout of 2 sleeps; 2 tasks, timeouts 1 and 3, intervals 0 to 2 counted modulo 4; 4 names in pages of 2, 1 fault or change |
| `volume_file_overlap` | **violated**: a buffer longer than a chunk is filled from its start again and again | the same file |

The bounds are small but reach the interesting cases. Two writers are enough for any
pair of steps to interleave, and a third party, the service, moves slots; three slots
of up to three addresses let `CheckSlots` both refuse and allow. Four threads with
three permits let one be refused while another is about to give a permit back, and three releases meet an idle list of two
that is full; with two instants a thread can hold a time before, at or after that of a connection or a cleanup, and the
proofs have any number of them. Three
bytes through a buffer of two make the upstream move down what is unread and the
downstream grow. A file of three bytes in chunks of two makes a `Read` take two pieces and a range end
inside a chunk. Words of two units and pieces of up to three make an answer's pieces end in
every place of a message, and its connection break there. Timeouts of 1 and 3 with sums modulo 4 let a wait time out and its
count start again from 0; four names in pages of two make two full pages, or empty ones between. Two clients let one commit, query or be refused between another's comparison
and its request. One retry and one limit on the faults suffice where each retry
starts from the same state as the one before it; more of them repeat the same steps.
Identities of threads, addresses and connections are interchangeable, hence the
symmetry sets of `stream_upload` and `pool`; runs with liveness use none. `VIEW` in the pool run leaves out the
times and marks of connections that no longer exist, what a thread has read and will
read again before it uses it, and how the last call of a thread that is in none has ended.

Deadlock is checked except where the system may stop: a finished transfer (`transfers`, `arrow_stream_cut`,
the buffered readers), a session that is committed and a file that is read
or a call of the sessions' other parts that has ended
(`sessions`, `volume_file_overlap`), and a stream whose batches are written (`eos`).

### The three findings

* `arrow_stream_cut`: `ReadChunk` sets `mLastChunk` when a chunk is short
  (`tunnel/arrow_http_stream.h:192`) and compares the checksum afterwards. When the
  connection broke inside the chunk, the comparison throws, but `IsEOF` is true
  from then on, and `ArrowRecordReader::Read` takes a failure of the Arrow reader
  with `IsEOF` for the normal end. The transfer's rest is missing without an error.
* `buffered_read_retry`: `BufferRecordReader::ReadData` advances `mStart` and
  `mCount` before it reads the answer (`tunnel/record_reader.cpp:102`). If the
  answer breaks, the retry continues with the next request; the records of the
  broken one are never returned. The Arrow reader advances after reading
  (`arrow_record_reader.cpp:110`) and has no such gap, which `NoGapInBatches` checks.

* `volume_file_overlap`: `VolumeReadStreamImpl::Read` loops until the caller's buffer is full but
  passes the same pointer each time (`max_storage_api/volume_read_stream.cpp:138`). An answer that comes in
  more than one piece, as it does at every chunk of the service, overwrites the
  pieces before it; `volume_test.cpp` expects the file's bytes, of files of one piece.

`ReadsOnlyWritten`, `OrderedOnce`, `MissesOnlyBroken` and `ReadsInOrder` say what holds nevertheless:
no damaged or repeated record is ever returned; a record reader that ends misses only records of a broken
answer, and an arrow reader that ends early stopped at the first record of one; a buffer no longer than a chunk gets the range in order.

### Fairness

* `StreamUpload.FairSpec`: a writer that is in a call goes on (its thread is
  scheduled, requests are answered or fail), and time passes. Under it, the
  application is assumed to keep writing: the table is repaired only by writes.
* `UpsertStream`: a `Flush` or `Commit` that runs goes on, and the clock does; nothing
  is assumed of the service. The application's listener is assumed to give up after `MaxRetries`;
  the code itself would retry as long as `OnFlushFail` asks it to.
* `MCTransfers`: the reader goes on; its connection brings something or ends.
* `EosStream`: the writer keeps writing, and what it has called goes on; so does the release once
  called; a reload of another thread ends; time passes. The call to write is strongly fair, since the
  application may also ask for the offset. Nothing is assumed of moves or late arrivals, which are bounded faults.
  `EverythingWritten` names the two states nobody repairs: a table left empty by
  a reload, and a server in slot 0 that left before the stream was constructed.
* `Sessions`: requests are answered, each client's call goes on, and the service ends
  the preparation of a download, without which `Initiate` polls forever. Nothing is assumed of the
  preparation of a table's session or of an instance, whose waits have a time. `CallsEnd` leaves out the
  waits for an instance that the code does not end (`MayBeEndless`): an interval of 0 is never counted, and a timeout within one
  interval of 2^32 is passed by the sum's return to 0.
* `HttpConnection`: the thread goes on, the clock does, and curl calls
  `progress_callback` about once a second, as its documentation says. Nothing is
  assumed of the service: `CallsReturn` holds if it never answers.

### Assumptions of the models

The clock (`CLOCK_REALTIME`) is not set back; if it were, `NextSlot` could spin. Addresses are compared as whole strings. An upsert
session's tables name every bucket, and their number does not change; one thread uses
a session; listeners do not throw. Records of the upsert run have one size, so that
sizes cross the thresholds one record at a time, and a request that timed out does not arrive after its
retry (`EosStream` has such late arrivals). Checksums are injective. The
service frames Arrow data as the client's writer does. A caller drops a
reader that threw, except through `ReadWithRetry`. In `HttpConnection`, `mTimeout`
is not kept: an unanswered request may end as an exception or as a failure. In `RecordStream` a cell is one token,
whose value is never the `"garbage"` that damage makes of one, so arrays, maps and structs have no inside, and a caller stops at the end or an exception. In `CodecStream` the
codecs are correct and notice a frame that does not begin or go on as it should, a cut is all that happens to the
bytes, since frames have no checksum by default, and a stream that could not write is only destroyed. In `CommitSession` a
part stands for a block, a file or a stream with its version, the service commits everything it has stored, and
may answer a second commit of a closed session well. In `VolumeFile` the service clips a range to the file, may
refuse one that starts at its end, takes nothing more for a file that is published, and cuts answers in chunks of its own;
an exception from the destructor ends the program, as one from a stream
never written does, which has no id to close.

In `ConnectionPool` a guard stays where it is: nothing in `src/` moves one into another that holds a connection, and releasing
a guard again finds no connection and does nothing. In `HttpConnection` the connection is not kept
alive. In `TableRead` a batch is one row, an answer has the rows that were asked for, and a caller does not read on after
an exception of a reader that was open. Arrow's reader is taken to treat a length that comes in two pieces as corrupt, and an
answer that ends before a message as its end, with or without a mark; `RefusesOnlyBroken` and `RowsInOrder`
name both cases. In `InstanceWait` the service lists a task in an element of its own, since the code takes the first
of each, and a terminated instance has no running task. In `Listing` a marker is the name after the last that was given, or an
empty one at the end.

Two things the code can meet are in no model: slots of one address with different
disable times, of which `LoadSlots` keeps the last, and an `OnFlush` listener that throws,
whose exception `Flush` takes for a failed request.

## 4. What is proved

For any sets of threads, addresses, pools and connections and any limits, from the
assumptions on constants in the modules.

**StreamUploadProofs**: `TypeCorrect`, `NextSlotNeverSpins`, `DisabledAddrsCapped`,
`NoUnreportedDisable`, from the inductive invariant

    IInv == TypeOK /\ SomeSlotUsable /\ FewAddrsDisabled /\ DisableTimesReported

Strengthening is needed for the last: `DisabledOnlyIfReported` speaks of slots that
are disabled *now* and a later table may still carry the old time over, so the
invariant says of every disable time, expired or not, that a report was no earlier. The
argument: every change of the table either only removes disables (`UpdateSlot`, the
clock, a broken reload) or is guarded by `CheckSlots`, whose count covers all slots
that would be out of use (`FewerDisabled`, `DisableSlotInv`, `LoadCompleteInv`).

**ConnectionPoolProofs**: `TypeCorrect`, `CountsNeverLeak`, `NeverShared`,
`LimitsAlwaysKept`, `AtMostOnePerThread`, and `ImplementsLease`
(`Spec => LeasesKept`), from

    IInv == TypeOK /\ GuardsHold /\ CountsMatch /\ NoSharing /\ LimitsKept /\ NoMoreThanThreads

`GuardsHold` (a thread has a connection exactly between acquiring and releasing) ties
the counts to the threads. The lemmas on idle lists say that cleanup, reuse and return
only draw from what was there (`IsDrawnFrom`), which keeps a list without repetition and
apart from the guards. The refinement maps the state of each thread and shows that each step
under the mutex is a step of the lease or a stutter (`LeaseStep`). The connection count that
the stress tests assert (connections ≤ threads) is `AtMostOnePerThread`. `IdleListsSorted` (`IdleOldestFirst`) and
`DropsOnlyExpired` (`OnlyExpiredDropped`) rest on this invariant and on a second one, that the lists are sorted and every time that was
read is past (`OrderInv`): each step cuts the lists in their order and keeps what was usable at an older time (`IsCut`).

**UpsertStreamProofs**: `TypeCorrect`, `KeepsRecords` (`NothingLost`), `FlushAndCloseDeliver`,
`CommitTellsTruth`, `ServiceMovesOn` and `AllIsCounted` (`NeverUndercounted`), for any keys, buckets, slots and limits, from

    IInv == SessionInv /\ RecordInv /\ CallInv /\ CommitTruthful

`RecordInv` says for each key what `NothingLost` says, and more where a step needs it: a pack
that is not completed begins with the record after the one that is stored (`Holds`), so that sending a completed
pack again, which the service may have taken already, repeats no older record. `CallInv` ties a running flush to the packs: those that a flush
of all packs has passed are empty (`Drained`), so nothing is left when it ends; and it says that a failed stream takes
no records, so what it had accepted is what was reported, and that a stream whose `Close` returned is not open. These three are the parts
of `FlushDelivers`, which `FlushAndCloseDeliver` proves. A bucket keeps a slot
although `UpdateSlot` takes a slot's id for a bucket's number, which is why every key keeps its pack.
`AllIsCounted` adds `SizeInv`: the sizes of all packs, without what `Complete` added, are at most what the stream has counted, and
a `Flush` that leaves small packs has counted those it passed, so that it may take that count for the
whole at its end. That a sum is a number and does not depend on the order of its terms is proved by taking a least
counterexample among the finite sets (`Smallest`), which stands in for induction; `FoldFunction` is then such a sum (`SizesCounted`).

**BufferedReadProofs**: `TypeCorrect`, `RecordsInOrderOnce`, `BatchesWithoutGap` and `OnlyBrokenMissed`.
The invariant relates three sequences: what was
requested so far and what is left make up the range (`PositionInv`), what was returned comes before what is
buffered (`OrderInv`), and a record that was requested is returned, buffered or part of a broken answer
(`CoverInv`), which at the end of the range is `MissesOnlyBroken` for a record reader. For batches the position is just what
was returned (`BatchInv`), and the record at the position of a reader that ended before its range did is part of
a broken answer (`EndInv`).

**HttpConnectionProofs**: `TypeCorrect` (no buffer is written beyond its memory), `PassesBytesInOrder`,
`WriteHandsOver` and `EndOfBodyIsTrue`, for any buffer sizes and any pieces that curl asks for or brings. Beside
types, the invariant needs that a closed connection holds nothing of its last transfer (`ClosedInv`), that a
length that is known is that of the body (`LengthInv`), and that the buffers together hold the bytes between
the caller and curl; the lemmas say what moving down, growing and copying do to a sequence.

**EosStreamProofs**: `InOrderAlways`, and `ImplementsExactlyOnce` (`Spec => StoresExactlyOnce`). The invariant
says that the table is 1, 2, 3 and so on, that what the application knows to be written is in it, and that no request that may
still arrive is of a batch after the one that follows it (`LateIsNext`). What the service stores is then the next batch or one
it has, so that each step is a step of `ExactlyOnce` or a stutter.

**SessionsProofs**: `ReturnsMeanIt` (`ReturnsAreTrue`), `RefusalsHaveReasons` (`RefusesForReason`),
`FilesAreWhole` (`FileHoldsWritten`) and `ReadsAreInOrder` (`ReadsInOrder`), for any clients, names, lists, sizes of
writes, reads, pieces, words and pages, any retries and any number of failures. `SessionsInv` has an invariant for
each part:

* *sessions of parts* – what a client knows and what is news to it are together what the service has
  (`KnowledgeOf`), a request of a list follows a match (`Names`), and a closed session has committed what it stored. That
  equal sizes and inclusion make sets equal is the step where a repeated file name is let through.
* *instances* – a terminated instance has no running task and an ended task keeps its status, so a kept
  status is the task's unless it was kept while the task ran (`KeptInv`).
* *files* – while the service takes bytes it has all that were written, in order, and no others
  unless a `Write` threw (`WriterInv`). What the caller has and what is in its buffer is a run of the file from the
  start of the range on, and the reader's offset and count are those behind it (`Follows`). A `Read` of no more
  than a chunk takes one piece (`TakesOnce`), which is why the overlap of `volume_file_overlap` needs a longer one.
* *tables* – what is unread and what is still to come are the units of an answer from the reader's place on
  (`Behind`), and the place is three words for every message that was taken (`Place`). A whole answer that is used up
  therefore ends at a message, with all rows taken (`AtEnd`).
* *lists* – what was returned and what is buffered ascend, lie before the next page, and have every entry
  before it that was there all the time (`Lists`). That a finite set of places can be put in order, as a page of the
  service is, is proved from the least element (`Ascending`).

**TransfersProofs**: `OnlyWrittenIsRead` (`ReadsOnlyWritten`), `UndamagedIsWhole` (`WholeUnlessDamaged`),
`OnlyChunksMissed` (`MissesOnlyChunks`) and `EndsAreWhole` (`EndMeansAll`), for any data, any sizes of words, chunks,
batches and buffers, any columns, and a connection that cuts a transfer anywhere or changes any one place. `TransferInv` has an
invariant for each format:

* *files* and *record batches* – a reader cannot tell data from a checksum by looking, so the invariant must say where in
  the sent bytes chunks start and how much of the data is written before each (`Covers`, `Chunked`). The reader stands at such
  a place, and what it took with a checksum is what was written there, because no other data have that
  checksum (`ChunkTaken`): a cut or a changed byte is met by a checksum that does not fit, in a chunk or at its end. A volume's
  reader that meets the end at such a place takes it for the end of the file; that is `MissesOnlyChunks`.
* *records* – the tokens that were sent are records between places, and perhaps a record that was not finished, which a
  renewed stream goes on after (`WritesOK`, `SentOK`, `Flows`). What the reader has read of the current record is the tokens since the last
  place, or damaged (`Follows`), and the two totals at the end are met by all records or by none
  of the beginnings (`EndMeansAll`). `FilledCells` shows that the cells of a record make up the record again, the nulls that were
  not sent included.
* *codecs* – there are no checksums, so the invariant follows the symbols: what each beginning of the stream decodes to
  (`Decodes`), that what was put out, what the compressor holds and what is in its input buffer are what was written (`EncodesPut`), and that the
  decompressor has put out a beginning of what it has seen (`Decompressing`).

Every safety property that a run checks, and every action property, is thus a theorem. Only model-checked is
liveness (`TableConverges`, `CallsEnd`, `ReadReturns`, `CallsReturn`, `EverythingWritten`), which needs
fairness and ENABLED.

## 5. Not modelled, and the plan

Not modelled: building requests, URLs and signatures, logging and metrics; the wire
formats of values; Arrow's IPC format and the compression codecs (libraries); the
benchmark tool, examples, vendored code. `PROJECT.json` lists each component with its
status, and each hazard that no property covers yet with the reason.

The plan, most important first:

1. *Refinement.* One abstract specification of a reader, which returns a beginning of what was written and then its end,
   and the proof that each of the transfers implements it.
2. The transfers composed with `HttpConnection`, instead of a wire that breaks.
3. The containers and the type-name parser as operators against reference definitions.

The runs are as many as can be kept short. A new model therefore joins one of the two that compose,
`MCTransfers` for layers of a transfer and `Sessions` for calls to the service, whose properties say of each
part what it has in common with the others.
