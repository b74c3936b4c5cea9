# WebTransport Echo Lab: specifications, model checking and proofs

TLA+ specifications of the programs in this repository, TLC configurations
that check them on small instances, and TLAPS proofs, for every instance, of
what each part promises: every invariant and action property that a run finds
to hold is a theorem, every liveness property a run alone.  Paths are relative to the repository's root.

## The system

The lab tells which browsers manage WebTransport, and against which server.

| Part | Code | State it keeps | Operations |
| --- | --- | --- | --- |
| Result store | `scripts/result-store.mjs` | the overview in memory, a chain of pending writes, the result file | `load`, `snapshot`, `record` (sanitize, compare, write, rename, assign) |
| Page server | `scripts/serve-page.mjs` | last accepted submission per browser family | static files; `GET` and `POST /api/browser-results` |
| aioquic echo server | `scripts/aioquic-wt-echo.py` | per connection: accepted sessions | CONNECT, datagrams, bidirectional and unidirectional streams |
| tokio-quiche echo server | `src/bin/tokio_quiche_wt_echo.rs` | per connection: sessions, unfinished uni payloads, next server stream ID | events of the library; closures queued to its worker |
| quinn echo server | `src/main.rs` | per connection: one session, a task per stream | CONNECT, datagrams, streams |
| Framing | `src/main.rs` | bytes of an unfinished preface | `PrefixReader`, `read_varint`, `write_varint` |
| Negotiation | all three echo servers | the header fields of one request | collect the fields, judge the request, choose the response headers |
| Certificate files | `src/main.rs` | the open section | `pem_sections` line by line |
| Test page | `public/index.html` | the run, its report, the Stop flag | run matrix, tests, GREASE differential, publication |
| Health probe | `scripts/aioquic-h3-health.py` | futures that wait for events | probe one server |
| Certificate sync | `deploy/bin/sync-certificate.sh`, `deploy/systemd/` | installed certificate and key | check, copy, rename, restart services |
| Results page | `public/results.*` | none | shows the overview |
| Installer, wrappers | `deploy/*.sh`, `deploy/bin/run-*.sh` | none | run once |

How they interact: the test page runs its cases against the echo servers and
posts the report to the page server, which hands it to the result store; the
results page reads the store's snapshot.  systemd starts the servers, restarts
them when they fail, and the certificate sync restarts them when a certificate
is renewed.

What is hard: calls of `record` that overlap at every `await`; a process that
dies between a rename and the assignment that follows it; a rate limit that is
checked before an `await` and stamped after it; two unbounded channels between
an event loop and the library that executes its decisions later; streams that
arrive cut anywhere and in any order relative to one another; writes the
transport takes only in part; varints in any of their lengths; three servers
that must judge the same request alike; a page on which two runs may be under
way at once; renewals that stop half way.  The list, line by line, is `hazards`
in `PROJECT.json`.

What makes each part correct:

* store: no update is lost, nothing half written is ever read, the change log
  explains the latest snapshots, a failure stays with the call that failed;
* page server: an answer tells what has become of the submission, a reader
  never sees a published snapshot taken back, the rate limit binds for cause;
* echo servers: what comes back on a stream is what was written, in order,
  without a gap, in its session, and is ended exactly when it is complete;
* framing: what a reader makes of a stream does not depend on how it is cut,
  and what the server writes reads as what the client meant;
* negotiation: every server accepts the same requests and answers a session with
  the same headers, in whatever order and number the fields arrive;
* certificate sync: the services end up with the newest pair, and with a pair;
* test page: what it posts the server accepts, a run stopped during its cases
  stays local, and every run ends.

## Modules

| Module | Models | Notes |
| --- | --- | --- |
| `ResultOverview` | what the overview promises | abstract: one step publishes one submission |
| `ResultStore` | `result-store.mjs` | implements `ResultOverview` |
| `PageServer` | the API handler of `serve-page.mjs` | extends `ResultStore`, drives its calls |
| `EchoContract` | what an echo server promises per stream | abstract |
| `EchoClient` | the client and its streams | shared by the echo servers; external |
| `QuicheEcho` | a connection of the tokio-quiche server | implements `EchoContract` on the streams whose writes quiche takes |
| `AioquicEcho` | a connection of the aioquic server | implements `EchoContract` on the bidirectional streams that wait for their session |
| `QuinnEcho` | a connection of the quinn server | implements `EchoContract` under back-pressure |
| `Framing` | varints, `PrefixReader` and the stream tasks around it in `main.rs` | on real bytes; `QuinnEcho` abstracts it to one step |
| `Negotiation` | the header fields of a request in all three servers | one request |
| `Pem` | `pem_sections` of `main.rs` | one file |
| `CertSync` | `sync-certificate.sh` and the units of systemd | Caddy is external |
| `MatrixRun` | the runs of `public/index.html` | ends where `PageServer` begins: with a `POST` |
| `ResultOverviewProofs` | theorems about `ResultOverview` | taken over by the store through its refinement |
| `PageServerProofs` | theorems about `ResultStore` and `PageServer` | the server's invariant contains the store's |
| `QuicheEchoProofs`, `AioquicEchoProofs`, `QuinnEchoProofs` | theorems about the echo servers | each with a refinement of `EchoContract` |
| `WireProofs` | theorems about `Framing`, `Negotiation` and `Pem` | independent of one another |
| `CertSyncProofs`, `MatrixRunProofs` | theorems about `CertSync` and `MatrixRun` | |
| `MC*` | instances for TLC | `MCWire` has `Framing`, `Negotiation` and `Pem` side by side |

### ResultStore

`state`, `queue` (the promise chain `writeQueue`), `step` and `next` (the
operation at its head) and `temporary` belong to the process and vanish with
it; `file` is durable.  `Record` is the call, which only chains; `Begin` is the
body of the operation up to `persist` (the clock is read, the input sanitized,
the next state computed from the state in memory); `OpenTemporary`,
`WriteTemporary` and `Rename` are `persist`; `Assign` is what follows it;
`Refuse` is a `TypeError` of `sanitizeSubmission`; `Fail` a file operation that
throws.  `Crash` may happen between any two of them.  `Start` is `load`, which
trims the log to the new process's cap, and cannot happen over a torn file,
on which `JSON.parse` throws and the process exits.

Abstractions.  A submission is its family and a content: malformed, or one of
a few that `diffSnapshots` tells apart, with or without a GREASE pair.  The
texts of change events are the two contents they compare.  The temporary file
is named after the process ID, so a crash leaves it behind unread; two
processes that share a file are not modelled (the service runs one).  A crash
is that of the process, not of the machine: `persist` does not `fsync`, and
what a power failure leaves is outside the model.  The clock does not run
backwards.

### PageServer

A request is the call of `record` with the same name.  `Arrive` is the handler
up to the body (`HeaderVerdict` has the checks of method, origin and content
type in their order), `BodyFails` a body that cannot be parsed or is too long,
`Submit` the rate limit and the call of `record`, `Accept` and `Reject` what
follows its `await`, `Get` the snapshot served from memory.  A settled promise
resumes its handler in a microtask, before the event loop starts anything else:
`Drained` makes the store wait for it.  Results are assumed enabled
(`WT_RESULTS_ENABLED` is not `0`).  `lastSubmissionAt` is keyed by family and
compared with `Window`, the 2000 ms of the code in ticks.

### Echo servers

A byte is its stream and its position, since no echo looks at a byte; a
preface is the one unit `<<session, 0>>`.  The client of `EchoClient` opens
sessions and streams, writes, ends, resets and abandons requests; it waits for
its response except on the streams in `Eager`.

`QuicheEcho` has three parties: the client; the H3 driver and the QUIC worker,
which are library code and modelled from how `serve_connection` uses them; and
the event loop, one action per event it handles.  `events` and `commands` are
the two channels.  `Execute` runs a closure of `queue_stream_send`: of the echo
of a stream in `Short` quiche may take any part, of the others it takes all, and
the rest is only logged.  A response whose stream is gone ends the loop
(`FailToRespond`).  `Grease` is `--grease`: quiche then owns server stream 15.

`AioquicEcho` has one action per handler, since asyncio runs a handler to its
end and aioquic buffers what is sent without bound.  `Answer` is
`_handle_webtransport_stream`.  Sessions are never removed, as in the code.
`early` is no variable of the code: it records how much of each stream had
arrived when the request of its session was answered, which is what
`UniBytesComeBackOnce` allows to be missing, and requires to be.

`QuinnEcho` starts with `handle_incoming`: H3 accepts the client's first
request (`AcceptRequest`, `TimeOut`), reads and answers it (`Establish`,
`Refuse`, `ResolveFails`), and is dropped.  From then on each stream is a task,
whose `await`s are the values of `task`: `prefix` and `reading` wait for data,
`writing` for the client's window, `opening` for its stream limit.  `WriteAll`
is one advance of a `write_all`, of any size the window allows.  `ReadFails` is
a reset: the dropped send half is ended by quinn, so a client that resets a
bidirectional stream sees its echo end, and `answered` in
`Contract` does not count it.  While H3 still
accepts, it takes the uni streams that arrive (`H3TakesUni`, external).  What
becomes of the connection when H3, and with it its control stream, is dropped
behind the answer (`main.rs:189-191`) is decided by the library and the client:
`outlives` is chosen freely, and says whether the connection does.  If not, it is
closed at once (`Establish`) or later (`Close`).

### Framing, Negotiation, Pem

`Framing` works on bytes.  `Push` is `PrefixReader::push`: at most three rounds
of its loop, each of which appends a varint that is complete or hands on the
rest as payload.  A 64-bit value is its eight bytes, since TLC's integers have
32 bits.  `Send` lets the client choose a message, a length for each of its two
varints and the byte at which its stream ends; `ReadPreface`, `ReadBody`,
`EndInPreface` and `EndOfBody` are the loops of the two stream tasks, for any
cut of the input into chunks.

`Negotiation` takes a request field by field, in any order; `kept` is what
`from_headers` of the tokio-quiche server has kept of them, and the other two
servers look names up in the list (`LastValue`).  `TokioAnswer`, `AioquicAnswer`
and `QuinnAnswer` are status and headers of the response.  A path is its part
before the query and whether there is one.  aioquic alone gives headers to a
health check and to a refusal, so that `ServersAgree` compares the headers of
accepted sessions and the status of every answer.  The three also differ on paths with a
query (tokio-quiche compares whole paths) and on an offer that holds the
protocol's name only inside another (tokio-quiche searches, aioquic splits at
commas): `Plain` excludes both, which neither the page nor the probe sends.

`Pem` reads a file line by line: `NextLine` is one turn of the loop of
`pem_sections`.

### CertSync

A certificate or key is the version of the pair it belongs to.  Caddy writes
the two files of a pair one after the other, in either order, at any time.
The script has one action per command that reads or writes a file or asks
systemd: `Hash` and `Match` are the two reads of `certificate_key_matches`,
`CheckFit` the host and expiry checks, `Compare` the early exit, `CopyCert` to
`MoveKey` the copy, then one `RestartServer` per enabled server and
`RestartPage`.  `EndEarly` stands for a command that fails under `set -e` and
for a killed run.  A unit that was (re)started reads the certificate, then the
key; those in `Checking` (tokio-quiche, whose TLS library compares the two)
exit on a pair that does not match and are started again by systemd; aioquic
starts with it.  The page reads the certificate only, once per start.

### MatrixRun

An action is what JavaScript does between two awaits; `at[r]` is where the run
`r` waits.  `Begin` is `runMatrix` behind its first awaits, an early return
(`NothingToRun`) or a fresh report (`TakeOver`); `CaseEnds` and `DelayEnds` are
the loop of the cases.  The two halves of the GREASE differential are
transports of their own, modelled stage by stage (`runOne`): `StageEnds` notes
what a stage came to and goes on to the one that `Following` names,
`ControlEnds` and `EnabledEnds` are the ends of the halves.  `Publish` has the
checks of `publishReport`.  `Click` looks at the buttons,
`Autorun` does not.  A case is one step: what it measures is left out.

`Acceptable` is what the server asks of a submission, so that the rules of the
page and those of the server, which are separate code, are compared:
`RunAcceptable` for `sanitizeRun` and `sanitizePaths`, `ProbeAcceptable` for
`sanitizeGreaseProbe`, `GreaseAcceptable` for `sanitizeGrease` and
`requireGrease`.  Left out are the counts of outcomes, which the page computes
from the list that the server counts again, and the checks of form (names,
versions, limits of length).  Runs go to the configured target with every path
chosen, and sharing is enabled.

## Runs

`CHECK_DEADLOCK FALSE` stands wherever requests, calls or bytes are bounded: the
system is idle once they are used up.

| Run | Instance | Shows |
| --- | --- | --- |
| `store` | 3 calls, 2 families, 3 contents, 2 crashes, caps 1 and 2, GREASE required or not | the file is never torn, memory is never ahead of it, no update is lost, failures poison nothing, GREASE results are not downgraded, and the store implements the overview |
| `page` | 2 requests, one header combination per early return, 2 families, 1 crash, GETs | answers are true, the limit binds sequential submissions for cause, reads never regress; every request is answered, whatever crashes |
| `matrix` | 2 runs of up to 2 cases, one with the GREASE box ticked; browsers with and without a constructor, with and without datagrams, that take the options of the probes or throw; with and without a GREASE pair | a report that the page posts is one the server accepts, probes included, unless it was stopped in its differential; a run stopped during its cases stays local, a stop opens no further transport and begins no further stage, every run ends |
| `quiche` | 1 session, a bidi stream of 1 byte, a uni stream of 2 whose echo is taken in part, a uni stream that only ends | nothing invented, reordered, crossed or leaked; the contract and the echo of every ended stream on those whose writes quiche takes |
| `aioquic` | 2 requests, a bidi stream, a uni stream that need not wait for its session, 2 bytes each, a datagram | refused sessions are silent; bidirectional streams implement `EchoContract`; of a uni stream all that arrives behind the 200 of its session comes back once, and nothing of what arrived before |
| `quinn` | 2 requests, a bidi and an eager uni stream of 2 bytes, a datagram, windows, buffer and limit of 1; connections that outlive H3 and that do not | the server implements `EchoContract` whatever its tasks do (a reset apart), holds back a client that does not read and, on a connection that outlives H3, starves none that does |
| `wire` | messages of 2 types, 7 sessions on both sides of every varint boundary and 3 bodies, in all lengths, cut anywhere; requests of up to 5 fields; files of up to 7 lines | chunks are invisible, an echo reads as what was meant, the servers accept the same and answer sessions alike, sections are neither joined nor mixed |
| `cert_sync` | a server that checks its pair, one that does not and the page; 3 versions, the second unfit; 2 runs that end early | the last usable pair is installed whatever is interrupted; it is served unless a run ended early behind its first rename; unraced, only what passed the checks is installed |

Four runs end in a counterexample, each a disagreement with what the
repository says of itself:

* `quiche_partial`: a write that quiche takes in part leaves a gap in the echo
  (`tokio_quiche_wt_echo.rs:445`; `README.md:159-162`).
* `quiche_grease`: with `--grease` the first uni echo is sent on stream 15,
  which quiche has used and ended (`tokio_quiche_wt_echo.rs:33`;
  `RESULTS.md:411`, `README.md:163-164`).
* `aioquic_uni`: a uni stream that arrives in two events comes back as two
  streams, of which the first never ends (`aioquic-wt-echo.py:272`;
  `README.md:9-12`, `RESULTS.md:51`).
* `cert_early`: a sync run that ends after its renames and before its restarts
  is not made up for, since the next one finds equal files
  (`sync-certificate.sh:76-79`; `docs/wttest-deployment.md:120-122`).

Bounds.  Two calls in the chain are the least for a lost update, a third makes
a failure in front of a good call and two commits behind it; a cap of 1 forgets
an event on the second change and a restart moves between the caps; two
crashes hit a process that has itself recovered.  Two bytes are the least that
can be cut, reordered or leave a gap, two streams the least that can be
confused.  `MaxEvents` bounds the channel to the application at 1 in `quiche`, where three
streams interleave; commands are not bounded, and longer channels and several
sessions are the proofs' part.
In `wire`, the sessions lie on both sides of each boundary between two lengths
of a varint; five fields let each name of a request occur, and one of them
again; seven lines hold two sections with a fault in either.  Two runs are the
least that can be mixed up on a page; of two cases one is first and one last,
and the proofs cover any number.  `EchoOutcomes` is `{"pass"}`, since no step of the
page asks what an echo of a probe came to; `ready` may fail.
The uni stream of `aioquic` is in `Eager`, so that it is opened before its
session is answered in some behaviours and behind the 200 in others.
Windows and buffers of one unit in `quinn` make every write of more wait; a
later request is bounded to be for a session, as the server reads its stream type only.
Two requests are enough on the page, whose chain the `store` run exercises with
three: a rate limit relates a pair of them, and so does a read to a write.
Three versions let a renewal overtake a run that is copying the one before, with
an unfit one in between; two early ends let a run that repairs another fail too.

Fairness.  Node's event loop runs what is ready and file operations end
(`Advance`); systemd restarts the service (`Start`, `Restart=on-failure`).
Handlers, the driver, the worker and the event loop of the Rust server are
tasks their runtimes keep scheduling.  The timer fires again and again
(`OnUnitActiveSec`), commands end, and failed units are started; that Caddy
finishes a renewal is not assumed, so what follows from it is conditional on a
usable source.  On the page the awaits on a transport have a timeout each, and the
delay between two cases is one; the requests for the certificate metadata and
for the publication (`index.html:961`, `1821`) have none, and that the browser
answers or rejects them is assumed (`MatrixRun`).  Clients owe nothing, but for `quinn`, where a client reads what
comes back: without that the back-pressure of the code rightly stops.  There the
echo is promised on connections that outlive H3 only: nothing in the code makes
one of them do so, and Chrome is on record with none that did (below).  Nothing forces
a crash not to happen: liveness is stated up to the death of the process or
of the connection.

Each property of a passing run has a mutant: a definition marked "Mutated"
beside the one it stands for, with a plausible bug that the property refuses.

## Proofs

Every theorem is about the specification a run checks, for every value of its
constants that the module's `ASSUME` admits.  A property that holds is seldom
inductive: each proof has an invariant of its own (`IInv`, `PageIInv`,
`FramingInv`, ...), a conjunction of named parts, a lemma for each action that
preserves it, and the property as a consequence.

### The store (`PageServerProofs`, first part)

For any number of calls, families, contents and crashes and any set of
configurations: the type invariant, every safety property of the `store` run,
and that the store implements `ResultOverview`.  `StoreAssumption` says that the
sentinels differ from the contents and that caps lie between 1 and `MaxCap`.
The theorems on `ResultOverview` take `OverviewAssumption` as a hypothesis, which
the store's refinement discharges.  `IInv` adds to the properties:

* `ChainInv`: a queued call is pending and queued once; only the head has a
  step, and an empty chain or a dead process has none;
* `NextInv`: between `Begin` and `Assign`, `next` is what `NextState` gives for
  the head's input over the state in memory, which has not moved since, and
  the temporary file holds exactly that when it is about to be renamed;
* `FileInv`: memory is what `load` would make of the file, or one rename behind
  it; receipt times do not pass the clock;
* `CommitInv`: what is committed has a resolved, lost or just renamed call.

Lost updates are excluded by `NextInv` (the read state is still current at the
rename) together with `FileHoldsLastCommit`.  `StoreImplementsOverview` shows
that `Rename` is `Publish` for the head's input, that `Start` leaves the overview
on file alone, and that every other step stutters.  The properties of the log
are proved of `ResultOverview` (`ResultOverviewProofs`, invariant `LogInv`) and
carried to the store by the refinement.

### The page server (`PageServerProofs`, second part)

`PageUsesStore`: below the handlers the store takes its own steps only, so its
lemmas apply.  `PageIInv` is the store's `IInv` and:

* `AnswerInv`: what a handler has answered goes with the outcome of its call;
* `OrderInv`: the chain holds exactly the calls handlers wait for, in the order
  in which their rate was checked; at most one settled call is unheard of, and
  it comes before all that are queued and behind all that were answered;
* `RateInv`: the table holds the time of the youngest accepted submission of a
  family (`AnsweredStamps`, `TableInv`), and what `Submit` has found out about
  the rate stays true until its answer (`CheckedAtRate`);
* `ShownInv`: what was shown is no newer than memory, memory no newer than
  the file.

`OrderInv` is what makes `AcceptedAtRate` true although the table is written
after the `await`: the stamps are written in the order in which they were taken.
`ReadsNeverRegress` follows from `ShownInv` across restarts, as a process
starts from the file.

### The tokio-quiche server (`QuicheEchoProofs`)

For any number of sessions and streams, any length of its two channels and any
`Short`, in three parts:

* `IInv` has the types and, among others, `FinLast` (behind the end of a stream
  comes none of its bytes), `GoneLast` and `HeldInv` (what is gone is announced
  behind everything else about it, while the application holds something of it)
  and `EchoInv` (a server stream answers one stream of the client).
  `UniEchoInItsSession` and `NoLeak` follow.
* The bytes of a stream pass from the events, over the payload that is
  collected, to the commands and the wire.  `OrderInv` says that they are in
  order within each place (`EventOrder`, `PayloadOrder`, `CommandOrder`,
  `WireOrder`) and from each place to the next; `NothingInvented` follows,
  whatever quiche takes.
* Without GREASE, `QuicheEcho` implements `EchoContract` on the streams outside
  `Short`.  `PieceInv` says that each place holds runs without a gap, `Covered`
  that every byte the driver has reported is in one of the places, so that two
  neighbours in order are adjacent; the `...Done` parts say that behind a FIN, in
  whichever place, there is nothing of its stream left.  `Execute` is then
  `Answer`, a write of the client `Write`, and every other step stutters.
  `~Grease` is needed: `quiche_grease` shows why.

### The aioquic server (`AioquicEchoProofs`)

For any number of requests, streams, bytes and datagrams and any `Eager`.
`SessionsInv` says which requests are in `_sessions`, `OpenInv` that a stream
which waits is opened in one of them, `WireInv` that the server's own streams lie
below the next one.  `PiecesInv` says what is on the wire: a bidirectional stream
carries its own bytes, a server stream the preface of an accepted session and one
piece of one client stream, so that a refused session is silent.  `OnceInv` is
`UniBytesComeBackOnce` without the prefaces: what has arrived beyond `early[s]` is
on the wire, and nothing else.  When a session is accepted nothing of its
streams is on the wire yet (`Silent`), and `early` takes up all that has arrived.
`BidiInv` says
that a stream in `Orderly` (bidirectional, and waiting for its session) has been
echoed as far as it has arrived, and ended behind its last byte only.  Every
event on it is then `Answer`.  On the other bidirectional streams what arrives
before the session is dropped by `_handle_webtransport_stream`, and the contract
does not hold: they are left out of the refinement.

### The quinn server (`QuinnEchoProofs`)

The three invariants of `QuinnEcho` and that it implements `EchoContract`, for
any number of requests, streams and datagrams, any windows, buffer and stream
limit; `QuinnAssumption` says that there is a request, that the first one's ID is
below the streams', and that none of the limits is zero.  `Reply(s)` is what has
to come back for `s`, unit by unit, the preface included.  `ReplyInv` says that
what is on the wire and what the task holds are two neighbouring parts of it, so
that a `write_all` moves the border between them whatever the window lets
through; `TaskInv` and `OpeningInv` tie what is held to what the task waits for,
and `FinInv` says that a FIN is sent by a task that is done, with nothing left,
on a stream that was ended or (a bidirectional one) reset.  `PhaseInv` says that
no stream is touched before the request is accepted.  Every step of a task is
then `Answer`, of nothing at times, for the stream of that task (`Progress`).

### Framing, negotiation, certificate files (`WireProofs`)

Both properties of `Framing` hold for all bytes.  The round of `push` has a normal
form: a reader is settled when another round changes nothing, three rounds settle
any reader, and pushing two chunks settles where pushing their concatenation does
(`PushTwice`).  `VarintRoundTrip` reads back what was written in any of the four
lengths, whatever follows it.  `FramingInvariant` adds that what is read is the
front of a stream somebody meant, and what each stage has judged.

`ServersAgree` (the same status from tokio-quiche and aioquic, and the same
headers for a session, from quinn too on the paths it knows) holds for any fields,
values and number of them: what
`from_headers` keeps is, name by name, the last value in the list, which is what
the others look up.

`SectionsAreWhole` holds for any number of lines and any labels: an open section
is what stands behind the last delimiter, a `BEGIN` (`OpenInv`), and the END that
closes it is, counted from the top, the END with the number of its section
(`ClosedInv`).

### The certificate sync (`CertSyncProofs`)

For any servers and any number of pairs, renewals and interrupted runs.  As long
as Caddy has written nothing while a run was reading, what one command has found
out still holds when the next relies on it: the hash that was read is that of
the certificate (`HashFresh`), the files are a pair (`SourceMatched`) that passed
the checks (`SourceFit`), and so is what was copied (`CopyChecked`).  Hence
`InstalledIsChecked`; its condition `~raced` is the code's, which validates
Caddy's files where they are and copies them later.

### The runs of the page (`MatrixRunProofs`)

For any number of runs and combinations.  `Beside` says that two runs under way
at once are both in `overlapped`; `Own` that any other run has the page's globals
for itself: `results` are its cases, in the order of its plan, and `report` is its
report.  `Probed` says that the differential of such a run has, before the stage
it waits for, only what `sanitizeGreaseProbe` accepts, and behind it nothing
(`SoFar`), unless the run was stopped in it.  `StopStands` says that a stop stands
until the stopped run is done.
`PostedIsAcceptable` and `StoppedStaysLocal` follow for the runs that did not
overlap another; `StopIsHeeded` holds of all of them, and needs no more than that
each action looks at the flag before it opens a transport or begins a stage.

### Only model-checked

* Liveness (`EveryRequestAnswered`, `EveryRunEnds`, `EveryStreamEchoed`,
  `EveryBidiStreamEchoed`, `InstalledCatchesUp`, `ServicesCatchUp`): fairness and
  `ENABLED` are out of the prover's reach.
* The four counterexamples above are what TLC found; no theorem says that the
  properties they refute fail.

## Known divergences

Beside the four counterexamples, the models show these, on which the code and
the repository's words differ or which a reader may not expect:

* a Stop during the GREASE differential comes too late: whether the report was
  cancelled has been decided before (`public/index.html:1957`), and it is posted
  although `README.md:362-363` says that cancelled runs stay local.  A probe cut
  behind a `ready` that passed is refused by the server as incomplete
  (`result-store.mjs:399-404`), and the run is lost; otherwise the overview shows a
  verdict, `control-failed` or `affected`, on a half that was not measured
  (`PostedIsAcceptable` excepts runs in `stoppedLate`, `StoppedStaysLocal` is about
  a stop while the cases go on);
* two runs that overlap share results, report and Stop flag, and the second
  takes back the stop of the first (`public/index.html:1843`; the properties of
  `MatrixRun` except runs in `overlapped`);
* the servers differ on paths with a query and on misleading offers
  (`Negotiation`, `Plain`), and in the headers of health checks and refusals:
  aioquic sends `cache-control: no-store` with both and a content type and length
  with the former (`aioquic-wt-echo.py:197-202`, `231`), tokio-quiche the status
  alone (`tokio_quiche_wt_echo.rs:493-496`);
* the quinn server drops its HTTP/3 connection behind the answer to CONNECT
  (`main.rs:191`), and `README.md:7` and `RESULTS.md:59` record that Chrome reaches
  CONNECT there and then rejects `ready` for every response variant.  No part of
  `QuinnEcho` shows why, as it is a matter of the library and the browser; what the
  model says of streams holds of a client that goes on, and `EveryStreamEchoed`
  of a connection that outlives H3;
* `docs/wttest-deployment.md:119-121` says that a certificate is validated and
  then copied atomically.  The script validates Caddy's files where they are,
  copies them later and moves two files one after the other
  (`sync-certificate.sh:85-88`): what is installed may be a pair that was not
  checked, or for a moment two halves of different ones.  `InstalledIsChecked`
  excepts runs that Caddy has raced (`raced`), and `InstalledCatchesUp` says that
  such a pair is replaced in the end;
* the rate limit of the page server is checked before the write and stamped
  behind it (`serve-page.mjs:196`), so that submissions of one family in flight
  together all pass (`AcceptedAtRate` and `LimitedForCause` except them).

## Plan

Done: the store with its contract, the page server on top, the three echo
servers, framing, negotiation and certificate files, the certificate sync, the
page's runs; the proofs of every invariant, action property and refinement
that the runs check.  Left, in this order: what makes liveness true, as
invariants that can be proved (no reachable state of the store, the page server
or the page's runs in which the awaited step is missing); one run of a case
inside `MatrixRun`, late answers included.

## Not modelled

* The health probe (`aioquic-h3-health.py`): one request on a connection of its
  own, then the process exits; it shares no state with the servers.
* The datagram flow tasks of the tokio-quiche server: one per session, each a
  loop that sends back what it receives, without state of its own.
* What `load_certs` and `load_private_key` select of the sections of a file, and
  what rustls makes of them.
* Command lines and their defaults, logging, certificate generation: read once
  at the start of a process.
* Static files, configuration and certificate metadata of the page server:
  every request reads a file and answers.
* What a case of the matrix measures, the analysis and rendering of reports, the
  results page: they compute a text from a report.
* The installer and the wrappers, which run once under an operator's eye.
