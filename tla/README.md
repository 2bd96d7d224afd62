# Formal models of the applications in this repository

TLA+ models, TLC runs and TLAPS proofs for the stateful parts of the services kept in this
repository. The largest is DarkHarbor (`src/b1/for_user`, and a second edition of it in `src/b2`), a
small delivery platform of three services; the others are single Flask applications. `PROJECT.json`
lists every component, run, mutant and theorem, and maps each definition to the lines it models.

## 1. The systems and their parts

### DarkHarbor (`src/b1/for_user`)

```
browser --> edge-proxy (rust) --> api-server (node, fastify) --> postgres, redis
                             \--> build-runner (go, in memory)
            api-server -----HTTP---> policy-engine (python, fastapi) --> postgres, redis
```

| part | state | operations | what makes it correct |
|---|---|---|---|
| pipeline: `routes/pipeline.js`, `routes/workspace.js`, trigger in `postgres/init.sql` | tables `workspaces`, `pipeline_transitions` | build, sign, review, reset, create, delete, webhook; trigger on every update | stages in order, a signature rests on evidence, the log runs ahead of the state |
| request signatures: `app/hmac_auth.py` | nonces in redis | `validate_hmac` | a header is accepted once while redis remembers it |
| verifier keys: `app/routes_phase1.py`, `lib/jwks-fetcher.js`, `routes/policy-proxy.js`, `server.js` | table `phase1_seed_policies`, the document cache, two maps of verifiers | seed, publish, fetch, invalidate, resolve | the cache is never older than it says, a verifier is the key of its kid |
| builds: `build-runner/main.go` | map of records in memory, one goroutine each | run, simulate, status | answers never go back; builds finish |
| deploy tokens: `routes/deploy.js`, `app/main.py` | redis keys for tokens, seals and override results | override, token, use-token, override-result | a spent token stays spent, a seal opens the secret it goes with |
| reports and events: `routes/builds.js` | redis keys and lists | upload, list, read, notify | a listed report is one that was stored |
| verification tokens: `app/main.py`, `app/verify.py` | redis keys | verify, export | a token pays for one export of what was verified, in time |
| accounts and JWTs: `routes/auth.js` | a row per workspace | register, login, verify | signature checks |
| webhook test, artifact fetch and validate, edge-proxy, `crypto_utils.py` | none | forward or compute | functional |
| dashboard: `public/js/app.js` | the page | navigate, load, act | the page shows what is current |

The api-server is one event loop: handlers interleave at every `await`, that is at every SQL
statement and every redis command. The policy engine is one uvicorn worker whose handlers do not
await once they have the body, so it serves one request at a time; its commands still interleave
with the api-server's in the shared databases. The build-runner is Go: a goroutine per request and
per build, one mutex.

### play-with-login (`src/play-with-login`, and a copy in `src/e99b0f9e-...`)

A Flask application with two editions of accounts and password change links: `/v1` in dictionaries
of one threaded process, `/v2` in a database with an expiry, both with an in-memory inbox. Correct
means: a created account can log in, a link changes a password once, in time, and only for the
account it was issued for.

### LighterTotal (`src/web-lighter-total`)

A Flask application that saves an upload into one shared directory, scans it, unpacks archives and
answers a verdict; a daemon empties the directory every fifteen seconds. The class that does the
work (`multi.py`) also has operations on images (strip, turn, resize, optimize, thumbnail, convert),
each saving over the file in place, and a quarantine that gives files back. Correct means: the
verdict is about the file that was uploaded, "safe" is said of a scan that took place, an operation
on an image that is reported as done left an image that opens and is what was asked for, and the
quarantine does not lose count.

### The sites with a reviewing browser

`src/ez/ezbounty` (accounts report any address), `src/spotivibe1` and `src/spotivibe2` (accounts add
songs and report their own) and LighterTotal's report form (a report is a file of its own). Accounts
and songs are rows of sqlite, sessions are signed cookies, and a report starts a thread that drives
a browser: it logs in as the admin through the site's own form, gets a cookie and visits what was
reported. Correct means: an account reports its own song, a review that ended without an exception
was shown what was reported, and no browser stays open.

### The rest

`src/ctf-potal` (one-call PHP pages), `src/job-app-simulator` (a CGI form without state).

### What is hard to test here

Interleavings at awaits and between threads, statements that fail after others took effect, redis
that loses its keys, caches and verifiers that outlive what they were built from, expiries at their
exact edge, racy reads in Go, threads that pause instead of waiting, and saves that break the file
they were to replace. `PROJECT.json` lists each with its line and the properties that would notice
it.

## 2. Modules

| module | models | abstract specification |
|---|---|---|
| `Pipeline` | the pipeline's tables, trigger and handlers, one action per SQL statement | `PipelinePromise` |
| `HmacNonce` | `validate_hmac` with its clock in seconds and redis in milliseconds | |
| `JwksCache` | key table, published document, cache, verifiers | |
| `BuildRunner` | records, goroutines, mutex, status encoder | |
| `DeployTokens` | tokens, seals, override results | `TicketPromise` |
| `LinksV1`, `LinksV2` | the two editions of password links | `TicketPromise` |
| `ExportTokens` | artifact verification, its tokens and the export they pay for | `TicketPromise` |
| `Scanner` | LighterTotal's shared directory: saving, engines, quarantine, archives, cleanup loop | |
| `Images` | LighterTotal's image operations, restore, listing and emptying of the quarantine | |
| `Reviews` | accounts, sessions, reports and the browser of the sites that review, in three editions | |

Three modules put two of these side by side: `Links` both editions of the links, `LighterTotal` the
scanner and the images, `Overrides` the signature of an override and the token it leaves. Each keeps
variables of its own and a behaviour drives one of the two. For the links this leaves something out:
both editions append to one inbox dictionary (`app.py:24`) and use one session. A link of one
edition is nothing to the other's store, and no property is about an inbox that holds links of both.
The theorems `BothEditions`, `BothHalves` and `BothSides` say that it is then a behaviour of either.
`MC*` modules give TLC its small sets and symmetries. `*Proofs` modules hold the theorems. Mutated
forms of definitions (each commented `Mutated:`) sit next to the definitions they mutate.

`TicketPromise` is shared: a deploy token, a verification token and a password link are each a thing
that is opened once, closed once, and used only by requests that found it open. It deliberately does
not promise "one-time use": two requests that found a deploy token or a link open together both use
it. The verification tokens do keep it, which `ExportedOnce` says beyond the promise.

### How state and actions correspond

* **Pipeline.** `row` and `log` are the two tables; `pc[r]` is the statement request `r` runs next.
  Each statement is its own transaction and so one action; the trigger is evaluated inside `Update`.
  `Fail` ends a request after any prefix of its statements. `created_at` order is insertion order
  (one statement, one timestamp). The column `from_state` is written and never read, so it is left
  out. Ids of the SERIAL column are never used again. The row that `init.sql` inserts is the first
  `Create`. `signed` is a history variable.
* **HmacNonce.** `clock` is in milliseconds; `Now` is `int(time.time())`. Reading the clock, EXISTS
  and SETEX are three actions between which time passes; the engine is inside one call at a time
  (`Busy`). redis may fail on either command, or restart empty (`Flush`). `acc` is the sequence of
  all valid answers, those behind a swallowed redis error included: each says whether EXISTS was
  answered before it (`asked`) and whether SETEX stored its nonce (`kept`).
* **JwksCache.** A verifying request is `Begin` (read the clock, maybe start a fetch), `Serve` (the
  engine answers), `Receive` (the cache is replaced) and `Resolve` (the verifier). A seed travels
  separately, may be abandoned by the proxy while the engine works on it, and may be stored while
  the answer is lost. Signature checks and the payload cache inside fast-jwt are not modelled. The
  proxy's seed route lies behind the hook of `server.js` for `/internal/` paths; it is modelled for
  what it does when it is reached.
* **BuildRunner.** Critical sections are entered by `Enter`; every assignment inside is a step of
  its own. A Go string is two words, and the encoder, which runs without the mutex, may read one old
  and one new. A text that is nil under a length that is not makes the encoder panic, which
  `net/http` turns into a dropped connection (`aborted`). Ids drawn from 12 random bytes never
  collide.
* **DeployTokens.** One redis command is one action; an override does not overlap with another
  (`Busy`) but does with the api-server. Whether the workspace is in REVIEW is chosen freely here;
  `Pipeline` decides it. redis and the engine share the host's clock. The table `deploy_tokens` is
  written and never read, so it is left out.
* **LinksV1, LinksV2.** One dictionary operation, or one statement, is one action. Password hashes
  are the requests that set them, so two are equal only if they were set by one request. Cookies and
  the page texts are left out; names are up to the column's collation.
* **ExportTokens.** One redis command is one action; between them time passes and redis may come
  back empty, but no other handler runs (`Busy`): neither handler awaits once it has its body.
  `Judge` is all of `verify_artifact` up to the SETEX, over kinds of submissions (what mode, whether
  the signature is missing, malformed or good, what the constraints say) instead of bytes. A command
  may fail before it took effect or after. `at` and `found` are history: when a token was stored and
  found.
* **Scanner.** A file is not its name: `at` says where each file is, and a thread that has one open
  writes to it wherever it went, while every engine opens the path again. Between two file system
  calls of a thread anything may happen. An engine that finds no file counts as an objection
  (`_validate_file_size`, `_validate_mime_type` and the signature scan all do), except the first
  three looks, which end in `ERROR`; they are one action, because any of them missing the file has
  the same effect. What two writers leave in one file is a set of contents, of which an engine may
  say anything. An upload is written in one piece, an archive has one member, no upload is called
  `quarantine` or `temp`. The walk over `upload` after a tar is the code's: it visits every file
  there, whoever put it there. `rm` takes the arguments in any order. `Answer` is what app.py says.
* **Images.** A file is a directory and what matters of its content: its size class, whether it has
  EXIF, how it is tilted, whether its format is that of its name, whether it opens. The tag that
  says how to turn it may be of EXIF, of which the code warns, or of XMP, of which it does not.
  `Saves` is a save in place, which fails before it begins, half-way (`Broken`), or not.
  `process_image_upload` is one action per step, each with the calls inside it (a resize strips what
  it saved and drops the answer). With Pillow 10.4, which the image installs, stripping writes the
  bare pixels, so that the tag is gone before turning looks for it; turning swaps the sides, so that
  the image may leave the box of 1920 x 1080 or come into it (`Sides`), after the dimensions were
  read that decide on a resize (`job.big`). A rename into or out of quarantine and the counting
  after it are two steps: `owed` is what a worker has yet to add (`Count`). The workers are the one
  caller of the operations and the threads of `/scan`, which use the same handler and put what they
  find malicious into the same quarantine (`Scan`); they leave a job's own file alone, and an upload
  comes between jobs. A save that makes a file grow beyond 100 MB is left out, and so is
  `validate_and_move_file`: it calls a method that does not exist and always answers with an error.
  No route calls the operations on images; the module is about the class.
* **Reviews.** One module for three programs, which differ in what is reported (`edition`): the
  thread is a list of steps, each an awaited call that may raise. A row's id is its place in the
  table; `Restart` keeps the database or makes it anew, while cookies stay valid (`Stale` tells
  history apart). `BrowserLogin` is the server answering the browser's login, perhaps later than the
  thread's pause. Each visitor has one password; sleeps only take time. `spotivibe1` differs by not
  checking the scheme of a link. That a link is checked decoded and stored raw is a matter of text
  and left out.

## 3. Runs

| run | bounds | shows |
|---|---|---|
| `pipeline` | 1 workspace, 3 requests, 2 manifests | evidence, signed manifest, webhook of a review, log ahead of state, refinement |
| `pipeline_live` | 2 requests, fairness | every request is answered |
| `pipeline_reset` | 2 requests, from a workspace one of them has built | **violated**: the reset's own UPDATE is quarantined and the reset answers DRAFT |
| `hmac_nonce` | 3 calls, one stamp, instants at both ends of the window | unless a redis command of one of the two failed, acceptances are a nonce apart, and the second is at the window's edge |
| `jwks` | 2 verifying calls, 2 seeds, time to live 1, clock 2 | the cache is as current as its stamp, verifiers are the keys of the table |
| `build_runner` | 2 builds of 2 steps, one client, fairness | racy answers never go back and are never final early; builds finish |
| `deploy_tokens` | 2 workspaces, 2 tokens, 2 uses, clock {0, 2, 30}, one loss of redis | spent tokens, matching seals, refinement |
| `links` | 2 names, 4 requests, time to live 1, clock 3 | one success per link, changes in time, created accounts keep their password, two refinements |
| `exports` | 2 verifications, 2 exports, seconds {0, 1, 300, 301} | one answer per verification token, exports were verified in time, refinement |
| `lighter_total` | 2 uploads of 4 kinds and the loop without end; 2 images of every size and kind, one thread of `/scan` beside the caller, the quarantine counted up twice | verdicts are about the upload, malicious ones are moved, a round takes all that is older; clean answers are of sound images, what was taken away is told, who loses the turning tag, the count covers the quarantine |
| `scanner_safe` | the same 2 uploads | **violated**: "FILE IS SAFE" of an upload whose scan failed |
| `reviews` | 2 visitors, 2 names, 2 reviews, 2 note numbers, 3 rows, 2 songs, the database lost once | reports are of own songs, reviews see what was reported, browsers end |

Why the bounds are enough. A pipeline hazard is two requests of one workspace overlapping while a
third has prepared its state; workspaces do not share rows, so one is enough, and three requests
take a workspace from DRAFT to REVIEW. Only the two outermost seconds of a header's window and the
second before and after them matter, and `Instants` has the milliseconds around them; a third
acceptance would need a third nonce lifetime, which the window excludes. Overtaking needs two
fetches, and a key that changes needs two seeds of one kid; with a time to live of one, a document
is fresh, expired and stamped late within two ticks. Races in the build-runner are between one
encoder and one writer; the second build contends for the mutex; two steps are a first and a last,
and any number is the theorems' business. A token's hazards are between one issue and two uses, the
seal's between two overrides. A link's are between one that is used and two that found it, and a
fourth request makes the account; a clock of three is before, at and beyond an expiry of one. A
verification token is stored in second 0 or 1, and the instants 300 and 301 are, for one of second
1, the last it is good for and the first it is not. Operations on images touch one file at a time,
so two are one in the quarantine and one that is processed; the number of steps is the code's. Two
workers, the caller and a thread, are enough to count late over each other.
Reviews disturb each other only by the note number or the songs they share, and a lost database
needs a session from before and a row from after. In the scanner one upload is disturbed by at most
another one and the loop at a time; the two have the same name, or one is the tar that walks over
the other. No member of that run is hidden: a member whose name begins with a dot is left by the
loop, which `Visible` says. `SYMMETRY` is used for requests, manifests, calls, seeds, images,
visitors and threads, which nothing orders, and in no run with fairness. Type invariants are proved
(section 4) rather than run again. Deadlock is checked where
the system never stops (restarts, the cleanup loop, a build store); it is off where all requests of
a bounded run may be answered.

### Fairness

`pipeline_live` assumes weak fairness of each request's statements: `pg` settles every query, with a
row or an error, and the event loop then resumes the handler. Nothing is assumed about clients.
`build_runner` assumes weak fairness of each goroutine: Go's scheduler is preemptive and its mutex
hands over to a waiter that has starved for a millisecond. No fairness is given to arrivals,
failures, restarts or time.

### Disagreements found

Each is a run that TLC must find violated, with the quoted text in `PROJECT.json` ("findings"): a
reset that reports DRAFT over a workspace that the trigger has quarantined, and an upload whose scan
failed and that is answered as safe.

Others were met while modelling, and are visible in the modules without a run of their own: a
password link that two requests in flight together both use, called one-time on its page
(`TicketPromise` says what is kept instead); an image operation that ignored the failure of its own
last save and is reported as done over a file that no longer opens, unless a thumbnail was asked for
(`CleanAnswer`); a tagged image within the limits that turning takes out of them, and that is not
resized though this was asked for, without an error (`MayOutgrow`); an image whose tag is of XMP and
that is resized or optimized by itself, or after its turn failed, and so never turned
(`TagHeeded`); a browser of spotivibe that an exception leaves open (`BrowsersEnd`); a seed is
answered "seeded" when `ON CONFLICT DO NOTHING` dropped it (`EngineSeeds`); the admin key is planted
by the first reader of the key document and not at startup (`Serve`); an override's token lives
thirty times as long as its answer says (`Ttl`); two signups of the dictionary edition can both be
told the account is theirs (`SignupWrite`); a link whose marking failed in the database edition
stays good (`Fails` in `LinksV2`); a verification token that is spent on a request whose format is
then refused (`Delete` before `Answer`).

## 4. Proofs

Proved with TLAPS for every value of the constants. The named assumptions are those the code
justifies (for example that `NoManifest` is no manifest, that a build has between one and `Stages`
steps). Where a module is reached through INSTANCE, or shared by two, its assumption is the
hypothesis of the theorems (`ExportAssumption`, `LinksAssumption` of each edition, `HmacAssumption`,
`ImagesAssumption`) and its `MC` module has TLC evaluate it.

* **PipelineProofs.** Types; `ManifestKept`, `ReviewHasWebhook`, `SignedHasEvidence`,
  `RowsPrecedeMoves`, `SignedManifest`; the action property `FreshEvidence`; and that `Pipeline`
  implements `PipelinePromise`. `SignedHasEvidence` alone is not inductive: that the latest signing
  row proves the manifest at the moment of signing stays true because the log only grows
  (`LogGrows`) until the workspace is deleted (`FreeIsFresh`, `StatusMoves`). `SignedManifest` needs
  that a request which has replaced a manifest stays an excuse for it (`OverwritingStays`).
* **OverrideProofs.** Of the signatures: types, `Spaced`, `OnlyAtTheEdge`, `NonceMeansAccepted`. The
  invariant `HInv` says that one call is inside at a time, that an accepted call read a second of
  the window, that its nonce, if it was stored, outlives it by sixty seconds, and that a call past
  EXISTS has no nonce of its stamp that is still alive; from it an answer that stored a nonce and a
  later one that asked for it are sixty seconds apart, and sixty-one seconds of window leave room
  for that only at the edge. `NoncesSound` follows a nonce from the SETEX, which is past the
  signature, to the answer. Of the tokens: types, `SealOpensSecret`, `ValidIsSpent`, and that
  `DeployTokens` implements `TicketPromise`. `DInv` says that one override is inside at a time, that
  a token whose override read a seal is stored after it, and that seals are never replaced while
  redis keeps its keys. `BothSides` joins the two.
* **JwksProofs.** Types, `CacheCurrent`, `VerifierIsKey`, `UnknownIsOld`. `JInv` follows a document
  from the engine through the call that carries it into the cache: it has every row committed before
  the call's clock. Rows only appear (`RowsOnlyAppear`), so what was true of a document stays true.
* **BuildProofs.** Types, `CompletedIsFinal`, `LogKeepsUp`, `PollsNeverGoBack`. `RecordsSound` ties
  a record to the place of its goroutine; records only grow word by word (`RecordsGrow`);
  `PollsSound` bounds what an encoder in the middle of a record has read by the record and by the
  last answer.
* **ExportProofs.** Types, `ExportedOnce`, `VerifiedRecently`, and that `ExportTokens` implements
  `TicketPromise`. `EInv` says that one handler is inside at a time (`Alone`), that a token in redis
  is what its verification stored (`TokensSound`), that an export past GET found its token in time
  (`ExportsSound`), and that nobody else has spent it or will (`Exclusive`), which is what the
  absence of an await buys.
* **LinksProofs.** For the database edition: types, `ChangedInTime`, `CreatedCanLogin`, and that
  `LinksV2` implements `TicketPromise`. A row is inserted once and its owner and expiry never change
  (`RowsSound`, `RowsStay`), so what a request read of its link stays true while the clock advances
  (`RequestsSound`: it was admitted, or the link had expired already), and only a link of its own
  replaces the password of an announced account (`AccountsSound`). For the dictionary edition:
  types, `OneSuccess`, and that `LinksV1` implements `TicketPromise`. `OneSuccess` is not inductive:
  it needs that a request which succeeded found its link in the dictionary when it deleted it, and
  that a link is stored only once, by the request it is named after (`FirstSound`, `TokensIssued`),
  so that a second success would have to find a link that is gone for good. `BothEditions` joins the
  two.
* **ReviewsProofs.** Types, `ReportedIsOwn`, `BrowsersEnd`, `ReviewSeesReport`. `AccountsSound`: a
  number that a session or a song of the present database holds is of a row, and a row has one
  password, which is one visitor's; `ReportsSound`: what was reported stays the reporter's, because
  rows only appear or all go at once; `StepsSound`: whether a browser is open follows from the step
  the thread is at; `SeenSound`: so do its cookie and, from the visit on, what it was shown.

* **LighterTotalProofs.** Of the scanner: types, `RoundTakesAll`, `MaliciousIsAway`, `VerdictIsOwn`.
  What a step of a request and of the loop may do to files, paths and directories is said once
  (`RequestStep`, `FileStep`, `LoopStep`), and the invariants rest on that. `SInv`: how far a
  request is determines its status (`PathSound`), a directory with something in it is there
  (`DirsSound`), and what the loop had in sight is gone or still on its list (`RoundSound`), which a
  request cannot undo: it moves files only into quarantine, and these no longer count. `AwayInv`
  follows the file a request made through the rename to its answer (`FdSound`, `AwaySound`).
  `VerdictInv` counts the objections engine by engine (`ScanSound`): they add up to `Objections` of
  the upload because, while its path is untouched (`Spared`), every engine finds that one file with
  that one content. Of the images: types, `CounterCovers`, `CleanAnswer`, `AwayIsTold`, `TagHeeded`.
  `Operations` says what each call may leave of an image; `JobSound` and `OnCourse` what a job
  without errors knows of its file between its steps, which no thread of `/scan` disturbs
  (`ScanGood`), so that a clean answer is the truth only because the thumbnail, the last step, opens
  the file once more. The counter needs `Settles`: whoever counts leaves those that owe, one to each
  side of the inequality. `BothHalves` joins the two.

Every invariant and action property that a passing run checks is stated by a theorem. Out of the
prover's reach and left to TLC: liveness (`AlwaysAnswered`, `BuildsFinish`), ENABLED, and anything
defined by recursion.

## 5. Not modelled, and the plan

Not modelled, because there is no state or no promise to break: signature and digest arithmetic,
markup, stateless forwarding (edge-proxy, fetch and validate of the build-runner, webhook test),
one-call PHP pages and the CGI form, logins that only read. Reports and the event queue are two
redis commands per call that no other operation relates: the list of ids is read by one page, the
queue is never popped. `register` is `Create` of `Pipeline` with a token nobody stores. redis
returning with an older snapshot, rather than empty, is not modelled. Liveness of reviews is not
claimed: a browser may hang for as long as it likes.

Left, in this order:

1. `Scanner`: a second member per archive, and a zip whose extraction fails half-way.
2. `Handoff`: the b2 edition's direct entry into REVIEW as a second way to create a workspace, and
   which of the pipeline's theorems survive it; a composition of `Pipeline` with `DeployTokens`, so
   that an override's check of REVIEW is the pipeline's row.
3. `Dashboard`: late answers over the current page.
4. Theorems: that a verifier implements a cache that forgets (an abstract specification of
   `JwksCache`), and that `Reviews` implements one visit per report.
