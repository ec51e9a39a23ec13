# Verification of dns-update

TLA+ modules, TLC runs and TLAPS proofs for `dns-update`, a program that a
timer starts to bring the A and AAAA records of one hostname in line with the
egress addresses of the host.  Paths are relative to the repository.

## Inventory

| Component | State it keeps | Operations | Module |
|---|---|---|---|
| Reconciliation runner, `internal/app/run.go` | attempt counter; per attempt: the cells that the two probe goroutines fill, the snapshot, the plan | `Run`, `runReconcileOnce`, `runDeleteOnce`, `collect` | `Runner`, `RunnerAudit`, `Publisher`, `RunnerRefinement` |
| Planning and verification, `internal/provider/provider.go` | none | `BuildObservedAddressPlan`, `BuildDeletePlan`, `VerifyObservedAddressState`, `VerifyDeletedTypes` | `DnsPlan`, `Reconciliation` |
| Cloudflare client, `internal/provider/cloudflare` | HTTP client | `ReadState`, `Apply`, error classification | `DnsPlan`, `Runner` |
| Cloudflare API (external) | the records of the zone | list, batch | `DnsPlan`, `Runner` |
| Egress prober, `internal/egress` | none | `Lookup` | `Runner` |
| Retry policy, `internal/retry` | none (the loop of `Run` holds the counter) | `CanRetry`, `Delay`, `Wait`, `ParseRetryAfter` | `Retry`, `Runner` |
| Command line, `cmd/dns-update` | parsed flags | `run` | `Startup` |
| Configuration, `internal/config` | none; reads files and the environment | `LoadWithOptions` | `Config`, `Loading`, `Startup` |
| Secret files, `internal/securefile` | none; reads the file system | `Validate`, `ReadSingleToken` | `SecureFile`, `Loading` |
| Agent documentation, `internal/agentdocs`, `cmd/agentdocgen` | generated files | `Write`, `Check` | `AgentDocs` |
| Repository policy, build info, HTTP helpers, packaging | none | | not modelled |

How they interact.  The timer starts `main`, which resolves flags and
environment, loads the configuration, builds the provider (which reads the token
file) and calls `Runner.Run` under a context that SIGINT, SIGTERM or `-timeout`
ends.  An attempt starts two probe goroutines, reads the records beside them,
waits for both, builds a plan, sends it as one batch, reads again and verifies.
An error that carries a retry mark leads to a pause and another attempt, with
nothing carried over.  Nothing is persisted.  The provider offers no
compare-and-swap: several processes share nothing but the zone.

What is hard.  The goroutines write closure variables and outlive `collect` when
the read fails.  A batch and its reply are separate events: the batch may take
effect although its sender saw an error, and even after it has gone.  The
context may end at any point; `select` may prefer the timer.  Several writers
interleave between read and batch.  Durations are 64-bit integers.
Configuration files are examined and read at different times, and so is the
token file, which two functions check separately.  `agentdocgen` rewrites a tree of
files without a transaction.  PROJECT.json
lists each hazard with its line and the properties that watch it.

What makes each component correct.  Planning and verification agree, settle and
leave other families alone.  The runner writes only with evidence of the same
attempt, reports success only when the name is as it demanded, ends, and
converges; it adds no duplicate and empties no family without evidence, except
through a batch that comes late or was overtaken by another, which the program
cannot prevent.  The retry policy bounds every wait and the sum
of waits, and honors Retry-After.  Startup runs what was asked and its exit
status can be trusted.  Loading accepts what is documented, reads the token file that is
meant, and uses no token that others could read all along.  The generator's exit
status says what the tree looks like, an interrupted `Write` can be finished by
another, and neither leaves the managed paths.

## Modules

**`DnsPlan`** holds the pure part: records, operations, `BuildTypePlan` and the
plans built from it, verification, and the effect of one batch.  Record lists
become sets; the code sorts them only so that "the first record" is well
defined, which `FirstOf` is by ID.  A plan is a set of operations, because the
batch endpoint treats it as one transaction with deletes first.  Every record
carries the managed name (`ReadState` drops the others).  Normalization of names
and the text of summaries are left out.  `Publishes` is the reference that the
properties use: it says what a family should look like without the helpers of
the code.

**`Reconciliation`** is one attempt with nobody else around: read, plan (`Build`,
`BuildDelete` or `Refuse`), `Apply`.  It checks the planning algorithm
against its purpose over every small snapshot.

**`Runner`** is the system: any number of processes (`Writers`), the zone, the
batches that the provider has yet to handle.  One action is what runs between
two blocking calls.

| Action | Code |
|---|---|
| `Start` | `main` after start-up, first iteration of `Run` |
| `ProbeAnswers`, `ProbeFails` | a goroutine of `collect` returns from `Lookup` |
| `LeakedProbeEnds` | the same after its `collect` has returned |
| `CollectReads`, `ReadFails` | `ReadState` in `collect` (also before a delete plan and after a batch) |
| `CollectFails`, `Plans` | `wg.Wait`, `collectProbeError`, planning, dry run, no-op and force push |
| `DeleteReads` | `runDeleteOnce` up to `Apply` |
| `Sends`, `SendAborted` | `Apply` hands over the batch, or finds its context done |
| `ServerApplies`, `ServerRefuses` | the batch endpoint |
| `ApplyReturns`, `ApplyLost` | `Apply` returns with an answer, or without one |
| `Verifies` | second `ReadState` and verification |
| `BackoffEnds`, `BackoffAborted` | `Policy.Wait` |
| `Cancel`, `Crash`, `EgressChanges` | environment |

`AttemptReturns` is what follows every return of `runOnce`: `CanRetry` decides
between a backoff and the end of the run.  A request under a done context fails
and is not retried (`normalizeRequestError`, `Lookup`); one that was already
under way may still succeed, so reads are possible after a cancellation, and
only sending is excluded.  `LateApply` says whether an abandoned batch may still
take effect.  A batch carries the options and the evidence of its sender as
history, for the properties.  IDs of records that anybody still refers to are
not given to new records, as Cloudflare does not reuse IDs.

**`RunnerAudit`** adds three history variables to `Runner`: the egress values since an
attempt began (`seen`), the last batch that changed the zone with the result of its
attempt (`last`), and the processes whose read is older than a change that was not
their own (`overtaken`).  They record and never restrict.

A batch is `Late` when the provider handles it after its sender has given it up:
the context ended, the connection broke or the process was killed, and
`client.go:127` can only cancel its own request.  A batch is `Timely` when it is not
late and its sender has not been overtaken between its read and now, by another
process or by a late batch, its own included.  Four properties speak of timely
batches: `PlanStillCurrent`, `RemovalNeedsEvidence`, `NoNewDuplicates` and
`SuccessMeansAligned`.  They say that lost replies, retries, cancellations, crashes
and other processes do no harm in any other way.  The exemption is needed: without
it TLC finds, for one process alone, a late create that lands next to the create of
the following run, two deletes (one late) that together empty a family, and a late
delete between the read of a run and its decision that there is nothing to do.

**`Publisher`** says what a run looks like to somebody who sees only the records
and the outcome: nothing happens, or the families with evidence reach their goal
together in one step.  **`RunnerRefinement`** instantiates it with the zone of
`Runner` and a run that is under way while its process is not idle.  It needs one
process and `LateApply` off: a batch that takes effect after its run has ended is a
step that `Publisher` does not have.  README.md assumes the first; nothing in the
code or in README.md makes sure of the second.

**`Retry`** is the retry loop with its arithmetic: the doubling of `Delay` step by
step, the jitter as a choice, `Retry-After` as seconds that are multiplied in a
fixed width, `Retry-After-Ms`, which the Cloudflare client prefers, as a duration
that fits, `sleep` racing the context.

**`Startup`** is `run()` from the arguments to the exit status, with package `flag`
as the code uses it (parsing ends at the first positional argument), the search
for the configuration file, the introspection modes, the second check of the
token file, and others who edit the files meanwhile.  The run itself is one
step; `Runner` has its details.

**`Config`** is the validation of the fields of a configuration, the defaults, the
environment override and the path of the token file.  A name is a sequence of
labels, a URL a scheme, a host and a forbidden part if it has one, a duration a
number.  **`SecureFile`** is what `internal/securefile` looks at on Unix: absolute
paths to directories, symlinks, inodes and other things, with permissions as sets
of bits.  **`Loading`** composes them into a process and an operator:

| Action | Code |
|---|---|
| `LoadConfig` | `applyEnvironment`, and `normalize` up to the token file |
| `Walk` | one `lstat` of `validateParentDirectory`, in `Validate` and again in `ReadSingleToken` |
| `ValidateLeaf` | the rest of `Validate` |
| `ParseBaseURL` | the rest of `normalize` |
| `ReadLeaf`, `Open`, `Stat`, `Read` | `validatePathLeaf`, `openNoFollow`, `fstat`, reading, in `ReadSingleToken` |
| `NewClient` | `cloudflare.New` |
| `Rotate`, `Rewrite`, `Chmod`, `Displace` | an operator replaces, writes, opens up, removes or links the file or its directory |

`private` records which inodes have ever been private.  `Documented`, `Meant` and
`Acceptable` are the references that the properties compare with; they are written
from what the documentation promises and share only the permission rule with the
code.

**`AgentDocs`** is `agentdocgen`: `Load` and `Plan` (which paths come from which
sources), `Check`, and `Write` as a sequence of removals, truncations and writes,
each of which may be the last (`Interrupted`).  Between runs anybody may edit the
outputs, put links or directories in their place, and edit the sources at any
time.  The content of a file is the data it was rendered from.  The paths that are
left to read, remove or write are a set, taken in the order of their text.

`MC*` modules give the constants small values.  Definitions marked "a slip" are
plausible mistakes, each of which makes one property fail; they are not part of
any specification.

## Runs

| Run | What it shows | Bounds |
|---|---|---|
| `reconciliation` | Planning, batch and verification agree; a plan achieves and settles what the attempt wants, keeps a matching record, touches managed families only | up to 3 records of any type, 2 addresses, 2 TTLs, both proxy flags, all evidence and selections |
| `sole_writer` | Every write has its licence; `Runner` implements `Publisher` | 1 process, all modes, 4 zones, all egress states, 2 attempts, 2 disturbances; abandoned batches are dropped |
| `late_batches` | An address that is written was observed in the same attempt; only a batch that comes late, or whose sender was overtaken by one, can rest on a stale snapshot, empty a family without evidence or leave a duplicate; success means aligned | 1 process; partial, strict forced and delete runs; 2 zones (empty, two A records), 2 egress states, 2 attempts, 2 disturbances; abandoned batches take effect at any time |
| `two_writers` | Verification detects divergence; concurrent batches change only families with evidence | 2 processes (symmetric), 2 attempts, 1 disturbance; abandoned batches take effect at any time |
| `converges` | Every run ends, and the name converges once disturbances stop, with batches that apply late | 1 process, 2 attempts, 2 disturbances |
| `last_writer_wins` | Refutes README "last-writer-wins": the last of two writers leaves an empty family that it wanted published | 2 processes, a name with two A records, 1 change of the egress |
| `retry` | Bounded waits that double up to the cap, Retry-After, no hot loop, an end | default attempts and first delay in quarters of a second, an odd cap that the backoff reaches (the default one it never reaches), 7 values of Retry-After, 5 of Retry-After-Ms, 21-bit durations |
| `retry_overflow` | A header beyond the range is not honored | one such header |
| `startup` | Options, configuration and exit status are what command line and environment ask for | 15 arguments in lines of up to 3, 5 environments, 4 disks, 1 edit |
| `agentdocs` | The exit status says whether the tree matches; a `Write` that ends with success repairs what an interrupted one left; nothing else is touched | 2 slugs that collide as a command, 2 trees, 8 places with links, files and directories, 2 edits or interruptions |
| `loading` | What is accepted is what is documented; the token file is the one that is meant; the two checks agree; no token from a file that was never private | about 7000 setups: a good configuration changed in 2 fields, all path sources, a credential named by a relative path, all states of file and parent; 3 edits on two of them |
| `positional_words` | Refutes "-dry-run ... without mutating" behind a positional argument | 4 arguments in lines of up to 3 |

Why the bounds are enough.  Planning looks at one family at a time and at each
record only for "matches or not" and "which ID is least"; three records give
every arrangement of a matching and two other records.  An attempt carries
nothing to the next, so two attempts show every way in which one could leak into
another; a property that broke only at the third would need state that survives
two.  Two disturbances pair a lost reply with a cancellation, a crash or an
egress change: in `late_batches` one abandons a batch that the next run meets,
and the other is a change of the egress or a second abandoned batch.  The run
`sole_writer` drops abandoned batches, which the code does not enforce: for
`BatchLicensed`, which is about what is sent, the theorem covers late batches too;
`ImplementsPublisher` does depend on it.  The configuration fields are validated independently
except for name and zone, URL and `allow_insecure_http`, so pairs of changed
fields show every interaction; a swap of the token file that no check notices
needs one edit before and one after a system call, and there are three.  Edits
and interruptions of `agentdocs` are bounded by `MaxEvents`, edits of `loading` by the
setup.  `MaxFaults` counts disturbances and a bound on it
bounds the tags of batches; everything else is bounded by the code.  The
systemd-style restart is unbounded: a process may start any number of times.

Fairness.  `Runner` assumes that a process that can proceed does (`WF` of
`Advance`), that the timer starts it again, and that the provider handles a
batch that it has (accepting or refusing it).  The first is the Go scheduler and
the HTTP timeouts of the clients, the second the timer of `deploy/`, the third
the provider; disturbances are never fair and their number is bounded in each
behaviour, which is what "once they stop" means.  `Retry` assumes only that
steps of the loop and an expired timer are taken.

Deadlock is checked except in `Reconciliation`, `Retry`, `Startup` and `Loading`, which
describe one attempt, one run and one process, and end.

## Findings

1. *Last writer wins* (README.md:71-72) does not hold.  Two runs read a name that
   has A records for two addresses.  The first observes address 1 and deletes the
   record of address 2, verifies and succeeds.  The egress moves to address 2; the
   second run observes it and, from its earlier read, deletes the record of address
   1.  Both batches are accepted, no process dies and no reply is lost, and the
   family is empty although the last writer wanted address 2.  The second run
   reports the divergence; the first one does only if it verifies after the second
   batch.  The name stays empty until the next reconciliation.
2. *Retry-After overflow* (`internal/retry/retry.go:100`): from 9223372037
   seconds on the product is negative and the header is ignored instead of being
   cut to the maximal delay.
3. *Positional arguments* (`cmd/dns-update/main.go:37`): `dns-update -delete a
   -dry-run` deletes both families, because parsing stops at `a` and nobody
   looks at what is left.

## Proofs

Eight modules hold proofs that TLAPS checks for every value of the constants.
Each invariant was run through TLC before it was proved.

**`DnsPlanProofs`**: what the planning operators return.  Every plan consists of
well-formed operations on the families that it was asked about; a batch turns
records into records; a family is published after its plan has been applied, and
a plan is empty exactly where its family was published before.  The least ID of a
family (`FirstOf`) exists by the well-founded order of the numbers.

**`ReconciliationProofs`**: `TypeCorrect`, `VerifiesExactly`, `PlansNothingIffWanted`,
`BatchAchieves`, `AttemptSettles`, `MatchingRecordStays`, `ForcePushInPlace` and
`OthersAreLeftAlone`, which is every property of run `reconciliation`, for snapshots
of any finite size.  Besides the types the invariant says that the
plan is the one for the snapshot (`PlanFits`) and the zone afterwards is that
snapshot with the batch applied (`BatchFits`); everything else is in the lemmas of
`DnsPlanProofs`.

**`RunnerProofs`**: `TypeCorrect` (`[]TypeOK`) and `EveryBatchIsLicensed`
(`[]BatchLicensed`), from the inductive invariant `IInv`.  `BatchLicensed` is
about batches, but whether a batch is licensed was settled when it was planned;
`PlanLicensed` carries that from planning to sending, and holds because a cell
changes only while its goroutine runs, which a licence excludes.  `AttemptsLeft`
keeps the counter in its type when a backoff ends; `ReadsToDelete` gives
`DeleteReads` its mode, from which it has its licence.

`ChangesAreLicensed` (`OnlyLicensedChange`, of steps) needs more.  A batch names
records by ID, and may be handled long after the read that it was planned from,
so a licence alone is not enough: the ID could have come to name a record of
another type.  `ChangeInv` excludes that.  Among the records of the zone and all
that snapshots, plans and batches still speak of (`Known`), an ID has one type,
and no update changes a type.  Steps that leave the zone alone learn nothing that
is not in `Known` (`QuietStep`); after a batch every record was there, stands for a
record that the batch names, or has an ID that nobody knows (`AfterBatch`).  That
last part is the assumption about Cloudflare that the theorem depends on:
`UsedIds`, the IDs of records that somebody refers to, are not reused.

The second half of `RunnerProofs` is `SoleWriterImplements`: `Runner` implements
`Publisher`.  It assumes `SoleWriter`, which has two parts: one process, the
operational assumption of README.md, and no abandoned batch that takes effect
later, which is an addition of this project that neither code nor documentation
guarantees.  The number of attempts, disturbances, crashes and restarts is
arbitrary.  `SoleInv` adds to `IInv` that a batch in front of the provider is the
one that its sender waits for (`BatchIsAwaited`), that a snapshot is the zone
(`SnapIsCurrent`), and that until the provider has handled the batch, planning again
would give it again (`PlanIsCurrent`).  The refinement maps a batch that is applied
to `Publish`, the start and the end of a run to `Begin` and `Finish`, and every other
step to a stutter.

**`RunnerAuditProofs`**: `EvidenceIsFresh` (`FreshEvidence`) and `SuccessfulWritersAgree`
(`DivergenceDetected`), for any number of processes.  `PlanIsEvidence` and
`EvidenceWasSeen` tie what is written to what was observed, and that to the history
of the egress.  For the second theorem `TagIsAwaited` says that only the process
that waits for a batch bears its tag, and `PendingIsAwaited` that while the attempt
behind the last change goes on, its options and evidence are those of that change;
its verification then reads the zone that nobody has changed since.  The attempt
to prove it corrected the history variable: the result of a change used to be
looked up when the *run* of its sender ended, and with two disturbances a run can
end in success after an attempt that lost its batch.  What the code promises is
about the attempt that verifies, and the module says so now.

`PlansAreCurrent` (`PlanStillCurrent`), `RemovalsHaveEvidence` (`RemovalNeedsEvidence`),
`NobodyDuplicates` (`NoNewDuplicates`) and `SuccessIsAligned` (`SuccessMeansAligned`) hold for
any number of processes and with late batches; there is no hypothesis.  `ReadInv`
says why: the snapshot of a process that has not been overtaken is the zone
(`SnapHolds`), what it is about to send, or has sent and waits for, is the plan for
that zone (`PlanHolds` and the property itself), no ID names two records
(`IdsSound`), and no two batches bear one tag (`TagsDiffer`), so a change that is not
the awaited batch always leaves its mark in `overtaken`.  A timely batch therefore
turns the zone into one that is as its sender demanded, from which the other three
follow; a success after verification follows from the verification alone.

`SoleWriterWins` in the same module is the counterpart of finding 1: under `SoleWriter`
the property `LastWriterWins`, which run `last_writer_wins` refutes for two processes,
holds.  It holds at any time and not just at rest (`LastHolds`), because a batch that
changes the zone is the one that its sender planned for that very zone.

**`RetryProofs`**: `TypeCorrect`, `WaitsAreBounded` (`TotalBounded`), `RetryAfterIsHonored`,
`RetriesPause` (`NeverHot`) and `TheBackoffDoubles` (`BackoffDoubles`), for every policy,
jitter, width of durations and sets of headers.  The invariant says that `attempt < MaxAttempts` from
`CanRetry` until the next attempt begins, and that `total` is at most `MaxDelay` for
each wait already paid.  The doubling cannot overflow because
`delay < MaxDelay \div 2` guards it.  Two theorems have a hypothesis.
`RetryAfterIsHonored` needs `HeadersFit`, no Retry-After beyond the range; run `retry_overflow`
shows why.  `RetriesPause` needs `PolicyPauses`, a first delay of two units or more:
half of one nanosecond is nothing, and a policy of one nanosecond would retry at
once.  (The defaults are far from it.)  `BackoffDoubles` compares with the recursive
function `Doubled`; that it exists and doubles is proved by induction over a set
of numbers, from the well-foundedness of `<`, because the induction theorems of the
library cannot be instantiated.

**`StartupProofs`**: `TypeCorrect`, `TheRunIsAsAsked` (`RunsAsAsked`), `ExitStatusIsRight`
(`ExitStatusMeans`), `TheConfigIsTheOneAskedFor` (`ConfigInUse`) and `SuccessIsEarned`
(`QuietSuccessIsAskedFor`), for command lines of any length and any number of edits.
The properties read the command line as a whole, the program one argument at a time;
`AllAccepted` and `LastWins` say what the arguments so far amount to, and `AskedIsSet`
concludes that the two readings agree when parsing ends.  `OptionsKept` and `ConfigKept`
carry that to the run.  `DryRunIsHonored` is the counterpart of finding 3: on a command
line of flags alone (`AllFlags`) the last `-dry-run` always decides.

**`LoadingProofs`**: `TypeCorrect`, `AcceptsTheDocumented` (`ConfigIsSound`), `FindsTheTokenFile`
(`TokenPathMeans`), `TokenIsFromPrivateFile` (`TokenWasPrivate`) and `TheChecksAgree`
(`ChecksAgree`), for every configuration, file system, depth of paths and number of
edits.  `Accepted` and `Refused` say which tests are behind the program and which one
stopped it; `Held` that an open file was private when it was examined, through
whatever name it was opened; `PrivateIsKnown` that the history is complete.
`TheChecksAgree` needs `Walked` as well: on files that nobody has edited, what has been
passed would pass again.  The proof found two gaps.  `Acceptable` took a token file
in the credentials directory of systemd for fit however it is named; the code
recognizes it by an absolute path only (`filepath.Rel` fails on mixed paths), so a
file with mode 0440 that is named by a relative path is refused, and `loading` now has
such a setup.  And a path that is the root itself was not modelled: it is its own
parent.

**`AgentDocsProofs`**: `TypeCorrect`, `ExitStatusIsRight` (`ExitStatusMeans`), `WriteIsARepair`
(`WriteRepairs`) and `OthersAreLeftAlone` (`OthersUntouched`), for any sources, trees, links in
them, hand edits and interruptions.  The invariant follows `Write` through its three
loops.  `StaleIsListed`: what is left to remove is there, and with the outputs it is all
that is there.  `RestIsWritten`: what is not left to write is as it should be, which
carries over from one file to the next because no output lies above another
(`AboveOutputs`).  `WayIsClear`: between the test for symlinks and the writing, the path
leads nowhere else; without it `OthersUntouched` is not inductive, because opening a file
follows a link.  `MayWrite` says that all this is only done for a plan that `Plan` accepts.
All of this is about outputs that nobody edits by hand while a `Write` is under way.  The code decides twice what belongs to the generator, by listing
what exists (`managedPaths`) and by the paths that it would write; the properties
use a third reading, `Owned`.  `ManagedIsOccupied` and `VerdictIsProjects` prove that where
every managed root is a directory, a link or missing, the three agree.  That a path
which comes first exists among those that are left (`FirstIsOne`) is again by the
well-founded order of the numbers.

Assumptions are those on the constants: `NoAddrIsNoAddress`, `IdsAreNumbers`,
`ZonesAreStates`, `ConfigIsSettings`, `RunnerAssumption`, `RetryAssumption`, `StartupAssumption`,
`LoadingAssumption`, `AgentDocsAssumption`.  TLC evaluates them in the runs.  A state of the zone is a
*finite* set of records (`States`), without which no first record need exist.
`LoadingAssumption` types the setups, and says that the hosts of the probes and of the
API are named, that the API is no loopback host, and that a base file has an inode.
`AgentDocsAssumption` says that `Order` lists every path that is spoken of together with
those above it, that the sources lie under `docs/agents`, and that the first tree is one.

Model-checked only: liveness under fairness (`RunsEnd`, `Converges`, Retry's
`RunEnds`), which is beyond the prover.  Every other property of a passing run has its
theorem.  The properties that runs refute are theorems under the hypothesis that the
documentation leaves out (`SoleWriter`, `HeadersFit`, `AllFlags`).  Besides
`LastWriterWins`, only the refinement needs `SoleWriter`.

## Not modelled, and why

- A Retry-After-Ms whose product leaves the range of `time.Duration`, or is no number:
  Go leaves that conversion to the implementation.
- The paging of `listRecords`, the wire format, the parsing of probe bodies and
  of URLs: data that no property tells apart.
- The order of operations inside a batch: the endpoint is transactional.
- Provider rules that the repository does not state (such as the TTL of proxied
  records).
- In `securefile`: the ACL checks on Windows, `..` in a path, and a FIFO in place of
  the token file, on which opening waits.  The program is taken to run as the
  owner of the token file.
- In `agentdocs`: the test that the root itself is no symlink, line endings, and
  edits of the outputs while a `Write` is under way (sources may be edited at any
  time).
- JSON decoding: a file either decodes or does not (`Startup`).
- `repopolicy`, `buildinfo`, `httpclient`, packaging and quality
  tests: no state, or not part of the program.

## Plan

1. Done: all modules of the inventory, the abstract specification `Publisher` and its
   refinement.
2. Done: theorems about every component, for every safety property that a run checks.
3. Open: the three hazards that PROJECT.json lists without a property, each with its
   reason, and the parts under "Not modelled".
