# Headless SIEM: TLA+ verification

A verification project for the programs of this repository: TLA+ modules
translated from the source, TLC configurations that check them on small
instances, and theorems that TLAPS proves for every instance. Paths below are
relative to the repository (`src/…`).

1. [The system](#the-system): inventory of components
2. [Modules](#modules): which module models which part, and how
3. [Runs](#runs): what each run asks, its bounds, what it shows
4. [Fairness](#fairness)
5. [Proofs](#proofs)
6. [Where the code and its documentation disagree](#where-the-code-and-its-documentation-disagree)
7. [Not modelled, and why](#not-modelled-and-why)
8. [Plan](#plan)

## The system

Events flow through three programs connected by two FIFOs, and end on a file
system that everything else only reads:

    senders -> normalized -> normalized-out.pipe -> ruled -> ruled-out.pipe -> correlated
                   |                                  |                            |
                data/raw/Y/M/D/h/m/s/*.jsonl       data/alerts/Y/M/D/h/         data/alerts/correlated/
                   |                                  |                            |
                indexd -> data/index/*.db          alert-watch.sh -> notify script
                                \                    /
                                 siemctl (search, digest, alerts, ack, tail, retention)

systemd keeps every program alive. There is no protocol between the programs
other than the FIFOs, the files and inotify.

| Component | State | Operations | What is hard | What makes it correct | Modules |
|---|---|---|---|---|---|
| `normalized` listeners (`src/normalized/src/main.rs`) | the event each listener thread handles; the output lock | receive, write to the FIFO, store, exit on a broken pipe | threads share one lock; a full FIFO blocks under it; `process::exit` in one thread ends all | an event is stored; what a dead reader costs is bounded | `Pipeline`, `Normalized` |
| `normalized` store (`output.rs`) | files under `data/raw/` | `create_dir_all`, temp + rename for a new file, append otherwise | a second writer, retention removing the directory, death between two writes | a stored line is never replaced or lost | `RawStore` |
| `normalized` parsers (`parsers/*.rs`, `envelope.rs`, `event.rs`, `extract.rs`) | none | nine formats tried in order, wrapped payloads, overrides, extraction, labels | escapes; a format inside another; precedence of six sources of a label | what a sender wrote is read back; the label is the first there is, in a fixed order | `Texts` … `Normalized`, `Normalize` |
| `normalized` configuration (`config.rs`) | none | read line by line, merge the files of a directory | rules are flushed at section ends | the rules in force are those written, in order | `NormalizedConfig` |
| `ruled` (`main.rs`, `output.rs`) | lines read ahead, dedup cache, stdout buffer | evaluate, drop repeats, send, file | two sinks and ignored errors; `now - last_seen` on `u64`; the cache is updated before the write | alerts in order, never twice; a repeat is dropped only on account of an earlier emission | `Pipeline` |
| `ruled` rules, suppression (`rules.rs`, `suppress.rs`) | loaded once | two condition languages, globs, networks | one is split at operators, the other parsed by recursive descent; shifts | both mean what their grammar says, but for two points of it | `SigmaRules`, `Suppression`, `Ruled` |
| `correlated` engine (`correlation.rs`) | a chain for each rule and join value; a counter | feed, reset an expired chain, remove a satisfied one, evict | dead chains in the map; one alert completing several ordered steps; a clock that steps back | each correlation alert is exactly what its stretch of input calls for | `Correlation…` |
| `correlated` main, output | lines read ahead | read, emit, exit at end of file | an error while emitting drops the rest | every correlation returned is written | `Pipeline` (in part) |
| `indexd` watch loop (`src/indexd/src/main.rs`) | watch descriptors, `watch_paths`, `raw_dir_identity`, timers | boot, recursive watch, initial scan, event loop, sweep, health check | directories that appear between watching and scanning; queue overflow; SIGKILL | no line is forgotten | `IndexdWatch` |
| `indexd` database (`db.rs`, `parser.rs`) | connection cache, WAL files | index a file, evict, convert the journal, `--clear`, `--backfill` | unlinked databases with open handles; conversion that fails | idempotent, one row for each line | `IndexDb` |
| `alert-watch.sh` | an offset file for each alert file | inotify loop, sweep, baseline | two processes, one offset file, no lock; torn lines; `printf >` truncates first | each alert above the threshold is notified, once | `AlertWatch` |
| `siemctl alerts`, `ack` (`alerts.rs`) | `ack.jsonl` | query, ack, compact | watermark of a whole second of a clock that may be set back; read-compact-write against an append; a command killed in the middle of a line | an alert that fired after the ack is shown, one acknowledged stays hidden | `AckLog` |
| `siemctl tail`, `retention` (`main.rs`) | an offset for each file; nothing | follow; delete old files and empty directories | races with every writer | what was young when listed stays; no line is shown twice | `RawStore`, `AckLog` |
| `siemctl search`, `stats` (`query.rs`, `db.rs`, `main.rs`) | none | lex, parse, SQL or evaluation over JSON | two evaluators of one language, one of them on `LIKE`; one database for each hour | each gives the answer a reader would work out, and where the two differ is stated | `Search`, `Reports` |
| `siemctl digest`, time (`digest.rs`, `digest_query.rs`, `time.rs`) | none | buckets, baseline, completeness, boot storms | boundary and calendar arithmetic; an index that is behind | each event is counted once, in its period | `HourBuckets`, `Digest`, `Reports` |
| `siemctl status`, `dryrun`, `validate`, layout | none | print what is there | nothing | the output | none |
| systemd units, scripts | unit states | restart, open the FIFOs in order | cascades of restarts through the FIFOs | everything comes up again | `Pipeline` |

Everything in this code that is hard to test is listed, line by line, under
`hazards` in `PROJECT.json`, with the properties that would catch it.

## Modules

    CorrelationRules <- Correlation <- CorrelationHistory   <- MCCorrelation
                 ^           ^-------- CorrelationRefines   <-/      (TLC)
                 |                          |   ^
             CorrelationSpec  <--INSTANCE---/   \-- Correlation_proofs (TLAPS)

    AlertWatch <- MCAlertWatch, AlertWatch_proofs
    IndexdWatch <- MCIndexdWatch, IndexdWatch_proofs
    IndexDb <- MCIndexDb, IndexDb_proofs
    Pipeline <- MCPipeline, Pipeline_proofs
    Lines <- RawStore <- MCRawStore, RawStore_proofs
          <- AckLog <- MCAckLog, AckLog_proofs

    Conditions <- SigmaRules <- Suppression <- Ruled <- MCRuled
        ^
        \--- Search <- Digest <- Reports <- MCReports
             HourBuckets <-/  <- HourBuckets_proofs

    Texts <- Parsers <- Syslog, Markup <- Normalized <- NormalizedConfig
                                                 <- Normalize <- MCNormalize

The `MC` modules only give constants their values. Definitions commented
"Mutant:" are plausible bugs; each stands before the definition it would
replace, and shows that the property named in `PROJECT.json` notices it.

The modules of the first picture are state machines of programs that act at the
same time. Those of the second are pure computations, turned into state
machines by letting their input grow step by step: a condition token by token
(`Ruled`), a store event by event (`Reports`), a field token by token
(`Normalize`). The program's answer for the input so far is compared in every
state with a reference definition written from the documentation.

### Correlation engine

`CorrelationRules` holds the rules and what one alert does to one chain:
`ExtractField` (the nested string wins even when empty), `MatchingSteps`,
`Opened` (a live chain or a fresh one), `Advance`, `Satisfied`, `After` and
`Report` follow `feed_at` from top to bottom. The source loops over the
matching steps and mutates the chain; here the loop has a closed form: `Run` is
the gapless run of steps that one alert completes from the cursor on, `Cursor`
where the cursor comes to rest, `Counted` the steps that are incremented.
`CorrelationHistory` runs the loop itself over the input (`CountStep`,
`FeedLoop`, `Replay`, recursive functions) and compares: `ChainIsReplay` and
`ReportIsReplay` state the agreement of the closed form with the loop, for every
reachable chain.

`Correlation` is the state machine: `Feed` (with the eviction on each
`EvictPeriod`-th alert, before that alert), `FeedUnclassified` (returns before
it is counted), `Tick` (the clock may also step back) and `Restart`. `fed` and
`triggered` are history: the input and the reports. Alerts are named by their
position in the input; samples are sequences of positions.

`CorrelationSpec` is the contract: a chain exists for exactly as long as its
window, with no eviction, no counter and no dead chain. `CorrelationRefines`
maps `live` to the unexpired part of `states` and states that the engine
implements the contract.

### Notifier

`AlertWatch` models the two processes of `alert-watch.sh`. `process_file` is
six steps, each one command of the script: `ReadOffset` (`cat`), `Stat`,
`ReadLines` (`tail | while read`), `HandleLine`, `OpenState` (the truncation of
`printf >`), `WriteState`. Sizes are counted in two units for each line, its
text and its newline, because `writeln!` on a `File` makes two writes. The
writers append text and newline separately; someone may empty a file; a restart
takes every existing file as read.

### indexd watch loop

`IndexdWatch` models how the daemon learns of files: `WatchDir`, `ListDir` and
`ScanDir` are the bodies of `add_recursive_watches` and `scan_existing`, taken
in any order; `Identify` records `raw_dir_identity`; `HandleCreate` and
`HandleFile` are the event loop with its fall-back to a path found by name;
`Sweep` prunes by directory mtime; `HealthCheck`. Both may come while events are
waiting: the loop has found the queue empty, and then waits for up to 200 ms. The kernel's queue drops what
does not fit. `normalized` creates directories, renames and appends at any
moment; retention may wipe the tree; SIGKILL may strike at any step.

### indexd databases

`IndexDb` models what `index_file` makes of a file, for two processes of the same
program: the daemon, and a one-shot command (`--clear`, `--reindex-all`,
`--reindex-new`, `--backfill`, `--no-watch`) that nothing keeps from running
beside it. A file has a name (`raw`, `disk`) and an inode (`files`, `db`):
whoever unlinks the name leaves the inode to those who have it open, and `conn`,
the connection cache, does not look at names again. `BeginFile` is `File::open`
and `open_bucket`, `FlushBatch`, `FlushFails` and `FinishFile` are the loop of
`index_file` with `insert_batch`; `Close` is the `PRAGMA journal_mode=DELETE` of
`evict_idle` and `close_all`, which needs the database to itself and whose
failure is ignored. `Invoke`, `ClearIndex`, `ListRaw`, `ClearBucket`,
`Interrupt` and `Exit` are the branches of `main`; `RemoveRaw` and `RemoveDb` are
retention, `ReaderOpen` and `ReaderClose` `siemctl`. `KillTool` also stands for
`clear_indexes` giving up in the middle, which it does when one of the files it
has listed is gone. `excuse`, `outlived` and `stranded` are history: why lines may
be missing from an hour's index, for which hours a database is older than the
raw file, how a database was left without a connection.

### Pipeline

`Pipeline` composes `normalized`, `ruled` and `correlated` with systemd. A unit
is down, opening stdin, opening stdout, or running; opening one end of a FIFO
waits for the other, and a FIFO nobody has open loses its content (`Closed`).
`Receive`, `WritePipe`, `BrokenPipe`, `Store` are `Processor::handle` under its
lock; `ReadEvents`, `Evaluate`, `DropRepeat`, `Emit`, `Flush`, `Send`,
`SendFails`, `FileAlert`, `RuledEof` are the loop of `ruled` and
`AlertRouter::emit`, with the line that a failed write leaves in the stdout
buffer (`kept`); `ReadAlerts`, `FeedEngine`, `CorrelatedEof` the loop of
`correlated`. The clock is any value at any check, and the subtraction of the
dedup check wraps modulo `Word`. Which rules an event matches is a constant.

### Raw store, retention, tail

`RawStore` is one bucket file under `data/raw/` and the three programs that touch
it without a lock. `OutputRouter::write` is `MakeDir` (`create_dir_all`, which
is several system calls), `Exists`, then either `OpenAppend` or `OpenTmp` and
`Rename`, with a line in two writes (`WriteText`, `WriteNewline`); `OpenFails`
and the error branches give the line up. `siemctl retention` is `Collect`,
`DeleteListed`, file by file, and `Prune`, directory by directory; `siemctl tail`
is `Seed`, `Discover` and `Poll`, which cuts what is past its offset into lines
(`Lines`). As in `IndexDb`, a file has a name and an
inode. `overlapped`, `pruned` and `killed` are history: the writes that met another writer, that saw retention
remove something, whose writer died. A writer killed between its text and its
newline leaves the text, and whoever appends next continues it: `Readable` is a line
of its own, `Glued` one behind such a text. The clock here only goes forward.

### Acknowledgements

`AckLog` is `ack.jsonl` and everybody who writes it: `AckBegin`, `AckOpen`,
`AckWrite` are `ack`, from the reading of the clock to the newline; `Collect`,
`Delete`, `CompactRead`, `CompactRemove`, `CompactTruncate`, `CompactWrite` are
`cmd_retention` and `compact_ack_log`, where `fs::write` truncates before it
writes. `AckKill` ends an `ack` at any of its steps, `Kill` a retention run; `SetBack`
sets the clock back to any earlier second, and `epoch` counts how often. `Marks` and `Hidden` are what a reader makes of the file at that moment,
cut into lines (`LogLines`, on the operators of `Lines`); a line of two texts is no
JSON (`Parses`). `disturbed`, `killed`, `glued` and `swept` are history: which acks met
another command, were killed, continue the text of a killed one, or went with a file
that retention took for old although they were not.

### Conditions, rules and suppressions

`Conditions` holds the grammar that the three languages of the repository share
(`Meaning`, the reference, a table over all stretches of a text) and the
recursive-descent parser that two of them use (`Descent`). `SigmaRules` follows
`rules.rs`: `ParseSigma` splits a text at the first operator outside parentheses and
takes `1 of p` for a pattern only if it ends in a star (`StarEnded`),
`GlobMatch` consumes a name part by part, `LoadRules` reads a directory.
`Suppression` follows `suppress.rs` and the decision in `ruled`'s loop. `Ruled`
builds the texts and compares.

### Search and reports

`HourBuckets` is `time.rs`: the calendar by `advance` and by hour arithmetic, and
the ways a window is compared with the path of a file. `Search` is the query
language with its two interpreters: `SqlHolds`, whose `Like` has wildcards and folds
the letters of `AsciiLower` only, and `JsonHolds`, which compares literally and folds
those of `Lower`; buckets and their pruning, `LIMIT` and `GROUP BY` over one database per hour, `stats` and its trend
table. `Digest` is the report, section by section (`BuildVolume`,
`BuildNetwork`, `BuildAlerts`, `BuildNotable`, `BuildCoverage`). `Reports` fills
a store of events, of which any part is indexed, and the alert files with the ack
records among them, and states what a reader who sees all of it would answer.

### Parsers of normalized

`Texts` are sequences of tokens with the scanning helpers of the parsers;
`Parsers` holds plain text, logfmt, JSON, CEF and LEEF, `Syslog` RFC 3164,
RFC 5424 and the packet filter's log, `Markup` CSV, YAML and XML. `Normalized` is
the chain (`RunChain`), the second pass over wrapped payloads, the envelope,
override rules, extraction, labels and the flat record; `NormalizedConfig` the
line-oriented reader of rules. `Normalize` has the other side: a sender that
writes fields by the rules of each format, in each transport, under each
configuration. A token is a punctuation mark, a blank, or a word nothing looks
into. A regular expression of an extract rule is external: what follows a given
token. These modules use recursive operators and are for TLC only.

## Runs

No run uses a constraint: every bound is in a guard. Deadlock is not checked,
because with their inputs bounded all these systems legitimately come to rest.

| Run | Question | Answer |
|---|---|---|
| `pipeline` | What does the end of one program cost the others; does all come up again; do alerts come out in order and once? | bounded loss, yes, yes; 518,587 states |
| `correlation` | Is each chain and each report what the input calls for, with a clock that may be set back and restarts? | yes, 321,612 states |
| `correlation_refines` | With a monotone clock, does the engine implement exact windows, and how many alerts can a stale chain outlast? | yes, fewer than `EvictPeriod`; 204,692 states |
| `alert_watch` | Which alerts can two unsynchronised watchers miss or repeat; does the sweep reach what inotify never reports? | only those with a named cause; yes; 649,597 states |
| `indexd_watch` | What can make indexd forget a line? | only an overflow, a refused watch or a replaced `data/raw/`; 848,490 states |
| `index_db` | Daemon and one-shot command over the same databases, with readers, retention, failures and kills: what can be missing from the index, what can be left unreadable? | only what has a named cause; 2,978,829 states |
| `store` | Two writers of `data/raw/`, retention and tail over the same file: which lines can be lost, torn, refused or shown wrongly? | only what has a named cause; 5,269,554 states |
| `ack_log` | Which alert is hidden that nobody acknowledged, which acknowledged one comes back, with two analysts, retention, and a kill or a clock that is set back? | only one of the ack's own second or after a set-back; only what has a named cause; 7,570,729 states |
| `ruled` | Does every small condition mean what its grammar says? | yes, with the exceptions the properties name; 242,938 states |
| `reports` | Over every small store, indexed in part: are search, alerts, stats, trend table and digest what a reader of the events would answer? | yes, with the exceptions the properties name; 28,225 states |
| `normalize` | Is what a sender of each format writes read back, in each transport and under each configuration? | yes, 106,372 states |
| `normalize_drops` | Is no line ever dropped? | one is, see below |

What the passing properties say:

- **Pipeline.** `LossIsBounded`: what restarts cost, in events. `CascadeDiesOut`:
  a unit exits at most once for each kill. `RepeatsHaveATwin`: a dropped repeat
  answers to an earlier emission of the same life. `SinksFollowDetection`: both
  sinks in order and without duplicates, files only after the FIFO.
  `UndisturbedDelivery`: full FIFOs delay and never lose. `PipelineRecovers`.
- **Correlation.** `NoSatisfiedChainWaits`, `NoSharedEvidence`: evidence is used
  once. `ReportsWithinWindow`: even when the clock is set back. `ChainIsReplay`,
  `ReportIsReplay`: the loop of the source, replayed over the input, gives the
  same chains and triggers at the same alert. `Isolation`: join values do not
  mix. `StaleChainsAreEvicted`: of the alerts fed since a chain still in the
  map was opened, fewer than `EvictPeriod` came after the end of its window; that is how
  long a dead chain stays, not how many there are. `EvictionIsInvisible`: refinement of the contract.
- **Notifier.** `OffsetCoversHandled`: the offset never passes an alert nobody
  dealt with. `DuplicatesHaveACause`: an alert is notified twice only if it was
  appended between measuring and reading, both watchers were in the file at once,
  or the file was truncated. `EveryAlertIsSettled`: the sweep is a backstop.
- **indexd.** `NoForgottenLine`: watching before scanning leaves no gap.
  `EveryLineIsRead`: across kills and a wipe.
- **indexd databases.** `NothingMissing`: once an hour is quiet, each line of its
  file that parses has its row, unless since the last complete pass over the file
  the database was removed or cleared, a transaction failed, or rows went to an
  unlinked database; so a complete pass repairs everything, and the two processes
  do each other no other harm. `RowsPointAtTheirLine`: `byte_offset` leads to the
  line the row was made from, whoever inserted it and in whichever order, unless
  the raw file is younger than the database. `UnattendedIsRollback`: a database
  nobody has open is in the journal mode that a reader without write permission
  needs, unless it was in use when it was closed or its owner was killed, and the
  daemon's next life makes up for its own death where the raw file still exists.
- **Store.** `StoredLinesStay`: a line whose write was reported a success stays
  readable until retention takes its file; otherwise it takes a second writer at
  the same moment, or a writer killed before it in the middle of a line, whose torn
  text it then continues. `RefusedForAReason`: a write fails only on account of retention
  or a second writer. `RetentionTakesTheOld`: of lines younger than the cutoff,
  retention takes only those written or renamed into place after it listed the
  files. `TailIsFaithful`: no line is shown twice, and each text whole, though perhaps
  behind the torn text of a killed writer, while one path names one file and no two
  writers meet.
- **Acks.** `NewAlertsAreShown`: an alert is hidden only by an ack that came after
  it, in the same second, or before the clock was set back. `AckedStaysHidden`:
  compaction forgets an ack only together with the alerts it hid, but for the hour
  the cutoff falls in, unless two commands ran at one time, retention was killed
  between truncating and writing, the ack before it was killed between text and
  newline, or the clock was set back, so that the ack never covered the alert or the
  whole file seemed old.
- **Rules.** `SigmaMeansWhatItSays`, `SuppressionDropsWhatItSays`: the splitting
  parser and the recursive-descent parser agree with the grammar on every text,
  malformed ones included, and each operand does what the guide says of it. The
  grammar here lets a NOT repeat, and takes a pattern for one if it ends in a star.
- **Search and reports.** `SearchIsExact`: SQL, bucket pruning, grouping and
  `LIMIT` over one database per hour answer like one filter over all events, where a
  value of `startswith`, `endswith` or `contains` is a pattern. `AlertsAnswerLikeSearch`: the two
  interpreters of the query language agree where the records have the fields asked
  for and neither a wildcard nor a letter beyond ASCII is compared.
  `TrendShowsEveryEvent`: each event is in the column of its hour, across ends of
  months and leap years. `DigestAddsUp`: sections of the digest count each event
  of their period once, and each record of the alert files, acks included.
  `IncompleteBucketsAreReal`: a bucket is called incomplete
  exactly when an event of the window is missing from its index.
  `StormsKeepEveryUnit`: collapsing boot storms loses no unit.
- **Parsers.** `FieldsAreReadBack`: every value under its documented name, nothing
  else, by the parser the format is for. `LabelsKeepTheirOrder`: source, host,
  time and severity in the order of `event.rs`, extract rules clobber nothing, and
  only `--since` and `--drop-undated` keep a line out.

### Bounds, and why they are enough

- *Pipeline*: two listener threads; three events of which one matches nothing,
  one matches one rule and one matches two, the first rule's being a repeat;
  FIFOs of one line, so that they fill; one kill of any unit and one file system
  error; a clock of two values with window 1 and word size 8, so that the
  subtraction wraps. The invariants were also checked once with two kills
  (1.95 million states, not kept as a run because of its length).
- *Correlation*: four alerts; an ordered rule whose first two steps (`min_count`
  2, then 1) match the same Sigma rule, so that one alert completes a run, and an
  unordered rule on another field; two join values, one of them also found at
  top level and shadowed by an empty nested value; a window of one second and
  clock 0..2, so that chains expire, are reset and come back to life when the
  clock steps back; `EvictPeriod` 3, so that the eviction falls inside the input.
  `correlation_refines` has one alert more, for two simultaneous chains of a
  rule, and a clock that reaches 3.
- *Notifier*: one file, since files share nothing but the sweep's list; two
  alerts, the least with an order between them; one restart, one truncation.
- *indexd*: two directory levels below `data/raw/`, the least where a directory's
  mtime says nothing about the level below; one file of two lines; a queue of
  three events, which overflows; `WatchLimit` 3 for the four directories, so that
  a watch is refused; one wipe and one kill, in any order.
- *indexd databases*: two hours, since `--reindex-new` and `--backfill` treat the
  boundary hour and a list of hours specially; three lines in the first, of which
  one cannot be parsed, with transactions of two rows, so that the last line comes
  in a second transaction or grows the file between passes; one command and one
  trouble of any kind (a kill, a signal, a failed transaction, a removed file, a
  reader). One raw file stands for an hour, since files of an hour share nothing
  but the database.
- *Store*: two writers, which is where the lock is missing; three lines, of
  lengths 2, 1 and 2, so that an offset into one file falls within a line of
  another; the two innermost directories, since pruning works on one level at a
  time; clock 0..1 with cutoffs now and a tick ago; one retention run, one kill.
  Writers are interchangeable, hence the symmetry.
- *Acks*: one rule and the correlated alerts, which have none; two analysts
  (interchangeable); hours of two seconds, so that a cutoff falls on the boundary
  of an hour and inside one; clock 0..2, two alerts, two acks, one retention run with
  cutoffs now and a second ago, and one trouble: a kill of anybody, or the clock set
  back to any earlier second. Each exception that the two properties name is needed:
  without any one of them TLC finds a counterexample within these bounds. A kill and
  a set-back in one behaviour are left to the proofs.
- *Rules*: any sequence of two tokens, malformed ones included; beyond that only
  texts that may still become sentences, up to seven tokens, the least for
  operators on both sides of a pair of parentheses. Eleven events lie in every
  region of three overlapping selections; addresses have four parts of one bit,
  networks the prefix lengths 0, 1, 3 and 4.
- *Reports*: three events without alerts, or one event with two records in the alert files; seconds 3
  and 4, 7 and 8 (the two sides of an hour, twice), of hours of four seconds; two
  windows as long as an hour, one aligned with an hour (seconds 4 to 8) and one
  that begins and ends inside hours (6 to 10), so that a bucket holds rows on both
  sides of a window's edge; a store of which one event may be unindexed; six kinds
  of events, some without the fields others have, one with a letter beyond ASCII; seven
  queries that use every part of the language, one with a wildcard in a value; alerts of
  `ruled`, of `correlated` and ack records; epochs just before
  the end of a year, of February in a leap year, a common century and a leap
  century, and of a month of 30 days; columns of one and two hours.
- *Normalize*: values of up to two tokens out of nine, each of which some format
  has to escape or quote; two pairs of keys, one with a synonym the flat record
  renames; 29 pairs of format and transport; seven configurations, one for each
  step of the precedence. Values of three tokens were checked once for
  `FieldsAreReadBack` (354,330 states, not kept because of its length).

## Fairness

- `AlertWatch!FairSpec`: the two processes of the script keep running. Nothing
  is assumed of the writers or of inotify. `Age` lets a file leave the lookback
  only after a sweep has listed it: the sweep runs every 60 s and the lookback
  is 15 min. A notify script that hangs breaks this; the script sets no timeout.
- `IndexdWatch!FairSpec`: the daemon's loop keeps running, and the health check
  runs again and again while no event waits. It may run at other times too. The sweep itself
  is not assumed fair: `EveryLineIsRead` does not depend on it. `Age` of a file
  waits for a sweep (300 s against a lookback of 900 s).
- `Pipeline!FairSpec`: systemd starts a unit that is down (`Restart=always`), a
  call of `open` returns once the other end is there, and each of the three
  programs takes a step when it can. Nothing is assumed of the senders, the
  clock or whoever kills units.
- The others have no liveness property. The correlation engine acts only when
  fed. `IndexDb`, `RawStore` and `AckLog` say what holds of whatever has been
  done, and of `IndexDb` whenever nothing is left to be done; a write that is
  refused is not tried again. In the pure computations no time passes.

## Proofs

TLAPS proves, for every value of the constants:

| Module | Theorem | Statement |
|---|---|---|
| `Correlation_proofs` | `TypeCorrect` | `Spec => []TypeOK` |
| | `SatisfiedChainsLeave` | `Spec => []NoSatisfiedChainWaits` |
| | `WindowsRespected` | `Spec => []ReportsWithinWindow` |
| | `EvidenceIsExclusive` | `Spec => []NoSharedEvidence` |
| | `ChainsAreIsolated` | `Spec => Isolation` |
| | `StaleChainsGo` | `Spec => []StaleChainsAreEvicted`, if the clock is monotone |
| | `ChainsAreReplayed` | `Spec => []ChainIsReplay` |
| | `ReportsAreReplayed` | `Spec => []ReportIsReplay` |
| | `ImplementsContract` | the engine refines `CorrelationSpec`, if the clock is monotone |
| `AlertWatch_proofs` | `TypeCorrect` | `Spec => []TypeOK` |
| | `OffsetSafe` | `Spec => []OffsetCoversHandled` |
| | `NotifiedOnce` | `Spec => []DuplicatesHaveACause` |
| `IndexdWatch_proofs` | `NothingForgotten` | `Spec => []NoForgottenLine` |
| `IndexDb_proofs` | `NoLineIsMissing` | `Spec => []NothingMissing` |
| | `RowsLeadToTheirLine` | `Spec => []RowsPointAtTheirLine` |
| | `NoneLeftInWal` | `Spec => []UnattendedIsRollback` |
| `Pipeline_proofs` | `RepeatsAreRepeats` | `Spec => []RepeatsHaveATwin` |
| | `CascadesEnd` | `Spec => []CascadeDiesOut` |
| | `LossHasACause` | `Spec => []LossIsBounded` |
| | `AlertsInOrder` | `Spec => []SinksFollowDetection` |
| `RawStore_proofs` | `RetentionSparesTheYoung` | `Spec => []RetentionTakesTheOld` |
| | `RefusalHasAReason` | `Spec => []RefusedForAReason` |
| | `StoredLinesAreKept` | `Spec => []StoredLinesStay` |
| | `TailShowsEachLineOnce` | `Spec => []TailIsFaithful` |
| `AckLog_proofs` | `NoNewAlertHidden` | `Spec => []NewAlertsAreShown` |
| | `AcknowledgedStaysHidden` | `Spec => []AckedStaysHidden` |
| `HourBuckets_proofs` | `AdvanceIsNext` | `Advance` yields the next hour of the calendar |
| | `CalendarsAgree` | `Advance` is one hour in hours since the epoch |

The assumptions are those declared with the constants: rules have a step, the
values that mark absence are not among those they stand beside, bounds are
natural numbers, `Pipeline`'s word holds the largest time plus the window, its
threads are finitely many, and an event has no rule twice among its detections
(the loop of `ruled` visits each loaded rule once). The directories of
`IndexdWatch` form a tree below `data/`, in which `data/raw/` is the only one
directly there; the hours of `IndexDb` are a finite set.
`ImplementsContract` and `StaleChainsGo` also assume `MonotoneClock`. Without it
the first is false, since an expired chain that the eviction has not dropped comes
back to life when the clock is set back; so is the second, since an eviction spares
the chains that are alive on a clock that was set back.

*Correlation.* The inductive invariant is `TypeOK`, `ChainInv` (a chain in the
map is unsatisfied, was opened within the input so far and after every report of
its rule and join value), `ReportInv` (each report was within its window and
satisfied its rule) and `NoSharedEvidence`. The last is not inductive alone: a
new report is disjoint from the older ones only because its chain was opened
after them, which is `ChainInv`. The refinement needs that pruning commutes with
a step: `Prune(Base, now) = Prune(states, now)`, and a chain that is expired is
replaced by the same fresh chain whether it is still in the map or not.
`StaleChainsAreEvicted` bounds a chain that is still there by counting the input
that came after its window; `StaleInv` adds that these alerts are at most
`feed_count`, the alerts since the last eviction, which removes every such chain.

`ChainIsReplay` compares what `feed_at` leaves in the map with its loop, run over the
input of the chain. `LoopIsAdvance` is the agreement for one alert, by induction over
the matching steps: after some of them the loop has counted those of `Counted` among
them, and its cursor is the one `Run` gives as long as no gap was met. `BuiltBy` is
the agreement for a stretch of input that ends in a chain, and a feed adds one
alert to it; a chain that begins anew begins a stretch. `ReportIsReplay` is the same
stretch, noted at the moment the chain is satisfied and taken out.

*Notifier.* `OffsetCoversHandled` speaks of the offset file only, but the
offset will be overwritten by a call that noted its size long ago. The
inductive invariant says what each step of `process_file` knows (`CallOK`): its
offset and size do not exceed the file, every alert before its offset has been
dealt with (`Covered`), every alert before its size has been dealt with or is
among the lines it still has to handle (`CoveredBut`). `CallKept` shows that
this survives the steps of everybody else, because a file that nobody empties
only grows (`GrowStep`) and an alert dealt with stays so (`SettledStep`). So the
missing lock costs duplicates, never a skipped alert.

When it costs duplicates is `DuplicatesHaveACause`. An alert is announced again
only by a call that reads it again, so `MarkInv` says of an alert already announced
that it is behind everybody (`BehindUs`): each call that has read the offset is past
it, and so is the offset file while nobody has read it. `AloneInv` and `TodoInv`
make that inductive: outside an overlap only one call is in a file, and it handles
each line it read once. `LinesInv` gives every alert one place, so that two
announcements of one alert cannot come from two lines.

*indexd.* `NoForgottenLine` says of each unread line where it is waiting, and most
of its steps only move it on: a queue entry becomes a read, a directory to be
listed becomes directories to be watched. What has to be shown is that nothing
falls between two of these places. `WatchInv`: each directory is watched and known
by name, or the daemon still comes to it from above. `ScanInv`: what is still to be
watched is still to be scanned after that, which is the order of `watch` and
`scan_existing` in the source. From both follows `UnreadInv` for a file created or
appended to at any moment: either the watch is there and an event is queued, or a
scan is due. The directories above one another are `Above`, defined as the least
set closed under `Upward`, which gives the induction along a path without
recursion.

*indexd databases.* `InodeInv`: what is named or open exists and serves one hour,
so a name that changes hands cannot mix two files. `JobInv`: of the lines that a
call of `index_file` has gone past, each has its row in the database it has open, or
there is an excuse. `CoverInv` turns that into `NothingMissing`: an hour without an
excuse is complete or is ahead of the daemon. `RowsInv` is `RowsPointAtTheirLine`
with everybody who is about to insert; `RollbackInv` says of a database in WAL mode
that somebody has it open or why nobody has.

*Pipeline.* `RepeatsHaveATwin` speaks of the emissions of a life of `ruled`, the
program only of its cache. `CacheInv` connects them: every entry of the cache is
the time of an emission of this life for that rule and key. A restart empties
the cache and begins a new life, so the invariant survives both. The age is
`now - last_seen` on `u64`; `UnsignedDifference` shows that a clock that was set
back gives a number beyond any window, so it cannot pass for a recent emission.

`CascadeDiesOut` holds because only a death dooms a neighbour: a unit that runs
although nobody has the other end of its FIFO (`Doomed`) will end by itself, and
`CascadeInv` counts this future end together with those that were. So `normalized`
ends at most once for each kill of `ruled`, `ruled` for each kill of `normalized`,
and `correlated` for each end of `ruled`. `LossIsBounded` rests on it: every end of
`normalized` takes at most one event per thread with it.

`SinksFollowDetection` compares three sequences. `OrderInv` strings everything
together that is on its way: what was sent, the line left in the buffer and the
alert in hand follow what `ruled` produced; what was fed, what `correlated` has read
ahead and what is in the FIFO follow what was sent. Each action moves an element
from one part to the next, or a part is lost, and what remains of a sequence in
order is in order (`BeginningFollows`, `RestFollows`). New elements must be new:
`EventsInv` says that an event is in one place, so that it is evaluated once, and
`RulesInv` that the rules still to be evaluated have produced nothing for it.

*Store.* A file is listed by the mtime it had, and deleted by name, with two
writers at work in between. `TimeInv`: a file is as young as its youngest line.
`ListInv`: whatever file a listed name names by now holds old lines and lines that
came after the listing, where "came" includes the rename of a temp file with
lines in it. Both need that a file not created yet is empty and that nobody has
it open (`UnbornInv`), and that each writer has a line of its own (`WriterInv`).
`RefusedForAReason` speaks of the moment of a failure; `UndisturbedInv` says of every
earlier moment that a write which neither retention nor another writer has met is
the only one under way, and that the directories and the temp file it made are
still there.

`StoredLinesStay` needs to know what is in the files while lines are half written.
`RestInv`: what follows the last newline of a file waits for its own, or its writer
was killed, so that a newline completes one line and not two. `PlaceInv`: such a text
is in the file of its writer only, before the place where the newline will go, also
when that place lies past the end of a temp file which another process has emptied.
`ContinuesInv`: a write nobody has met goes on at the end of the file it is about.
`CreateInv`: whoever puts a new file in place does so while there is no line to be
kept, so that neither the emptied temp file nor the rename can cost one. From there
on a file with a stored line only grows (`HasKept`) until retention takes it. What
is kept this way is the text of a line up to its newline; `ReadOrGlued` says that it
stands alone on its line, or behind the text of a killed writer.

`TailIsFaithful` relates what was printed to what is in a file that still grows.
`TidyInv`: as long as no two writers met, at most one is at work, at the end of its
file, so every newline completes the line of somebody and the text of a line is in
one piece. That a writer starts where the text before it ended is `RestInv` again: a
text without a newline then belongs to somebody who was killed. `FollowInv`: the only
file the path has named has no other name, and nobody will empty it as a temp file.
`PrintedInv` says what the offset is good for: it lies behind a newline, all that
was printed lies before it, each line after the first ends with a text that was
written, and no two share one. A poll keeps this because what it prints lies past
the offset (`PollPrints`), and a write because it adds a text that is not in the
file yet (`PrintedStays`). The first line is excepted: `tail` may start in the
middle of one. `RestCut` says what `CompleteLines` cuts: the pieces between
neighbouring newlines, in order, none left out.

*Acks.* `NewAlertsAreShown` follows from the clock alone (`ClockInv`): as long as
the clock is not set back, an alert that comes after an ack is not older than it, and
`epoch` tells on which side of a set-back the two are. Nothing need be said of the log,
which may hold any of the acks in any order and torn anywhere; that is what makes
a watermark robust where `AckedStaysHidden` has causes to name.

`AckedStaysHidden` says of an acknowledged alert that it is hidden, or which of the
accidents of an unlocked file brought it back. It needs to know what everybody who
is in the middle of something will do to the file. `AckersInv`: an ack that nothing
has met is the only writer under way. `FileInv`: the file ends with a newline, with
the text of a writer that is still there, or with one whose writer was killed (`Torn`),
and whoever continues no such text finds its own text alone on its line. `CoverInv`:
an ack is as young as the alerts it covers, but for those of before a set-back.
`SweepInv`: of the alerts an ack covers, those older than the cutoff are gone or are in
an hour that retention is about to delete, but for the hour of the cutoff, and the rewrite
keeps at least one line. `MemoryInv` puts them together: an ack has its line in the
file and among what a rewrite carries (`Remembered`), or the alerts it hid need it no more
(`Forgotten`), or it went with a file that seemed old (`Swept`). That the last needs a
set-back is its first conjunct: on one side of all set-backs the file is as young as
its youngest line. What is in the file is what a reader cuts out of
it, so the lemmas on the way are about cutting: `PickFacts` and `AscendingFacts`
(what is taken by rank comes in order and complete), `LogLinesFacts` (a line lies
between two neighbouring newlines), `LinesStay` and `LinesFollow` (an append adds
lines and changes none but a torn last one), `WrittenFacts` (what `fs::write` puts
down reads back as the lines it was given).

*Calendar.* `advance` and `to_datetime` count hours in two ways. `CalendarsAgree`
goes through the ends of a day, a month and a year in turn; the last rests on a
lemma on the number of leap days before a year, which is arithmetic with
divisions by 4, 100 and 400.

Only model-checked: liveness (`EveryAlertIsSettled`, `EveryLineIsRead`,
`UndisturbedDelivery`, `PipelineRecovers`), since TLAPS handles neither fairness
nor `ENABLED`; and all of `Ruled`, `Reports` and `Normalize`, which are recursive from
end to end.

## Where the code and its documentation disagree

One disagreement is kept as a run that TLC must find violated; the quotations are
in `PROJECT.json`.

- `normalize_drops`: `try_parse_timestamp` of the RFC 3164 parser slices a text by
  bytes, `&s[..3]` and `&s[..15]`, guarded only by its length. A line of prose
  with a character of several bytes across one of these places makes the parser
  panic; the thread ends and the line is neither stored nor passed on. The guide
  says nothing is ever dropped. In the model the month has one token instead of
  three bytes, the timestamp three instead of fifteen, and a token of
  `MCProseMarks` is wide.

In the following a document or a comment says more than the code does. The models
follow the code, and a passing property names the difference as an exception or states
what the code does instead; without that TLC finds a counterexample.

- `output.rs:4-8` of `normalized` promises "one JSON object per line" and appends that
  are "atomic for small writes" (so does `normalized-usage.md:188`). `writeln!` on a
  `File` is two writes; after a writer was killed between them the next line goes on
  behind the torn text, is reported as stored, and no reader can parse it (`Glued` in
  `StoredLinesStay`).
- `user-guide.md:553-558`: an ack marks "every alert for that rule up to right now" and
  "a *new* alert for the same rule firing later still shows up". Both go by the wall
  clock (`main.rs:1168`): once it is set back, new alerts are below the watermark
  (`Answers` in `NewAlertsAreShown`). And an ack whose predecessor was killed before its
  newline makes a line that is no JSON and has no effect (`glued` in
  `AckedStaysHidden`); an ack of the second in which an alert fires hides it too.
- `user-guide.md:298` and `guide-detection-rules.md:891` give `1 of sel_*` as a glob
  pattern, and a test of `glob_match` (`rules.rs:1150`) has "*_ssh". A condition is
  taken for a pattern only if it ends in a star (`rules.rs:487`); any other matches
  nothing (`StarEnded` in `SigmaMeansWhatItSays`).
- The grammar at the head of `suppress.rs` has `not_expr := [ "NOT" ] primary`;
  `parse_not` calls itself, so `NOT NOT x` is a condition. The same holds of the grammar
  and the parser of `query.rs`. The properties take the grammar in which a NOT repeats
  (`Conditions!Meaning`).
- `user-guide.md:355` gives `startswith`, `endswith` and `contains` a value. `to_sql`
  puts it into the pattern of a `LIKE` unescaped (`query.rs:517-528`): `svc_` also finds
  what begins with `svcx` (`Spells` in `SearchIsExact`).
- The comment of `eval_json` (`query.rs:543-550`) has it "mirror `to_sql`'s SQL
  exactly", with absent fields like `NULL`. It compares literally, folds the case of all
  letters where `LIKE` folds those of ASCII, and the columns of the index are empty, not
  `NULL` (`db.rs:183` of `indexd`), so `!=` holds of an absent field in a search and not
  in a query over alerts (the condition of `AlertsAnswerLikeSearch`).
- The comment of `build_alerts` (`digest.rs:787`) speaks of every alert file of `ruled`.
  `walk_alert_files` takes `data/alerts/ack.jsonl` with them, so acks are counted as
  alerts of their rule (`Records` in `DigestAddsUp`).
- `normalized-usage.md:213-217` ends the precedence of labels with the detected format.
  Only `filterlog`, CSV and plain text give their format as label; any other line has its
  host, which the guide does not name, or "unknown" (`event.rs:168-171` and its tests;
  `SourceInOrder` in `LabelsKeepTheirOrder`).

The following are part of the models, where passing properties name them as
causes or leave them out by a condition, or are kept out of a run's inputs:

- `normalized` writes to the FIFO before it stores, and `process::exit(0)` on a
  broken pipe ends the process with the events of all threads (`LossIsBounded`).
- The window of a correlation is anchored at the alert that opened the chain; it
  does not slide (`CorrelationSpec`).
- `alert-watch.sh` drops a line that `read` gets without its newline, while the
  saved size covers its text; both its watchers may be in one file
  (`OffsetCoversHandled`, `DuplicatesHaveACause`).
- The sweep of `indexd` skips a directory with an old mtime although a file deeper
  down is recent; `data/raw/` may be replaced between the placing of the watches
  and the recording of its identity (`NoForgottenLine`).
- `open_bucket` returns a cached connection to a database that was unlinked; a
  signal stops the scan of `--backfill` but not its loop, which clears the
  remaining buckets and reports success (`NothingMissing`).
- "1 of X … 1 of p*": two of these in one Sigma condition are read as one pattern
  (`rules.rs:487`, `SigmaMeansWhatItSays` leaves them out). An unreadable `.yml`
  ends `load_rules`; list and null items of a selection are skipped.
- A digest window that ends inside a second counts the raw lines of that whole
  second and the rows up to its end (`digest_query.rs:328`), so the bucket may be
  called incomplete; the windows of the runs are whole minutes.
- `bucket_series` drops the first minute where the window begins inside one;
  `search --window` rounds to whole hours; the trend table of one source leaves
  out ungrouped events where typed rows exist.
- Formats that resemble one another: a quoted CSV cell swallows the delimiter
  after it, prose with one comma is CSV and so is XML with one, the `^` of LEEF 2.0 is read as a
  TAB, a message that begins with "[" is taken for structured data, `CEF:` is
  found anywhere, logfmt reads `bare_key key3=` as one key, a leading number with
  a blank is taken for an octet count. `FieldsAreReadBack` writes none of these.
- In a configuration the keys after a `remap` table become renames, `remap` is
  applied before the second pass, and two renames to one name apply in the order
  of a `HashMap`.

Not modelled, but read on the way: `HourBucket::parse` accepts February 31, which
`to_datetime` then refuses with a panic; `collect_raw_files` with `--after` or
`--before` lists only direct children of `data/raw/`, so bounded raw scans find
nothing; comments of the digest say that unparsed events are not indexed, while
`indexd` indexes any line with a timestamp.

## Not modelled, and why

- `siemctl status`, `dryrun`, `validate`, the raw scans (`search --raw`,
  `stats_from_raw`), the digest's layout, `sources` and `normconfig`: they print
  what is there.
- Regular expressions and YAML, TOML and JSON libraries: external; modelled by how
  the code uses them. JSON `\u`, bytes that are not UTF-8, byte order marks.
- `digest.toml` is a constant; merging it, like the command lines and the
  `[listen]` and `[storage]` sections of `normalized`, runs once and keeps no state.
- `cidr_match` inside a query, which is the code of `suppress.rs` again.
- `Pipeline` takes which rule matches which event as a constant: `Ruled` is what
  computes it. A line torn by the death of its writer in the FIFO: a write of up
  to `PIPE_BUF` bytes is atomic, and longer lines are not distinguished.
- The loop of `correlated` that emits several reports of one alert, one of which
  may fail: composed with the FIFOs it is beyond the size of `Pipeline`.
- `RawStore` has no clock that is set back: a file appended to after that has a
  modification time before that of lines it already held, and retention would take
  these with it (`AckLog` has the same case for `ack.jsonl`, in `swept`).
- `RawStore` has no full disk and no power failure: nothing in the code calls
  `fsync`, and what is left is then up to the file system. The `.tsv` sidecar is
  written after the line, by the same steps, and read by no program here; a failure
  there is reported for a line that is stored.
- In `IndexDb`: columns added to an old database, running out of descriptors,
  sidecar files that outlive their database, a graceful end of the daemon (systemd
  sends SIGKILL). Sweep and health check read files again as an event does, and
  are in `IndexdWatch`; together with everything else here they exceed what TLC
  finishes in minutes. In `IndexdWatch`: retention removing single directories.
- Install scripts.

## Plan

What is left, in the order of what matters most.

1. `IndexDb`: the abstract specification (one row for each line of each file, a
   database as a set that a complete pass fills) and the refinement; the sweep,
   with smaller bounds elsewhere.
2. The emission loop of `correlated`, in a module of its own with one FIFO: what a
   write error between two reports of one alert costs.
3. `Pipeline`: dedup against `min_count`; what a reader of `data/alerts/` misses
   while `correlated` is down.
4. `RawStore`: a clock that is set back, with the exception it makes to
   `RetentionTakesTheOld`.
5. Proofs: the refinement of the abstract `IndexDb`, once it is stated.
6. Raw scans of `siemctl` against the index, once their directory listing is
   settled.
