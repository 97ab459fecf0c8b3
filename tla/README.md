# Sanctifier in TLA+

Sanctifier is a static-analysis suite for Soroban smart contracts: a Rust core of
analysers, a command-line tool, a web frontend and a VS Code extension around it, and a
set of contracts that the suite ships. This directory holds TLA+ models of the parts of it
that keep state, the TLC configurations that check them on small instances, and TLAPS
proofs about them. Paths below are relative to `src/`.

## 1. The system

### Parts, their state and their operations

| Part | State | Operations | Hard behaviour | Model |
|---|---|---|---|---|
| `sanctifier analyze` (`tooling/sanctifier-cli/src/commands/analyze.rs`, `webhook.rs`) | the project's files, `.sanctifier_cache.json`, a result per file, the exit code | scan, read, look up, analyse, time out, store, save, notify, exit | a worker pool, time limits, several processes on one cache file, edits during a scan, a kill at any moment | `ScanPipeline` |
| core analysis cache (`tooling/sanctifier-core/src/analysis_cache.rs`) | a bounded map with last-use stamps | `get_or_analyze`, `invalidate`, `clear` | eviction, panics in the computation, hash collisions | `AnalysisCache` implements `RecencyMemo` |
| timelock (`contracts/timelock`) | roles, minimum delay, ready times | `schedule`, `execute`, `cancel`, `set_*`, `update_delay` | several callers, re-scheduling | `Timelock` |
| governance (`contracts/governance`) | proposals, votes | `propose`, `cast_vote`, `queue`, `execute`, `state` | votes by balances that move, a supply that changes, a timelock others use too | `Governance` over `Timelock` |
| multisig (`contracts/multisig`) | signers, threshold, proposals, approvals | `propose`, `approve`, `execute`, self-administration | proposals that change the rules of the others | `Multisig` implements `ApprovalWallet` |
| SEP-41 token (`contracts/my-contract`) | balances, allowances | `mint`, `transfer(_from)`, `approve`, `burn(_from)` | expiry, draws against a replaced allowance, aliasing of two accounts | `Sep41Token` |
| AMM pool (`contracts/amm-pool`) | pair, reserves, LP supply, version | `add_liquidity`, `remove_liquidity`, `swap`, `migrate` | rounding, checked arithmetic at its limit, migration | `AmmPool` |
| analysers and rules (`tooling/sanctifier-core/src/lib.rs`, `rules/*`, `sep41.rs`, `complexity.rs`, ...) | none: a parsed source in, findings out | 17 rules, the scans of `Analyzer`, fixes | the same check written twice, hand-written walkers that skip syntax, fixes applied by offset | `RuleWalkers`, `LocalScopes`, `InterfaceRules`, `Measures` |
| rule registry and YAML rules (`rules/mod.rs`, `custom_yaml_rules.rs`) | the list of rules | `run_all`, `run_by_name`, pattern matching | wildcards, rules that see different syntax | `YamlRules` |
| patcher and `fix` (`patcher.rs`, `commands/fix.rs`) | a source and its patches | select, apply | offsets that move while patches are applied | `Patcher` |
| SMT checks (`smt.rs`) | none | invariants, fixed-point bounds, latencies | what is asked of Z3 is not what the code does | `SmtChecks` |
| WASM bindings (`tooling/sanctifier-wasm`) | none | `analyze`, `analyze_with_config`, `analyze_with_progress` | limits that differ between entry points | `WasmFront` |
| `diff` (`commands/diff.rs`) | a baseline file | run, write the baseline | lines move between runs, files cannot be read or time out, a baseline is half written | `Baseline` |
| `workspace` (`commands/workspace.rs`) | none | classify, scan, total | shared files, lost timeouts | `WorkspaceScan` |
| vulnerability database (`vulndb.rs`) | a list of entries | validate, scan | duplicates, positions of matches | `VulnDatabase` |
| `watch` (`commands/watch.rs`) | a debounced event stream | scan, watch, rescan | edits before, during and between scans, inputs outside the watched path | `WatchMode` |
| oracle, bridge (`contracts/oracle`, `contracts/bridge`) | validators or signers, threshold, a price, executed transfers | `update_price`, `get_price`, `execute_transfer` | lists that repeat an address, a transfer submitted again | `Oracle`, `Bridge` over `SignerCount` |
| proxy (`contracts/proxy`) | admin, nominee, version, hash | `initialize`, `upgrade`, `transfer_admin`, `accept_admin` | a nomination that outlives its admin | `Proxy` |
| flash loan (`contracts/flashloan-token`) | fee, lock, totals | `flashloan` and administration | the receiver's callback, panics | `FlashLoan` |
| runtime guard wrapper (`contracts/runtime-guard-wrapper`) | logs, counters, metrics | `execute_guarded`, `health_check` | the host undoes failed calls | `GuardWrapper` |
| circuit breaker (`my-contract`) | one of three states, balance, data | pause, unpause, shutdown, guarded operations | the order of calls | `CircuitBreaker` |
| frontend route (`frontend/app/api/analyze/route.ts`) | rate-limit map, a child process per request, audit log | POST | exit, error and time limit race; requests interleave | `ScanRoute` |
| VS Code extension (`vscode-extension/src/extension.ts`) | timers, cached workspace answer, diagnostics | open, change, close, reconfigure, analyse | timers that outlive their document, answers that come late, a cached answer that is out of date | `EditorSession` |
| example contracts, report conversions, other commands, scripts | - | - | - | not modelled (section 8) |

### How they interact

The CLI calls the analysers as a function of a text and of what was loaded at the start
(configuration, vulnerability database, imported WASM files). Processes meet only in the
file system: the sources and the cache file. The governor calls the timelock and the token
in its own transaction; other accounts call the timelock and the token directly. The
multisig calls itself through `execute`. A Soroban transaction is atomic and a contract on
the call stack cannot be entered again, so one successful call is one action; a call that
fails changes nothing and is no step. The frontend starts the CLI as a child process; the
extension has an analyser of its own.

### What makes each part correct

* Scan: no report and no cache entry answers a text it was not computed from; a gate that
  ends green has an answer below its threshold for every text read, and a timeout is no clean
  file; a scan under a limit ends.
* LRU cache: the answer is the text's own; what is forgotten is what was used least
  recently.
* Governance: only what a majority carried runs, after the delay.
* Multisig: executed once, by enough different approvers; settled proposals stay settled.
* Token: every token is accounted for; no spender draws more than it was granted.
* AMM: no call takes value from an LP token; a seeded pool stays usable.
* Analysers: what is checked twice gets one answer, up to the differences written out; a fix
  silences its finding and adds no other; scopes are Rust's, up to the cases written out;
  patches are independent.
* Baseline: a finding that is in the baseline is not new, whatever lines moved; a baseline that
  is missing or half written is not an empty one.
* Oracle and bridge: a quorum is of different trusted addresses; a transfer happens once.
* Proxy: only who the present admin nominated can take over. Flash loan: what the books gain
  is what the pool gained. Guard wrapper: the books tell of the calls that succeeded, and only
  of those. Circuit breaker: a shutdown is final.
* Watch: after an edit everything a scan reads is sooner or later scanned. Editor: a document shows the findings of its own
  present text. Route: each request is answered and recorded once, by the first event.

The file `PROJECT.json` lists under `hazards` each place in the code where one of these
could go wrong, and the properties that would notice.

## 2. Modules

| Module | Role |
|---|---|
| `ScanPipeline`, `MCScanPipeline` | the analyze command; its small instances |
| `RecencyMemo` | abstract: a memo that forgets the least recently used key; no clock, only the order of last use |
| `AnalysisCache`, `MCAnalysisCache` | the LRU with its clock, which implements it |
| `Timelock` | the timelock's actions, extended by `Governance` |
| `Governance`, `MCGovernance` | governor, timelock and token composed |
| `ApprovalWallet` | abstract: what an M-of-N wallet promises |
| `Multisig`, `MCMultisig` | the contract, which implements it |
| `Sep41Token`, `MCSep41Token` | the token |
| `AmmPool` | the pool |
| `RuleWalkers` | a parsed contract, reduced to what the rules tell apart, and the rules over it |
| `AnalyserPromises` | what the analysers and the patcher promise of any input; the state is one input, `subject`, and the part it is for |
| `LocalScopes`, `InterfaceRules`, `YamlRules`, `Measures` | the analysers, as operators |
| `Patcher`, `SmtChecks`, `WorkspaceScan`, `VulnDatabase`, `WasmFront` | the algorithms around them |
| `Baseline` | the diff command over a source that changes |
| `MCAnalysis` | all of these, one part per behaviour |
| `SignerCount`, `Oracle`, `Bridge`, `Proxy`, `FlashLoan`, `GuardWrapper`, `CircuitBreaker` | the smaller contracts |
| `WatchMode`, `EditorSession`, `ScanRoute` | the clients of the analyser that run for long |
| `MCSideBySide` | these contracts and clients, one per behaviour |
| `FoldLemmas` | lemmas about the community modules' folds: sums, counts, loops over a list, sequences cut and joined |
| `CoreProofs` | theorems about `sanctifier-core`: its cache and its analysers |
| `CommandProofs` | theorems about the commands that use it: the scan, the patches of `fix`, the numbers they print |
| `ComponentProofs` | theorems about oracle, bridge, proxy, circuit breaker, flash loan, guard wrapper, editor, route and diff |
| `GovernanceProofs`, `MultisigProofs`, `Sep41TokenProofs`, `AmmPoolProofs` | theorems about the module of that name |

### ScanPipeline

One process is one run of the command. Per file it goes through `queued`, `hashed`,
`analysing`, `storing`, `finished`: the points at which the closure of `par_iter`
(analyze.rs:201-249) touches something others can see. `Start` is `run_analysis` up to
that loop; `ReadFile`, `CacheHit`, `CacheMiss`, `AnalysisReturns`, `AnalysisTimesOut`,
`AnalysisPanics` and `StoreResult` are the loop's body; `SkipSave`, `SaveOpen` and
`SaveWrite` are `AnalysisCache::save`, split where `fs::write` has truncated the file and
has not written it; `Notify` is one webhook; `Exit` is the gate. `Kill` and `Edit` are the
environment. At most `Workers` files are between read and store.

A finding is a kind, and a kind is the set of severities the closure `consider`
(analyze.rs:369-392) sees for it. What the analysers find is the parameter `Analyse`;
`Settings` stands for everything else an analysis reads. `recv_timeout` may give up at any
moment of a limited analysis, because how long an analysis takes is not bounded from
below; a panic in a limited analysis reaches the worker as the same lost channel. SHA-256
is assumed to have no collision (`Sha256Assumption`). Cached file names are compared as the
model's files; the `version` of the cache is folded into `torn` (a file that `load`
ignores).

### Timelock and Governance

An operation is the hash of its target, function, arguments and salt; the governor's salt
is the description's hash, so `Operations = Calls \X Descriptions`. `Schedule` and
`Execute` take a set: the governor calls them once per call of a proposal within one
transaction. `state` is translated in the order of its tests; past the vote it reads the
token's supply and fails when that is 0 (`readable`). Grants of roles by the admin are the
set `Grants`. History variables: `cast` (the weight of each vote), `due` (when a queued
proposal's calls become ready), `direct` (what others scheduled themselves), `ran`.

### Multisig and ApprovalWallet

The proposals' calls are fixed per hash (`call`), as a hash fixes them in the code.
`Effect` is the native routing of `execute`: it runs in the same transaction, and when it
fails the execution is undone, so it is a conjunct of `Execute`. `signers` is a sequence
because `init` accepts repetitions and `remove_signer` removes one occurrence. Refinement:
`eligible <- Range(signers)`, `needs <- threshold`, `status` from the three flags, `backers`
from `approval`.

### AnalysisCache and RecencyMemo

`clock` and `last_used` are kept; the answer to the last question is a history variable.
The value cached for a text is the text itself: what an answer must be told apart by.
`maybe_evict` removes one of the entries with the least stamp, any of them, as the iteration
order of a HashMap is arbitrary; `EvictionDetermined` shows there is only one. The memo has no
clock: `before` is the set of pairs of keys of which the first was used before the second, a key
that is used goes to the end of the order, and the key forgotten is the first of it. Refinement:
`before <- usedBefore`, the pairs of cached keys ordered by their stamps, and `memory` the keys
and values cached. A text whose hash is another's is answered with the other's value in both,
since the code promises no more. `ComputePanics` is a `compute` that unwinds.

### Sep41Token

i128 is scaled to `0..MaxAmount`; the amounts given may be negative. An entry that is absent is
amount -1, which, like it, covers no draw. `moved` writes the sender first and then the
recipient, both from values read before: with one account in both roles the second write
wins, as in the code. `excess` records what that adds.

### AmmPool

u128::MAX is scaled to `Max`: every checked operation is a comparison with it. A call that
returns 0 or `(0, 0)` without writing is no step; a swap that is refused inside
`execute_swap` does write, and is a step. `integer_sqrt` is the code's Newton iteration,
with its rounding.

### The analysers

A contract is a sequence of functions, a function a sequence of statements, and a statement
one event (a storage write, an authorisation, a panic, an external call, ...) with the set of
kinds of syntax around it. This is what the analysers differ in: a hand-written walker sees a
statement only when it descends into everything around it, so each walker is the set of kinds
it descends into (`ExprWalker`, `ReentrancyWalker`, `ScanResultWalker`, `RuleResultWalker`), and
a `syn` visitor, which descends into everything but the tokens of a macro, is another. Each
rule and each scan is then an operator from a contract to the positions it reports. Fixes are
operators from contracts to contracts, so that the result can be scanned again.
The panic scan is one of those that exist twice, and both copies are written out
(`CheckFnPanics`, `AnalyzerFnPanics`).

`LocalScopes` takes a function as what its visitors meet, in order: blocks; what closures, loops
and arms enclose; lets of a plain name, before their initialisers; names bound by other patterns,
which only the shadowing rule declares; and names that neither rule notices (a let with a type, an
`if let`). A token `bound` marks from where a name has its meaning, after the initialiser; the
visitors pass it over and the reference (`Refers`) reads nothing else. The unused-variable visitor
has only blocks for scopes, so a read in a closure or an arm may be credited to a local outside.
`Measures` takes a body as its tokens in the order a visitor meets them, and a type as its heads
in the order in which they close, arguments before the head that takes them: the recursions of
the code are folds over a stack. `usize` wraps at `Usize`.
`InterfaceRules` reads a contract for its interface: methods, publish lines, storage keys, a
manifest, bytes of input, entry points. A publish line is what `extract_topics` and
`extract_event_name` tell lines apart by: one without a comma has no name and stands for itself.
In `SmtChecks` the solver may give up on the non-linear query, and `prove_fixed_point` then
answers `unknown`. `ValidateDb` starts with what the database says of itself.

### Baseline

`source` is the findings an analysis would give; the developer writes, repairs and moves code;
a run reads all files but those that cannot be read or analysed in time, compares fingerprints
and tells what is new. The fingerprints are translated kind by kind, so that what they keep
(the line of an event, the snippet of a match) is in the model. A run may fail: no Soroban
project, a database that does not load (`DiffRefused`), a write of the baseline that stops half
way (`BaselineNotWritten`), a baseline that does not read or parse (in `Diff`); `failed` tells
these from a gate that closed, which ends with the same code 1.

### The smaller contracts

A quorum is counted by `SignerCount` as the loop of the code does: over a list in which the
caller may repeat an address, against a list in which `init` may. `FlashLoan` splits the call
at `invoke_contract`: `Borrow` pushes a frame, the receiver may then make any other call, and
`Settle` or `Undo` pops it; `Undo` restores what the host had stored before the call. The host
forbids re-entry altogether; here only the code's own lock does. `GuardWrapper`'s
`ExecuteGuarded` is the whole of `execute_guarded` as a function of the books, and `Invoke` keeps
its result only if it is Ok. A refused call of `CircuitBreaker` changes nothing and is no step.

### WatchMode, EditorSession, ScanRoute

An action is what runs between two points at which others can run: the reads of a scan and the
debouncer's thread in `WatchMode`; the callbacks and awaits of one JavaScript thread in the other
two. The files of `WatchMode` are the inputs of a scan: a source, the path's `.sanctify.toml`,
one of a directory above, which `load_config` reads only when the path's is missing or does not
parse, and the `--vuln-db` file. The watcher is on the path alone, and the database is no relevant
file. A timer of the editor is a job with a stage; `kept` is the text of a document object that
has been closed; `saw` is what the Cargo.toml files were while its workspace search ran, any of
which may be the verdict. The verdict fills `wsCache`, which only a reconfiguration clears. In `ScanRoute` a request is at one of the awaits of `POST`; its CLI emits
`close`, also after `error`, and the time limit may come at any moment before its timer is
cleared. `clock` is in parts of the rate limit's window.

## 3. Runs

| Run | Question | Instance |
|---|---|---|
| `scan_pool` | does a limited scan end, does a green gate speak for every text, is `--no-cache` independent? | 1 process, 2 files, 1 worker, a text that hangs, 3 command lines |
| `scan_cache` | can the shared cache file make anyone answer from the wrong text? | 2 processes with different settings, 1 file, 2 texts, one of which panics |
| `scan_gate` | `--exit-code` as documented (violated) | 1 process, 1 file |
| `scan_rules` | custom rules as documented (violated) | 1 process, 1 file, 2 settings |
| `governance` | is only what was carried run, and only after the delay? | 2 voters, a keeper with roles, 2 proposals of the same 2 calls, delays 0 and 1, times 0 to 2 |
| `multisig` | does the wallet keep its promise? | 2 addresses, 5 proposals (pay, admit, drop, vary the threshold, stop) |
| `cache` | does the LRU implement the memo? | 3 keys, room for 2, 3 texts of 2 hashes, 8 ticks |
| `token` | are all tokens accounted for, and draws within grants? | 2 accounts, 1 spender, amounts -1, 1, 2, 2 expiries, 3 ledgers |
| `amm` | is any LP token diluted, any pool emptied? | amounts 0, 1, 2, 3, 5, 7, maximum 30, minimum liquidity 2 |
| `amm_migrate` | can a migration be replayed? (violated) | as above |
| `analysis` | do the analysers agree with their twins and their reference definitions? | 1 or 2 functions, 3 statements, every kind of syntax around one and pairs with three of them; functions of 6 tokens for the scopes; lists of 3 |
| `side_by_side` | does each of the small contracts and long-running clients keep its promise? | 3 addresses, lists of 2, 2 documents, 4 requests, 3 edits of watched files, 1 of a manifest |

### The bounds and why they are enough

* `scan_pool`: one worker and two files make the pool's queue matter: the file behind the
  hanging one waits for its worker. A third file would wait in the same way. `Urls = 1`
  reaches the loop and its end. A process may ask for `--min-severity low`, below which nothing
  weighs, or `high`, below which the findings of the second settings partly do.
* `scan_cache`: a torn file needs two writers; a wrong entry needs two texts and one file.
  Cache entries of different files never meet in any action.
* `governance`: two proposals are what a twin needs; two calls per proposal make a partial
  failure possible; two voters with one token make every majority question a tie-break and
  let the token move between two votes. `MaxTime = 2` with delays of at most 1 leaves a
  moment after every ready time. Voters are symmetric (`MCSymmetry`): no property names one.
* `multisig`: one proposal of every kind and the signer that is removed may be added again;
  the list with a repetition has more entries than different signers.
* `cache`: room for two of three keys evicts on every third key; 8 ticks allow every key to
  be used twice and more. The clock is a u64 that is incremented once per question;
  `MaxClock` cuts it off.
* `token`: `MaxAmount = 3` is passed by two mints of 2; `MaxLedger = 2` lies after both expiries;
  `MaxExcess` bounds how much a self-transfer may add.
* `amm`: the product of two of the amounts reaches beyond 30, so that every overflow branch
  is taken; `MaxVersion` bounds migrations.

* `analysis`: a body of one statement is tried with every event under every kind of syntax and
  under pairs; a body of three, over the events that matter in order (an authorisation, a write,
  a call, a lock), is what a guard, a call and a write after it need. Two functions suffice for
  what is keyed by name. `TokenBound = 6` holds two lets of one name with a read after each, or
  a let, a block and a let of the name whose initialiser reads it. Patches: all pairs of ranges of
  a text of three lines. The diff command: two files, two lines, two findings of every group of
  fingerprints, and every failure.
* `side_by_side`: a list of two may repeat an address or not; two loans may nest; 5 calls pass
  both scaled caps (100 and 1000 in the code, 3 and 4 here, with `HealthyLimit` below both as 64
  is); an edit during a rescan, one more while it is queued, and one of an input that is not
  watched; a timer of each document and one that has been replaced; one edit of a manifest
  (`MaxManifests`), which may fall before, during or after a search; four requests pass the
  limit twice over and the ring buffer once.
  The nine systems share no variable: `system` picks one per behaviour and state spaces add up.

`CHECK_DEADLOCK FALSE` is set where the bounds let the system stop (the last ledger has
closed, the clock has run out, all proposals are settled). In the scan runs the developer can
always edit, in the token runs an approval can always be given; deadlock is checked there.

### What the violated runs show

* `scan_gate`: `SeverityLevel` derives its order from the declaration, `Critical` first and
  least; `max` then picks the least severe finding and the comparison with
  `--min-severity` is reversed. A critical finding under `--min-severity high` exits with 0.
* `scan_rules`: the cache is keyed by path and text alone.
* `amm_migrate`: the seeding deposit stores version 1 over whatever `migrate` had stored.

Eight more findings need no run of their own: a transfer to oneself creates tokens
(`excess` in `Sep41Token`); a local that is read is reported unused when an earlier let of its
name in the block took the read, or an inner let of the name is initialised from it
(`LocalScopes`); settings inherited from a directory above are not watched (`WatchMode`); the
verdict about the workspace outlives an edit of a Cargo.toml (`EditorSession`); event and custom-rule fingerprints keep their line (`Baseline`);
failures of a guard are undone with the call that records them (`GuardWrapper`); what Z3 is asked
about an invariant does not depend on the function (`SmtChecks`); progress analysis skips the
memory budget (`WasmFront`). The properties state what the code does there, as an exception.

### What properties except

A property that holds only with an exception says so in its comment. The larger ones:
`DocumentsShowTheirText` leaves out a document that was closed with a timer pending, which
`onDidCloseTextDocument` does not clear, and one that was reconfigured during its workspace
search, and accepts any verdict about the workspace that was true since the cache was cleared, or
since a search began that was under way then;
`WatchedEditsScanned` is of the edits the watcher answers, and of every other input as it was at
one of them: an edit of the first scan's time, of the database or of inherited settings waits for
the next of those; `ScopesMatchLanguage` says of each local by itself when a read is credited to
another;
`FeesAreTheGains` leaves out a contract that lent before it was initialised; `TwinsAgree`
writes out where walkers differ. Without the exception TLC finds a counterexample to each.

## 4. Fairness

There are two liveness properties. `WatchedEditsScanned` assumes
`WF_watchVars(WatchWork)`: the process and the debouncer's thread keep running; nobody has to
edit. One fairness condition for all of their steps is enough because each uses up something
finite: files to read, batches, paths held back. `LimitedScanEnds` assumes `WF_vars(Advance(p))`: a process
that can take a step by itself takes one, which is what the operating system's scheduler
gives a live process and rayon gives its workers. It is enough because every step of a
limited scan uses up a part of a finite amount of work, and because `AnalysisTimesOut` is
enabled as long as a limited analysis runs: that is `recv_timeout`. Nothing is assumed of
the analysis itself, of the developer, or of kills. An unlimited scan of a hanging text does
not end and no property says it does.

## 5. Proofs

`tlapm` checks every theorem of the `*Proofs` modules. They hold for all values of the
constants under the named assumptions of the module they are about: any number of processes,
files, accounts, proposals, keys; any width of the integers.

* `CommandProofs`, first of the scan. The inductive invariant adds to `TypeOK` and `CacheSound` what ties
  a file's step to its text and its result: a file that is being hashed, analysed or stored
  holds a text that was read; what waits to be stored, or has been collected, answers that
  text. `CacheSound` alone is not inductive, because a store files a result under a digest
  taken two steps earlier. `NoCacheIsFresh` needs in addition that such a process has no
  entries. `GreenGateIsClear` keeps that what a green exit considered is below its threshold
  (`GateSound`; the code compares a maximum with the threshold, and a rank is a number, whence the
  same for each, `GateCompares`), and reads it with the two properties before it as one about texts
  (`GateOnTexts`): what the report holds for a file is what some settings find in the text its
  worker read. Which severity ranks above which is not used. Then of one input at a time:
  - Patches: `apply_patches` goes from the last patch to the first, by start. What stands before
    the first place it has changed is still the source's, so the offsets taken of the source are
    right for every patch to come; the text is always a prefix of the source followed by a suffix
    of the result that replaces all at once (`PatchesIndependentAnywhere`). The patches applied
    are those accepted, by induction along the answers. The property asks of the
    patches that they are in bounds, that each ends no earlier than it starts (`Valid`), and that
    no two overlap or start together.
  - Measures: a body's tokens are folded over a stack with one estimate for each open loop. The
    sum of that stack, a level weighted by a power of ten, grows with each token by the token's
    own estimate at the weight of its level, and by nothing when a loop is entered or left
    (`LevelsWeigh`); at the end one level is left. Nesting is the number of openers less that of
    closers (`NestingIs`). A type's heads are folded over a stack of sizes; what stands below a
    head's arguments is untouched (`SizeStepAbove`), so that a type within another leaves the
    size it has alone. The matches of a literal are a recursion down from the end of the text;
    each place that holds the literal overlaps a match that starts no later, and since the literal
    has no line break both are on one line (`FindsCover`, `LineWithin`). What is assumed is that a
    body nests and that a type has as many arguments before a head as it takes.
* `GovernanceProofs`. To the four properties the invariant adds `ScheduledWait`: what waits
  in the timelock for the governor is not ready before the proposal that carries it is due.
  Without it an operation already scheduled could be executed early in a state the other
  conjuncts allow. For the tallies it adds `VotesOnMade`: nobody has voted on a proposal that
  was never made, so that `propose`, which stores tallies of 0, starts from an empty sum. A vote
  then adds one account's weight to one sum (`SumRemoves`), because `cast_vote` refuses an account
  that has voted.
* `MultisigProofs`. `CountIsApprovers` is by the cardinality of a set with one element more.
  `WalletKeepsPromise` is the refinement, one lemma per action; a removal of one of several
  occurrences maps to a stutter on `eligible`.
* `CoreProofs`, first of the cache. Stamps are pairwise different and at most the clock, so the least
  one is one entry's. `KeepsRecency` is the refinement of `RecencyMemo`, step by step: a hit, or a
  store with room, moves the key to the end of `usedBefore` since its new stamp is above every
  other; a store without room forgets the entry with the least stamp, which is the first of the
  order; a panic of `compute` is a stutter. Then of the analysers, whose properties are of one
  subject: the theorems are about every contract, function or list, and not about reachable
  states.
  - Fixes: `FixesSettle` is of one contract, so the theorem is about every contract, with any
    functions and bodies, and not about reachable states. The reentrancy walker, a fold over a
    body, finds the calls that stand after a mutation it has seen and no lock (`ScanFinds`, by
    induction along the body). The guard of the fix moves each statement to a place of its own
    and adds a panic and two locks (`GuardMoves`); hence what any walker sees of any events but
    these is as many as before, the one call the guard is for comes after a lock, and one more
    panic is seen.
  - Twins: of two walkers of one question the one that descends into more sees at least as much,
    statement by statement. A pattern with one star matches by a prefix and a suffix that do not
    overlap; a pattern with none matches what it matches between two stars. A workspace's total is
    a sum over contracts of sums over files; the sums are exchanged (`FoldLemmas`), and a file
    that several contracts share is counted once for each scan of it.
  - Scopes: after each token a visitor's stack holds, frame by frame, the declarations of the
    scopes that are open, in order; an invariant of the fold over the function as its blocks, and
    over it with every scope as a block (`Blocks`, `Scopes`). Hence the local a read is credited to
    is the first of the innermost block that declares the name, and a shadowed one the latest of
    the nearest scope. Where that is not the binding the read refers to, the property names the let
    that stands between. What is assumed is that scopes close only when open and that a let stands
    directly in a block (`LetsInBlocks`).
  - Interfaces: each judgement folds a list; what the fold holds after a position is a definition
    of the part before it (the ids, names and signatures met, the topics a name was published
    with, the version found), by induction along the list. Lines without a name are told apart by
    their number, so none is compared with another. For the solver's bounds of
    `mul_div` the worst operands are a corner: the largest factors and the least divisor; it
    exceeds the bound if any operands do.
* `Sep41TokenProofs`. An allowance is what was granted less what was drawn since, and was
  last drawn no later than it expires. `SupplyHolds` is inductive together with the types, by
  what a change of one or of two balances does to a sum (`TotalChanges`); a transfer to oneself
  adds exactly what `excess` records.
* `AmmPoolProofs`. The arithmetic first: a rounded-down quotient times its divisor is at
  most the dividend; hence a withdrawal takes less than the reserve, a deposit mints at most
  each side's share, and a swap does not lower the product. `PoolAlive` is needed for
  `NoDilution`: a pool that could be seeded twice would be diluted.
* `ComponentProofs`, one part per system:
  - Flash loan: outside of loans the books balance, and a loan that waits would restore books
    that balance, so that it makes no difference whether it is repaid or undone; the lock,
    which only `initialize` could clear, keeps a second loan out. That is where `early` is
    needed.
  - Guard wrapper: a log that drops its oldest entry is the end of the log that drops none
    (`LatestAppended`), and before `init` there is no call to forget. Both caps are assumed not
    below the limit of the health check; with a lower one a full log would report healthy.
  - Oracle and bridge: the loop over a list with repetitions counts the different trusted
    addresses in it (`CountIsOfDifferent`), by induction along the list; a quorum is then a
    property of a set, and no transfer is executed twice.
  - Proxy and circuit breaker: inductive as they stand, or nearly.
  - Editor: `UncrossedIsCurrent` says of a document that was neither closed nor reconfigured
    with a job under way that its pending jobs are of the open object, that a workspace search
    is pending only while one is asked for, and that with nothing pending it shows what its
    text wants under some verdict a search may have brought (`SearchesFound` ties the cache and
    the searches under way to those verdicts). A job reads the text when its timer fires and not when it was set, which is why a
    timer that is replaced loses nothing.
  - Route: `LogIsOfDone` ties an entry of the audit log to the one response of its request,
    `PromiseOfCli` a response to the event that settled the promise, so that the later of
    exit, error and time limit finds it settled. `RateIInv` ties an entry of the rate-limit map
    to the admissions in its window; the window before it had at most the limit as well, whence
    at most twice the limit in any window's length.
  - Diff: what a run tells is `CollectNewFindings` of its report and the baseline's
    fingerprints; fingerprints that are equal are of one kind and function, and of one file
    unless the kind is keyed by name. A run that fails tells nothing and reports nothing, and one
    that reports had a baseline that parses.
* `FoldLemmas`. The community modules' folds are recursive functions on the subsets of a finite
  set. The lemmas unfold them once, and an induction over finite sets is stated for a set of
  sets in place of a predicate, so that no operator is a parameter: a sum does not depend on
  the order, splits off one element, and grows with its terms.

Constants have the assumptions the proofs use, as named `ASSUME`s of the module that declares
them. That accounts and token holders are finitely many is one of them: an address is 32 bytes.

The hypotheses of the theorems about one subject (`ScopesTyped`, `InterfaceTyped`, `TwinsTyped`,
`MeasuresTyped` and the like) say what a subject is made of and bound neither its length nor its
depth; every subject of the `analysis` run meets them.

Only model-checked: `LimitedScanEnds` and `WatchedEditsScanned`, which are liveness, out of the
provers' reach; and the properties of the violated runs, which do not hold. Every other property of a
run is a theorem.

## 6. Assumptions

SHA-256 does not collide in `ScanPipeline`, and neither do the contracts' operation hashes.
A Soroban call is atomic; except in `FlashLoan`, whose
receiver may call back, it is not re-entrant. `Ledger` time does not run backwards. Contract
calls are authorized as `require_auth` asks; who may sign for the contracts' own addresses is
not modelled. `fs::write` truncates before it writes, and the write of one process may leave a
tail of another's that opened the file as well. Storage is never archived.

## 7. Plan

Done: the scan, governance, multisig, LRU, token, AMM, the smaller contracts, editor, route, diff,
the analysers and the algorithms around them, with their proofs; watch mode, model-checked.

Next, in this order:

1. for the scan, an invariant from which it follows that no state of a limited scan is stuck
   before its end;
2. an abstract once-only ledger that the bridge implements;
3. the streaming GET of the route, and the update command's comparison of versions.

## 8. Not modelled

* Parsing: the models start from a syntax tree, a text of a few characters, or a manifest's
  parts. Messages, locations and the layout of reports are left out, and the conversions to
  other report formats (`report`, `export`, `badge`) with them.
* The rule `unsafe_prng`, the v21 host function tables, finding codes: lookups in constant
  tables.
* `tooling/sanctifier-core/src/reentrancy.rs`: a copy of the reentrancy scan that no module
  declaration includes; it is not compiled.
* In the analyze command: the early return when the path is no Soroban project, a
  vulnerability database that cannot be loaded (the command fails before anything is read), a
  path that is a single file (the cache then cannot be saved next to it), text and JSON
  output. In watch mode: watcher errors, which are printed, and a scan that fails.
* `init` of governance, multisig and token is the initial state; a second `init` is refused and
  is no step. The AMM's `get_price` and the other views change nothing.
* The reentrancy guard contract: a flag around one call, as in `FlashLoan`.
* The streaming GET of the analyze route: its `close` handler runs after `error` too and then
  writes to a stream it has closed; one handler, no state to speak of.
* The regular expressions of the editor's own analyser and its workspace command.
* The example contracts, which exist to be analysed; vesting is a stub.
* Deploy, verify, doctor, init, update and the other one-shot commands, the frontend's pages, and
  the scripts: straight-line I/O or display.
