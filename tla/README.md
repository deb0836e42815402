# A verification development for Onomancy

Onomancy binds DNS hostnames to local-first documents. A *certificate* joins both
directions of a binding: the zone names a document in a TXT record (proved by a
DNSSEC chain), and the document's authority signs the hostname. Certificates travel
with the documents; a device pools whatever evidence reaches it and *derives*, at a
clock reading and under its user's decisions, what each hostname is bound to. There
is no server that decides, so everything rests on the derivation: a pure function
whose inputs arrive in any order, partly, twice, late, or never.

This directory models that program in TLA+: modules translated from the Rust source,
TLC configurations that check them on small instances, and TLAPS proofs for every value
of the constants. `PROJECT.json` maps each definition to the lines it translates, and
lists runs, mutants, hazards, findings and theorems.

    tlc -workers 2 -config MCSuccession.cfg MCSuccession      # a run
    tlapm VerifierProofs.tla                                  # the proofs of a module

## 1. Inventory

| Component (source) | State | Operations | Correct when |
|---|---|---|---|
| Comparison ladder (`onomancy_protocol/src/ladder.rs`, `onomancy_dnssec/src/zone_state_key.rs`, `freshness.rs`) | none | `compare`, `grade` | the verdict does not depend on which side a record stands, freshness outranks everything |
| Evidence store (`verifier/state/store.rs`) | item list and set of seen hashes | `insert`, `union`, `FromIterator` | a set: no order, no duplicate, no loss |
| Derivation (`verifier/state.rs`, stages 1 to 8) | none, a function of store, clock, decisions, pins | `derive`, `VerifierState::compute` | order-independent; both directions attested; retired generations never accepted silently; acceptances protected; resets leave no trace; hostnames isolated |
| Surfacing (`verifier/state/diff.rs`) | none | `host_diff`, `may_prompt` | every change is an event, only events prompt |
| Pruning (`verifier/state/prune.rs`) | rewrites the store | `prune` | unobservable |
| Decision document, petnames, namestore, certificate list (`onomancy_automerge`) | replicated documents edited by several devices and by other applications | entries appended, `pin`, `unpin`, `rename`, `put`, `read` | merges are unions; what one writes the others read; an edit loses nothing else |
| Stateful pass, watch, store directory (`onomancer/src/resolve.rs`, `watch.rs`, `store_dir.rs`) | unit files shared by processes | load, offer, fetch, persist, diff, loop | held evidence is never skipped or forgotten; no failed pass ends the watch |
| Path resolution (`onomancy_protocol/src/resolve.rs`, `onomancy_core/src/name.rs`) | a walk over namestores others edit | `resolve`, reference lookup | bounded; another document only extends a walk |
| One-shot verdict (`verifier/verdict.rs`) | none | verify one certificate | agrees with a derivation over that certificate |
| Chain building, its courier, and DNSSEC validation (`onomancy_chain`, `onomancy_dnssec/src/validator.rs`) | the builder's phase and links, the upstream asked | question out, answer in, failover; the validator's walk | fetches end; what is published arrives; nothing else validates |
| Unit codec, TXT records, links (`onomancy_core/src/{wire,signed,delegation_chain}.rs`, `onomancy_dnssec/src/{certificate,txt,wire}`) | none | encode, decode strictly, re-attach a tail; parse and mint; canonicalize and verify | one spelling; what verifies was signed; damage never changes what was signed |
| Publishing ceremonies (`onomancy_publish`, `onomancer`) | zone, certificates, statements | bind, refresh, rotate, migrate, record, `Serial::next` | serials rise; a completed plan binds; every prefix of a ceremony is safe |
| Keyhive authority (`onomancy_keyhive/src/authority.rs`) | events replayed | replay to a fixpoint | stops; independent of event order |
| Sockets, hashes and curves, WebAssembly conversions, command-line front ends | none of their own | | out of scope, see section 8 |

**Interaction.** Ceremonies publish zone records and signed units. Couriers carry a chain
built from DNS answers. Units reach a device by command line, gossip, or a directory, and
go into the store. `VerifierState::compute` reads store, clock, decisions and pins together and
calls two seams: the chain validator and the authority verifier. Callers keep the previous
derived state, or recompute it, and print the diff. Accepted documents are the roots
from which paths resolve.

**What is hard.** Nothing in the derivation runs concurrently; the difficulty is that
its input is an arbitrary sequence of arrivals, edits, resets, prunes and clock ticks, and
eight stages interact on it. Arrival order must not be observable; a sequence of
individually harmless records must not displace or blank what a user accepted; what a
reset removes must be gone through all stages. Real interleaving occurs in the store
directory, which `resolve` and `watch` share without a lock and where a crash can leave a torn
file. The full list, with lines, is `hazards` in `PROJECT.json`.

## 2. Modules

| Module | What it models | Correspondence |
|---|---|---|
| `Ladder` | keys, freshness, the three rungs | `Compare` = `ladder::compare`; `KeyLess` = derived `Ord` of `ZoneStateKey`; `Grade` = `ValidityWindow::grade` |
| `Lineage` | stage 3, one document's graph of rotation statements | `FindCycle`, `ForkPoints`, `Settled`, `Implicated`, `Protected`, collected in `LineageView`; the greedy cycle walk is kept |
| `Evidence` | stage 1 over a *set* of items: validated rows, pooled statements with provenance | `Rows`, `Statements`, `Excluded`, `Deferred` |
| `Succession` | stage 5's proof graph | `ChainFrom`, `ProofPairs`, `SuccessionForks` |
| `Derivation` | stages 2 to 8 | one operator per rule: `Considered`, `Survivors`, `BestOf`, `Receipts`, `Resolve`, `Conclude`; `Derive` is `derive` for one hostname |
| `Surfacing` | diffs of two derived states | `HostDiff`, `MayPrompt` |
| `Verifier` | one device | `held` = store items, `now`, `decisions`, `targets` = what petnames point at, `bindings` = the derived state. `Ingest`, `Tick`, `Pin`, `Unpin`, and the external edits `Accept`, `MergeAcceptance`, `Reset`, `Claim`; each recomputes, as every caller does |
| `VerifierSafety` | the properties of a device | |
| `Pruning` | `Verifier` with `Reclaim` = `prune`, at any moment | `full` is a history variable: everything ever ingested |
| `Replicas` | stores of several devices as lists with seen sets, and stage 1 as the code runs it over such a list: two folds | `Receive` = `insert`, `Merge` = `union`, `Reload` = a restart on the directory; `ValidateAndExtract`, which `Agrees` compares with `Evidence` |
| `EvidencePool` | what a store promises: grow-only sets that lose only refreshes | the abstract specification `Replicas` implements |
| `StatefulPass` | processes on one store directory, step by step | `Begin`, `LoadUnit`, `Gather`, `Check`, `Truncate`, `Write`, `Finish` are `stateful_pass`, `load`, `persist` cut where another process or a crash can come between; `Start` = a user's command or the next round of `Watch::run`, `Crash` = a process is killed, `Relaunch` = somebody runs it again |
| `Zones` | the environment of a fetch: zones that sign, delegate, roll their keys and alias names, and what a resolver answers about them | external: what `onomancy_chain` and `validator.rs` use of the DNS |
| `Validator` | the chain-validation walk, as a fold over the links | `EnterAnchored`, `Delegation`, `Descend`, `FollowCname`, `FinishBinding`, `Verified` = `verify_signed_link` |
| `ChainCourier` | the sans-IO builder driven over several upstreams | `builder` = the machine with its phases, `Answered` = `answer`, `Turn` = one round of the walk's loop; `Respond`, `RespondDegraded`, `QueryFails` = rounds of `drive` and the failover of `fetch_chain`; `Roll` = a zone's key roll |
| `Links` | one link as records: framing, parsing, canonical form, signed data, digests; and what may be done to it on the way | `Reorder`, `Repeat`, `Age` are harmless, `Lose`, `Mix`, `Move`, `Change` are not |
| `Serials`, `TxtRecords` | the one spelling of a serial and the rule for the next; the record grammar, the RRset rules as the validator and as the WebAssembly console read them; a zone editor, a splitting resolver and a clock | `NextSerial` = `Serial::next`, `Derived` = `validate_record`'s choice and its deferral, `Preview` = the console |
| `Units` | the three signed units as strings of tokens: encode, strict decode, sign, re-attach; and their transit | `Damage`, `Receive`, `Restart` |
| `Substrate` | external: what the code uses of Automerge (registers with concurrent values, objects, lists) | a document is the writes in force and the stamps seen |
| `Names` | hostnames, segments, document ids, anchors, the three kinds of name | parse and canonical print |
| `Namestore`, `Petnames`, `DecisionsView`, `CertificateList` | what is read from and written to a document | `Read`, `Lookup`, the walk with its grades; `rename` transaction by transaction; every conflicting acceptance; `put` |
| `Documents` | devices that hold, edit, exchange and merge these documents, beside applications that write anything | one action per command: `Pin`, `Unpin`, `RenamePetname`, `Bind`, `StoreCertificate`, `WriteAcceptance`, ..., `ForeignWrite`, `Obtain`, `Sync` |
| `Authority` | one carriage's replay and the questions asked of it | external: what Keyhive ingests |
| `Verdict` | the one-shot check and `verify_binding` | |
| `Publishing` | one hostname's publishers, the zone, the units about in the field | `Bind`, `Rotate`, `Migrate`, `Refresh`, `Record` plan; `Simulates` = `simulate`; `EditZone`, `Publish`, `Observe`, `Certify` carry out in any order and part |
| `PublishingSafety` | what a verifier makes of what they leave about: `Derivation` and `Verdict` over the units minted so far | `Derived`, `SaidOf` are what `Publishing` plans with |
| `VerifierProofs`, `ResolutionProofs`, `Folding`, `ReplicasProofs`, `ChainProofs`, `StatefulPassProofs`, `DocumentsProofs`, `PublishingProofs` | theorems and the lemmas they rest on | section 6 |
| `MC*` | instances for TLC | |

Composition: `Derivation` takes `Evidence` (over `Ladder`), `Lineage` and `Succession`;
`Verifier` composes it with `Surfacing`; `Pruning` extends the device; `StatefulPass`
runs the same derivation and diff from a directory; `Replicas` ties the
set-based stage 1 to the code's loops and lists. `ChainCourier` composes the builder with
`Validator` over `Zones`; what it proves of a hostname is the TXT record and the window that
`Evidence` finds in an item. `Publishing` mints units whose authority facts `Authority`
computes. What it asks a verifier while planning are two constant operators, `DeriveHost` and `TopWord`,
to which `MCPublishing.cfg` gives the derivation itself (`Derived` and `SaidOf` of
`PublishingSafety`, which instantiates `Derivation` and `Verdict` with the units minted so far as
`Content`): what is proved of `Publishing` holds whatever the planner is told. `Documents` is where petnames, decisions and
certificates come from. `MCDelivery` instantiates `Units`, `TxtRecords`, `Links`, `MCChain`
and `Replicas` side by side: a behaviour tells the story of one of them.

**Conventions.** In the derivation an item is its content hash; `Content` says what it
decodes to, so signature checks, which the code settles at decode, are part of the data. The
two seams of the derivation, chain validity with its window and TXT records, and authority
with the delegation path, are facts in the item too. Documents, generations and hashes are
naturals in byte order. Times and serials share a unit: the code scales seconds by 1000 to
compare with serials, which moves no order. An `Option` is a set of at most one
element. In `Units` and `TxtRecords` a byte string is a sequence of tokens, one per
field of fixed width or varint, so a misplaced field is read as whatever stands in its place;
a digest is the string itself; a signature verifies when its signer signed exactly those
tokens. `Links` leaves out key tags, which only order the keys that are tried. In `Names` a text is
the sequence of its parts, with the lexical classes of parts as constants. Definitions under a
`Mutant:` comment are deliberate bugs, used to show that a property can fail; no
specification uses them.

## 3. Runs

Every bound is in the cfg: sets of items, hosts and decisions, `StartTime..MaxTime`,
`MaxFailures`. A store only grows, so every subset of the items in every order is covered.

| Run | Checks | Shows |
|---|---|---|
| `succession` (MCSuccession, 6 144 states) | `TypeOK`, `AcceptedIsAttested`, `FreshWins`, `DisplacedOnlyByFresh`, `ContestNeedsDispute`, `ResetLeavesNoTrace`, `HostsAreIsolated`, `PendingNeverDisplaces` | three documents, two hostnames, eight items: succession proved and forked, an equivocating tie, a refresh that outlives a window, concurrent acceptances, a reset. Three documents are the least that fork or form a circle |
| `lineage` (MCLineage, 6 144) | `RetiredOnlyInDispute`, `MergeRepairs`, `IntroductionsOnlyBadge` | three generations of one document: rotation, rewind, fork, merge and cycle, reset from *another* hostname, claims and pins |
| `pruning` (MCPruning, 20 672) | `PruneExact`, `PruneKeepsWitness`, `ReceiptsSurvive` | certificates and refreshes that dominate, tie with and outlast one another; one beyond the horizon, one deferred; a prune at any moment and re-arrival of dropped items |
| `watch` (MCStatefulPass, 510 637) | `NothingForgotten`, `NeverSkipsEvidence`, `EvidenceSpreads`, `LoopNeverStops` | two resolves that offer the same two units and a watch, under fairness, one failure or crash at any step (the sleeping watch may be killed too), a relaunch or none, with the clock and no live zone (`Served` is empty; the theorems allow one) |
| `documents` (MCDocuments, 119 196) | `ReadsAgree`, `DecisionsSurvive`, `MoreReplicasOnlyExtend`, `RenameOnlyRelabels`, `PutKeepsOthers`, `BoundIsReachable` | a directory and a browser tab, three commands of any kind: two suffice for a concurrent conflict, the third acts on it or merges it. Documents arrive whole, broken or in parts; document 2 names 3 and, in a circle, 1 |
| `publishing` (MCPublishing, 23 360) | `PlansDeliver`, `DisputesHaveACause`, `OneShotAgrees`, `AuthorityIsProven`, `SerialsRise` | two ceremonies in each of six courses (bind, rotate, migrate or certify with refresh; bind with migrate; record), clocks one step behind, serials up to 4, the top of their range; every subset of the published units is judged as a device's store |
| `delivery` (MCDelivery, 439 097) | `NoFalseBinding`, `PublishedBindingArrives`, `WindowIsJoint`, `FramedHasShape`, `EveryAnswerCounts`; `VerifiesWhatWasSigned`; `PreviewAgrees`; `OneSpelling`, `OnlyTailsChange`; `OrderUnobservable`, `PoolSpec` | five stories (below) |
| `pruning_claim` | `PruneUnobservable` | **violated**, section 5 |
| `surfacing_over_time` | `EveryChangeSurfaced` | **violated**, section 5 |
| `circle` | `ChallengerNeverBlanks` | **violated**, section 5 |
| `wildcard_alias` | `SynthesizedIsRejected` | **violated**, section 5 |
| `deferral` | `DeferralPrecedesSelection` | **violated**, section 5 |

The stories of `delivery`. *Chain*: the owner's zone and two others, cut and signed in every
way, with aliases below, beside, onto a cut, in loops and one longer than the hop bound; windows of two
branches that overlap or do not; a step of a key roll at any moment; two
upstreams, two lost or partial answers. `MaxHops` is 2 where the code has 8: two hops
already leave a zone, enter it again from the root, and end below a cut, and three are one too many.
`MaxLinks` 14 is less than the longest chain, so that the cap is met. One step of a roll
(`MaxRolls`) is what can happen within a fetch; the zones start in every stage of one. (With two steps
the invariants hold as well, over 2.3 million states, in more time than a run should take.)
*Link*: two touches on a framed link, so that a harmless one can follow or hide a harmful
one. *Records*: three TXT strings and one stray at clocks up to two ahead of the zone's,
near the end of the serial range. *Unit*: one edit of a unit of at most 36 tokens (the largest
made here), two held copies. *Stores*: two stores, four items whose extraction could depend on order: two
carriers of one statement, one unauthorized; a refresh only the later certificate vouches for.

`PruneExact` has premises (`DominatorsStand`, `NothingElseDropped`) because the unconditional
rule fails; they name exactly what pruning gambles on. The second speaks of the statements in
force and not of those held: a dropped carrier may have kept a statement from being
excluded by a reset, so that equal sets of held statements would not do.
`ResetLeavesNoTrace` has one stated exception, the vouching of an excluded certificate, which
the code builds before exclusion. `RetiredOnlyInDispute` and `MergeRepairs` speak of cycles by
reachability, not by `find_cycle`'s greedy walk, which misses a cycle behind a fork (section 5).
`PublishedBindingArrives` asks that all windows on the path share a moment: of several
signatures on a link the walk uses the first that verifies, and an empty window then ends it
although a later one would do. It asks that the root's keys keep an anchor (`Anchored`) and that no zone
rolls from its old keys to its new ones alone while the fetch lasts (`RolledOnce`): the DS set that
was framed before the first step names none of the keys that are served after the second. `RenameOnlyRelabels` and `PutKeepsOthers` except what section 5
reports. `PlansDeliver` presumes what `simulate` could not see (`Foreseen`).

## 4. Fairness

Only `StatefulPass` states fairness. `WF(Work(p))` for every process: a process that is
running goes on, since no step of a pass waits for another process. `WF(Start)` only for
`Looping` processes, and only from `Idle` and `Failed`: as long as its process lives, `watch.rs:50-62`
sleeps after a pass and then begins another, whether the last one returned or failed. Nothing in the repository
starts a killed process again, so nothing here assumes it: from `Down`, which `Crash` leaves behind, only
`Relaunch` leads on, and no fairness is stated of it. A watch that stays down judges nothing any more; both
`EvidenceSpreads` and `LoopNeverStops` except it, and hold anew once somebody relaunches it. The
watch meant is one without `--passes`, whose hostname parses (`run` returns otherwise). Nothing is assumed
of users' resolves, of the clock, or of the zone. `EvidenceSpreads` also excepts a torn file: nothing in
the code removes one, and every pass fails on it until somebody does.

The courier states no fairness. `EveryAnswerCounts` is a variant: each answer, timeout or
refusal lowers it lexicographically, so a fetch ends if each of its queries is answered or
times out, which is what the transports see to.

## 5. Findings

- **`pruning_claim`.** `prune` drops a record once a sibling dominates it, although the
  sibling's serial may still be deferred (more than `SKEW_MS` ahead). Until it ripens the
  document has no considered certificate and the binding is gone. `prune.rs:47-49` promises
  that `derive` is unchanged for every later clock reading.
- **`surfacing_over_time`.** A stateful pass compares with the stored units *at the new
  time*. What changed merely because time passed is equal on both sides and never
  printed, although `diff.rs:3-5` asks for the passage of time to be surfaced.
- **`circle`.** If all candidates are stale and dominate one another in a circle (accepted
  document over challenger by key, challenger over successor by key, successor over accepted by
  proof), `resolve_document` contests without asking who is eligible, so a stale, unproven
  record blanks an acceptance-backed binding, which `binding-cache.md:152` rules out.
- **`wildcard_alias`.** `dns-anchor.md:384` has verifiers reject wildcard-synthesized answers,
  and so says the head of `validator.rs`. `finish_binding` compares the RRSIG's label count
  of the leaf; `follow_cname` does not, so a chain over a synthesized CNAME is proven.
- **`deferral`.** `validate_record` takes a document's highest serial out of the RRset and
  stage 2 defers the result, so one record from the far future hides the good one beside it.
  `dns-anchor.md:104` has deferral precede everything; the WebAssembly console does so.

Met while modelling, each faithful in the model and excepted where a property would trip
over it:

- Of one document's two generations at one serial the verifier takes the last in the RRset
  (`max_by_key`, `state.rs:617`), so nothing is contested. The console contests, and `records.rs:124-127`
  says that the verifier does; `PreviewAgrees` excepts this tie.
- `find_cycle` follows the first statement out of each generation (`state.rs:903`). With statements
  2 to 1, 2 to 3, 3 to 1 and 3 to 2 it misses the cycle of 2 and 3: the one head 1 settles the lineage, and stale
  records of 2 and 3 are rejected as retired, where `state.rs:827-828` and `dns-anchor.md:177` say that a
  cycle never settles.
- The carriages that vouch for bare refreshes are collected before exclusion (`state.rs:536`), so a
  certificate that was reset can still decide which generation is accepted. `binding-cache.md:47` says that it
  contributes to no derivation output.
- `prune` drops a statement with the dominated certificate that alone carried it (`prune.rs:118`),
  although `prune.rs:14` retains every statement; and a record beyond the horizon, dropped itself, still
  counts as dominating (`prune.rs:88`), so a current record goes with it, although `prune.rs:18-21`
  sanctions the loss of the former only.
- `CertificateList::put` replaces at the index among the *decoded* entries
  (`certificates.rs:132`, `149-165`), which is not the list's index once the list holds something
  that is not bytes. In the list of a certificate, such an entry, and a second certificate, storing the second
  again overwrites the entry between and lists the certificate twice.
- `rename` onto a label that already pins another document drops that pin
  (`petname.rs:64-75`).
- A reset register is read by its winning value only, where `binding-cache.md:120` merges resets.
- The ceremonies take `Serial::from(now_ms)` (`bind.rs:72`, `rotate.rs:95`, `migrate.rs:83`)
  without the floor of the last serial that `design/dns-binding.md:48` and `ceremony.rs:7-8` promise.
- `simulate` judges a plan with the new certificate alone, not with what is already about.
- A device that has a rotation and only the earlier zone derives a dispute, which
  `dns-anchor.md:163` means to be a transition.
- A tie on the whole key in `verify_binding` is resolved by list order.
- Of several signatures on a link the first that verifies sets the window (`validator.rs:344`), and an
  empty window then ends the walk, although a later signature would do. `link.rs:121` speaks of what
  suffices for a link, not of which signature a walk takes, so this is an exception of
  `PublishedBindingArrives` and not a finding.

Proof attempts that failed for a good reason, and what they said about the model:
`MergeRepairs` had to exclude an acceptance, or a proof from one, that leads to another document
(an acceptance that cites only a deferred row still counts); `PendingNeverDisplaces` had to exclude a
challenger whose own rows do not settle, and a proof cycle from the incumbent;
`PruneExact`'s premise about statements is the one named above.

## 6. Proofs

Assumptions: `ContentAssumption` (items have the fields of their kind, natural numbers where
the code has integers, finitely many carried statements), `VerifierAssumption`,
`HorizonAssumption`, `PassAssumption`, `ReplicaAssumption`, `ValidatorAssumption`, and
`CourierAssumption` (the root is a signed zone, an alias owns no other records, as DNS
requires, and typing), `PublishingAssumption` (a carriage is a sequence, clocks and serials share one range, the
`u64`, and typing), and `DocumentsAssumption`: a document is what Automerge can hold (each write in
force at a map's key or a list's element, and seen), names and paths are texts, which split into one part
or more, a petname's path has a segment (an empty one is refused before anything is written), foreign
applications write at the top of their parts, and a zone proves finitely many documents. Apart from
the point about aliases all are typing of constants. TLC evaluates them, and
those of the modules without theorems, in every run that extends their module.

- **`VerifierProofs`.** First the ladder: zone-state keys are totally ordered
  (`KeyOrderTotal`, `KeyOrderTransitive`), swapping the records mirrors the verdict
  (`CompareMirror`), and freshness is absolute (`FreshIsAbsolute`). Then the device. `bindings`
  is derived state, so the inductive invariant `IInv` is: the inputs are typed, and
  `bindings = Compute(held, now, decisions, targets)` (`BindingsAreDerived`). What is then to
  prove is about the function. `AcceptedIsAlwaysAttested` follows an accepted binding backwards:
  `Conclude` shows only `resolved.bound`; that reads `BestRows`; those are surviving rows of a
  candidate document; candidacy needs a surviving certificate; survivors are considered, hence
  held, undeferred and not reset. `TypeCorrect` also needs that at most one row is bound: rows
  are unique by hash and key within a document, and at most one document is resolved.
  `IntroductionsNeverPrompt`: claims and pins reach only `divergence`, on which no event that
  prompts depends. `HostsStayIsolated` and `ResetsLeaveNoTrace` compare two runs of the function:
  extraction, the lineage views and the proof graph of a hostname are shown equal over two
  stores, after which the derivation reads nothing else. `EvaluableElsewhere` and
  `PreferredElsewhere`: whether an acceptance is evaluable, and how two rank, depends only on the
  rows of cited hashes.
  Last, the two graphs of statements, without induction on data: least naturals and maxima of
  finite ordered sets; `ChainFrom` is a walk of distinct documents over only successors, of which as
  many steps as there are pairs suffice, so its last document leads nowhere new (`ChainIsWalked`,
  `LastLeadsBack`); `Reach` is the least closed set (`ReachIsLeast`); a walk that returns was on a
  cycle, and an acyclic lineage with one head settles and descends to it
  (`AcyclicOneHeadSettles`, `AllDescendToTheHead`).
- **`ResolutionProofs`.** The stages after extraction, in the vocabulary of one hostname's
  `Resolution(h)`. `FreshAlwaysWins`, `OnlyFreshEvidenceDisplaces`, `ContestsNeedDispute`,
  `RetiredBindsOnlyInDispute`, `MergesRepairForks` and `PendingNeverTakesOver` need, besides
  `IInv`, that the store is finite (`HeldFinite`, an invariant: items come one at a time): a
  maximal row, an undominated document, a best row exist only in finite sets. The argument
  is the same throughout: what `BestOf` picks dominates or ties with everything that speaks for its document;
  what `Maximal` leaves is dominated by no other document; the incumbent is followed through
  proofs by `ChainFrom`; and each way into `contested` is one disjunct of the stated dispute.
  *A device that prunes.* `IInv` and `HeldFinite` also hold with `Reclaim` (a prune only
  shrinks the store). The lemmas on states need nothing else, so every state property above holds of a
  device that prunes at any moment (`SafetyOutlastsPruning`), and since a prune brings no item and
  touches no decision, so do the three action properties (`IsolationOutlastsPruning`). `ReceiptsAlwaysSurvive`: cited items are
  kept, the rest is `EvaluableElsewhere` and `PreferredElsewhere`. `PrunesLeaveAWitness`: `Dominates`
  is a strict order on rows of one binding, so above a dropped row a finite group has a row that
  nothing dominates (`TopOfTheGroup`); it is on the frontier, or beyond the horizon.
  `PruningIsExact` compares what the pruned store derives with what `full`, everything ever
  ingested, would. Its invariant is `Remembered`: what was dropped lies below something still
  held, for every number of prunes and re-arrivals. Where the dominators count, each survivor of
  `full` then has one in the pruned store that speaks for the same document no worse; the best rows,
  the undominated documents, grades, lineage tenure and receipts come out alike, and so does the
  conclusion.
- **`Folding`.** Induction over a loop. The library's induction theorems take an operator as a
  parameter, which the provers cannot instantiate; `Folding` takes the loop's step and invariant as
  CONSTANT operators instead, and an INSTANCE makes `Kept` a lemma about a given loop. That the
  recursive function which a fold evaluates exists at all is shown by a least counterexample.
- **`ReplicasProofs`.** `StoresStaySound`: a store lists every item once and has seen exactly what it
  lists (the merge is a fold of `insert` over a peer's list). From it `StoresImplementPool`,
  initial states and step by step. `OrderNeverObserved`: after any number of turns of the first pass
  the accumulator holds the rows, carriages, statements with provenance and refreshes of exactly the set
  of items seen so far; the second pass judges each refresh against all carriages; so
  `ValidateAndExtract` of any list is `Extract` of its set, and two stores that hold the
  same items agree whatever their orders.
- **`ChainProofs`.** For every tree of zones, number of upstreams and hop bound. *What resolvers can
  say* (`Said`): RRsets that exist, each signed by the deepest cut above its owner, at any stage of
  any roll; what a builder frames is a sequence of these (`FetchInv`, kept by every answer, whole or
  degraded, by failover and by rolls; the walk's loop by `Folding`), with a TXT link at most at
  its end. *What the validator makes of that* (`Sound`, kept by every step): a walk stands in a zone
  that is trusted, every cut above it being signed and securely delegated; it has followed the
  owner's aliases as far as its hop count says, and everything passed is trusted: a DS link is signed by the zone
  above the cut, so trust goes down with the descent (`TrustedChild`), and a record's own zone is
  below no cut that is not above it (`CutsAbove`). At the leaf, which is no alias, the path has
  ended: `NoBindingIsFalse`. `WindowsAreJoint`: a verified link's signature contains what is left of
  the window, and the window only gets tighter. `AnswersCount`: an unfinished builder aims inside the
  name at hand (`AimInv`), so an event has only four effects, and each comes nearer to the end: a failure uses up
  an upstream, the walk reaches the leaf and never comes back from it, a turn takes one of the hops, a
  descent goes one label further. `FramesHaveShape` is a simulation of the builder by the validator
  (`InShape`). A walk over one link more is one step more (`WalkedOn`, from `Folding`), so `Walked`, the
  walk over what is framed so far, can be followed link by link. As long as it goes on it stands
  where the builder does (`Stands`): at the same name, in the same zone, after as many hops as the builder
  has taken turns, with a delegation pending exactly while its keys are asked for. Otherwise it has ended with
  an objection to what a link says, never to its kind, its owner or its place. Both sides' rules for an alias
  meet in `AliasInShape`: with a turn left for the leaf, the validator has a hop left for the alias.
  `PublishedArrives` is the converse of `NoBindingIsFalse`. What a builder holds of an upstream that
  left nothing out is `Bright`: the walk over its links is `Lit`, that is, it goes on (so `Stands`
  says where) with a window that holds the moment the zones share and keys that are served in some stage near
  the first. Each link's own step then succeeds: the keys of two stages one step apart meet (`KeysMeet`), so a
  delegation framed before a roll verifies keys framed after it and the reverse (`DelegationLit`, `DescendLit`);
  the zone the builder reaches below a name is its deepest cut, whose keys sign the record
  (`ZoneIsDeepest`, `GivenVerifies`); and the leaf's answer, collected once, holds the whole path
  (`WholeHolds`), so each turn finds its alias or the leaf (`TurnBright`). `ArriveInv`
  adds that an upstream that was left was in trouble.
- **`StatefulPassProofs`.** For any number of processes, units and failures.
  `JudgedIsSecured` needs more than `NothingForgotten`: a unit a pass has *taken* but not
  yet reported must be secured too, and so must the unit it is about to take (after `Check` found the file,
  after `Write`). `IInv` is `Shape` (types by phase), `Securing` (whatever is in a running pass's
  store is whole, cut short, or being rewritten) and `Reading` (what was present at the start is listed or
  loaded), from which `EvidenceNeverSkipped` follows at `Finish`.

- **`DocumentsProofs`.** For any devices, documents, writers and number of commands. All rest on
  `Shape`: what is held is well formed, a fact about every path by which a document comes to be
  there (an own edit, a foreign write, a merge, an arrival). `ReadsAlwaysAgree`: the reader
  resolves each key to the winner that `reference` finds, and every live reference at a
  path key is an edge or a reported conflict. `DecisionsAlwaysSurvive` needs a history invariant
  (`History`): every write in force in a device's own document has been recorded with what its
  writer had seen, every recorded write that a device has seen is in force there unless one it has
  seen was written over it, and "seen" is transitive; the merge keeps that because it takes a write
  that is in force on one side and either unseen or in force on the other. `ReplicasOnlyExtend` compares two walks over
  the same documents and one more, hop by hop, by taking the farthest place on the way
  at which they would differ (`FarthestCursor`: each hop consumes a segment). `RenamesOnlyRelabel`
  follows the two transactions over whatever conflicts the two keys hold; `BoundIsAlwaysReachable`
  parses the printed name back and takes the one hop from the root that `Bind` wrote. `PutsKeepOthers`
  needs the order of a list: `InOrder` lists every member of a finite set of naturals once (`InOrderIs`), and
  an element is named by a stamp between 1 and the clock, so a list is finite and an appended element is new;
  where all elements are bytes, a place among the entries is the same place among the elements.

- **`PublishingProofs`.** For any publishers, clocks, keys and events. *Replay.* A round of the replay keeps
  what it can take and defers the rest (`Folding` over the events of a round, then over the rounds);
  a round that takes nothing has reached a fixpoint, and one that does take something leaves fewer events, so as many
  rounds as there are events suffice; the fixpoint is the least one, since keyhive takes an event whenever
  it would have taken it with less. Hence `ReplayIsOrderFree`: all events when they ground one another,
  nothing otherwise, for any order and repetition. *Authority.* `Sound` says that the log holds judged units only: whatever
  an action mints, a certificate or a statement, its facts are those `Authority` finds in its carriage, and what is put into
  the field has been minted; `AuthorityIsAlwaysProven` follows with `ReplayIsOrderFree`. *Serials.* `InRange`: every
  serial spoken in the zone or planned is at most `MaxSerial`; with it each of the two cases of `Serial::next`
  is above everything that the zone ever said (`SerialsAlwaysRise`).

Only model-checked: the liveness of the watch (`EvidenceSpreads`, `LoopNeverStops`: liveness under
fairness is out of the prover's reach); the three properties of `PublishingSafety` (`PlansDeliver`, `DisputesHaveACause`,
`OneShotAgrees`), which compare derivations over a growing log: they instantiate `Derivation` with a
parameter, and the prover does not take parametrised instances; and the codecs with their transit (`Units`, `TxtRecords`, `Links`), whose
decoders are recursive or compute over every input.

## 7. Plan

The order of construction was the order of importance: the derivation, the device around it,
its stores, pruning, the stateful pass; the chain from courier to validator; the documents that
hold decisions and names; publishing and authority; the codecs. All of it is
built; what stays with TLC is listed at the end of section 6.

## 8. Not modelled, and why

Hash functions, curves, RSA and base64 (third-party code: a signature verifies when its signer signed
exactly that data); sockets, UDP truncation and resolver discovery (a query is answered whole,
answered in part, or fails); the DNS-over-HTTPS courier is the same loop over one
upstream. The remaining WebAssembly bindings convert between JavaScript values and the
modelled types; argument parsing, key files and printing of the command line are left out. In
`StatefulPass` a fetch answers or fails, which is all that `Gather` sees; the watch's
`--passes` limit and the one-shot resolve without a store are left out; writes are one call,
so a torn file is one state, `Partial`. In the chain, a link's size is one and a
name too long for `_onomancy` is not asked about. Keyhive revocations are not among the events the
code relays. Of `held.rs` only the set of held documents and its walk is modelled.
