# ACIT Gateway: TLA+ models, checks and proofs

The gateway takes an agent's request, checks it against a stored Mandate and the
Merchant's guardrails, creates a Razorpay test-mode order or refuses, and writes
every outcome to a hash-chained Audit trail. It is one asyncio process (or several,
under `--workers`) on one SQLite file in WAL mode. Nothing in the code holds a lock or
a transaction across two awaits: a SELECT runs outside any transaction, and a
transaction opens only for the flush of a commit. So every `await` of a handler is a
place where any other handler may run, and most of what can go wrong lies there.

## Inventory

| component | state | operations | talks to | hard behaviour | correct when |
|---|---|---|---|---|---|
| C7 Audit logger, `services/audit.py`, `routes/audit.py` | table `audit` | `log_entry`, `verify_chain`, `get_full_chain`, `get_chain`, export | called by checkout and webhook | read of the last hash and commit are two transactions; order comes from the clock | links never dangle; the trail is one verifiable chain; edits are detected; exports are verified |
| C3 Vault, `services/vault.py`, `routes/mandates.py` | tables `mandates`, `denylist`, `agents` | `store_mandate`, `revoke_mandate`, `validate_mandate`, `get_mandate`, `add_to_denylist`, `register_agent`, `verify_signature` | read by policy and checkout, read and written by webhook and operators | read-modify-write; column-wise UPDATE; naive datetimes | revocation is final; columns agree with the payload |
| C5 Policy, `services/policy.py` | none | `evaluate_proposal` | two reads of the Vault, Catalog | the Mandate changes between the reads; rounding per line | an allowed Proposal is within the terms read, at listed prices, within the discounts granted |
| C4 Firewall, C1 parser | none | `sanitize`, `parse_envelope` | called by `run_execute` | what is checked is not what is handed on; spellings, JSON types and falsy values; exceptions other than `ProtocolParseError` | what passes is clean; what is parsed is a whole Mandate; both pass before the policy |
| Checkout, `services/checkout.py`, `routes/checkout.py` | none of its own | `propose`, `run_execute` | all of the above, executor | a third read of the Mandate; retry; failing Audit; crash | no order without every gate; no order after revocation; every order in the trail |
| C6 executor, C8 chaos | orders at Razorpay | `create_order` | Razorpay | lost answers, transient faults | one retry, and accounted for |
| Idempotency store | table `idempotency_keys` | `mark`, `seen` | webhook | racing inserts, locks, bounded attempts | one claimant per event; no false duplicate |
| Webhook, `main.py`, `services/webhook_apply.py` | Mandate payload, Audit | `razorpay_webhook`, `apply_verified_event` | idempotency store, Vault, Audit | redelivery, crash after the claim, `VaultError` | applied once at most; Mandate and Audit agree; every delivery answered |
| C2 Catalog, `services/catalog.py`, its routes, MCP endpoint | a file, read once | `get_catalog`, `get_item`, `tools/call` | read by policy and Agents | malformed or repeated entries | every reader sees the offer the policy holds it to |
| Agent registry (in C3) | table `agents` | `register_agent`, `verify_signature` | | racing registrations | a registration that returned has taken effect |
| Application wiring, auth, configuration, crypto, scripts | | | | | not modelled (below) |

`PROJECT.json` lists every component with its status, and the hazards line by line.

## Modules

| module | models | state ↔ code |
|---|---|---|
| `AuditChain` | C7 | `audit`: rows; `clock`: last reading of `datetime.now(UTC)`; `pc`, `draft`: a `log_entry` call and its record; `export`: an export request, with the rows it verified and those it answers |
| `AppendLog` | what the trail promises: a sequence that grows at its end | |
| `Vault` | C3 | `mandates`, `denylist`: tables; `now`: the clock; `sess`: a `store_mandate` call, with the row it loaded |
| `MandateBook` | what the Vault promises: records replaced whole, revocations never undone | |
| `Registry` | extends `Vault`: the table of Agents beside its Mandates | `agents`: public keys; `reg`: a `register_agent` call with the row it loaded; `held`: history of the keys that verified meanwhile |
| `Policy`, `Gate` | C5; C4, C1 and the opening of `run_execute`, as functions | no variables |
| `Checkout` | extends `Vault`, `Policy`, `Gate`: requests from arrival to answer | `pc`: the await a request is at; `terms`, `handed`: the Mandates read; `shown`: history of the row and the clock that `validate_mandate` read; `orders`: at Razorpay; `trail`: its Audit row |
| `MoneyAction` | what checkout promises: authorised while not revoked, ordered, decided once, recorded, answered | |
| `Idempotency` | `mark` and `seen` | `claimed`: table rows; `mstate`, `tries`: a call |
| `Webhook` | extends `Vault`, `Idempotency`: deliveries | `hook`: the await; `evt`, `seen`: event and Mandate read; `applied`: its Audit row |
| `Gateway` | extends `Checkout`, `Webhook`: one process, one Vault, one death | the variables of both |
| `Json`, `Firewall`, `Parser`, `Storefront` | JSON values; C4 on them, its two walks recursive functions of the values there are (`JsonValue`, nested `Depth` deep); C1 field by field; C2 and its readers, the MCP tool among them | no variables |
| `Decision` | extends the four and `Gate`: one request through firewall, parser and policy, computed step by step as the code does | `at`: the stage; `cleaned`, `parsed`: what it left; `line`, `allowance`: the policy's loop |
| `MC*` | constants and symmetry of the runs | |
| `*Proofs`, `SequenceLemmas` | theorems of `AuditChain`, `Vault`, `Registry`, `Checkout`, `Webhook` (with `Idempotency`), `Gateway` and `Decision`; facts about folds, sums and sorted sequences they share |

How they compose: `Checkout` takes firewall, parser and policy as the functions of `Gate`
and `Policy`; `Decision` computes the same verdicts from JSON values, cart lines and
Catalog entries, and its run shows that both agree (`GateIsTheComputation`,
`PolicyIsTheLoop`). `Webhook` calls the Vault's `StoreRead` and `StoreCommit` with the
delivery as the session, so inside `Gateway` a delivery is, for `Checkout`, one more store.

One action is one stretch of code between two awaits. Two modelling decisions carry
the rest.

* **Reads and writes.** `store_mandate` is `StoreRead` (up to `session.get` and the
  revoked check) and `StoreCommit`. SQLAlchemy's UPDATE names only the columns whose
  value differs from the one the session loaded (`Flush`, `Dirty`); that is why a racing
  store leaves `revoked` alone, and why a row can become a mixture. `revoke_mandate` and
  `add_to_denylist` write values that depend on nothing read, so each is one step.
* **Hashes.** A SHA-256 digest is the tuple it is computed from, which is collision
  resistance; `GENESIS_HASH` is the empty tuple. `previous_hash` is part of both the
  digest input and of `_canonical_fields`; one occurrence suffices.

Other abstractions. ISO timestamps are numbers: all are written by `isoformat()` of one
zone, and compare as strings in the order of time except that a reading with zero
microseconds drops its fraction. `entry_id` is a number in no relation to time (uuid4). In
`Checkout` and `Webhook` an Audit write is one step that appends the row of that request:
how `log_entry` calls interleave is the subject of `AuditChain`. An envelope is a record
of what firewall and parser can tell about it, copy is "plain" or "pressing". In `Firewall`
and `Parser` a JSON value is tagged with its type, and a text is a sequence of atoms (parts
of words, a soft hyphen, another invisible character, a date, an offset, `Z`), enough to say
when a phrase is there, appears by cleaning, or a date is aware. A Mandate in
`Vault` is a record with `agent`, `exp` and whatever else the composing module needs.
`_ensure_schema_once` only creates tables, which `lifespan` did before.
Operators named in a comment as mutants are small variants of the definition that follows
them; no specification uses them. They record which slip of the code each property catches.

## Runs

"pass" runs hold; "violation" runs show where the code and the repository's own words
disagree. `CHECK_DEADLOCK FALSE` everywhere: bounded clocks, entries and requests run out,
and a gateway with nothing to serve is idle.

| run | bounds | shows |
|---|---|---|
| `audit_concurrent` | 2 writers, 1 exporter, 3 ids, clock 0..1 that may stand still or be set back, aborts, one edit of one column | `WellLinked`: links never dangle, ids are unique; `VerifyMeansIntact`: `verify_chain` is true exactly of a chain; `TamperEvident`: an edit is never forgiven, however the log grows; `BrokenForGood`: nor is a fork, or a break left by a clock set back; `ExportVouches`: what the answer of an export is worth, with calls between its two queries; `TypeOK` |
| `audit_serial` | 1 writer, 4 ids in any order, steps of 1 or 2 | `ChainVerifies`, `AppendsAtEnd`, and `AuditChain` implements `AppendLog` |
| `audit_race` (violation) | 2 writers | `ChainVerifies` fails: both read one last hash, the chain forks |
| `vault_serial` | 1 id, 1 store at a time, 6 payloads, clock 0..2; 2 registrations of 1 Agent, 2 keys | `PayloadBoundsHold`, `Vault` implements `MandateBook`, `RegistrationTakesEffect` |
| `vault_torn_row` (violation) | 2 racing stores of 1 id | `PayloadBoundsHold` fails: a torn row validates outside its payload's bounds |
| `vault_revoke_race` (violation) | 1 store, 1 revocation | `RevokedNotOverwritten` fails: a store that read before the revocation overwrites the terms |
| `checkout_requests` | 1 request, 1 racing store, 3 terms (one naive), 5 envelopes, 4 proposals, one of them to a merchant whose entry cannot be read; Audit faults and crashes | `NoOrderAfterRevocation`, `OrdersAreGated`, `TrailAccountsForOrders`, `CheckoutTypeOK`, `RequestsEnd`, `RequestsAdvance`: whatever changes about a request leaves fewer awaits ahead of it; and `Checkout` implements `MoneyAction` |
| `checkout_unaudited` (violation) | 1 request | `TerminalPathsAudited` fails: a path that ends in an exception (of the parser, of the Catalog through the policy, of the Audit) and no Audit row |
| `webhook_deliveries` | 2 deliveries of 6 kinds of event, 2 attempts of `mark`, locks, revocations, failing calls, crashes | `OneClaimant`, `FalseMeansClaimed`, `AppliedAtMostOnce`, `DuplicatesAreHandled`, `TrailMatchesStatus`, `DeliveriesEnd`, `DeliveriesAdvance`: whatever changes about a delivery leaves fewer steps ahead of it; `HookTypeOK` |
| `webhook_revoked` (violation) | 1 delivery | `ClaimedGets2xx` fails: a claimed event answered with an error, and never applied |
| `gateway` | 1 Mandate, 3 terms, 1 operator's session, 1 request, 1 delivery, failing calls, a crash | `NoOrderAfterRevocation`, `RevokedForever`, `EventKeepsBounds`, `TypeOK` while all of them interleave |
| `decision_functions` | a good envelope with any 1 or 2 of its fields replaced, added or removed (13 fields, 5 to 13 values each), 4 protocols; carts of up to 3 lines over 4 merchants, 3 of them with repeated or malformed entries | `PassedIsClean`, `ParsedIsWhole`, `GateIsTheComputation`, `PolicyIsTheLoop`, `DiscountBound`, `QuotesHold`, `DecisionTypeOK` |

Why the bounds suffice. The hazards of the Audit chain and the Vault need two calls, one
between another's read and its write; a third writer adds an entry on top of a fork. Four
serial entries let ids sort against time in every way. Two agents, two expiries and two
limits let every pair of columns differ alone. Requests of `Checkout` share nothing but
the Vault, which changes under them anyway through the racing store, so one request is
enough. `webhook_*` use two attempts of `mark`, the first after which a call can both
repeat and give up; the theorems of `Idempotency` and `Webhook` hold for any number. They
start on tables left by an earlier process: Mandates stored, no event claimed. `gateway`
has one of each actor: two of a kind are the subject of the runs above it, and its new
question is what one actor does to another of a different kind; its theorems say so for any
number. In `decision_functions` faults of a field show alone and in pairs, which is what an
order of early returns or a fall-through between two spellings can tell apart; the
`shop`, `twice`, `short` and `wrong` merchants are the ways `get_item` can end. Its
`JsonValues` are the envelopes, what is in them, and what the firewall makes of either.
`ChainSymmetry` permutes interchangeable writers and bodies, in a run without liveness.

What the models also show, and no run states as a property: the
executor may be handed other terms than the policy saw (`terms`, `handed`), and the policy
other terms than `validate_mandate` cleared (`OrdersAreGated` asks each read of its own
row); a lost answer of Razorpay leaves an order behind a Refusal, or a second order after a
retry, which the code's own comments say and `TrailAccountsForOrders` bounds; an order whose
`log_entry` fails is in no trail; a Mandate stored with a naive `expires_at` makes
validation raise. An export that interleaves with two writers can answer, under
`chain_ok`, rows that are no chain; `ExportVouches` says how far that goes: what it verified
was a chain and is in the answer, and if the answer is none, the table has stopped being
one, so that later exports are refused.

Two sentences of the repository claim more than the code does, and the models follow the
code. `idempotency.py:64` says of a lock conflict that it is "absorbed, never raised as
500"; `mark` raises the last `OperationalError` when every attempt meets a lock, and at once
any that is no lock, as `seen` may too (`MarkInsert`, `MarkSeen`). `docs/DECISIONS.md:293`
speaks of idempotency by `mandate_id`; `TrailAccountsForOrders` has to allow two orders of
one request behind an entry marked retried, and two requests of one Mandate make an order
each.

Fairness. `WF` of the steps that resume a request, a call or a delivery: the event loop
resumes each task whose await has returned, and no task waits for another. SQLite answers
or raises within `busy_timeout`; a lock is an answer. That the Razorpay SDK's call ends is
assumed of the SDK. No fairness is assumed of arrivals, operators, the clock or faults.

## What is proved

For every value of the constants, from the named assumptions of the modules
(`AuditConstants`, `VaultConstants`, `CheckoutConstants`, `MarkConstants`,
`HookConstants`, `RegistryConstants`, `CatalogFileConstants`, `SubmissionConstants`,
`WordConstants`, `JsonConstants`, `SanitizedConstants`: constants have the types the code
gives them, which for Catalog entries and Proposals are the bounds of their pydantic models;
`MarkTries` is positive, an event's update of a Mandate is a Mandate, an absent field is no
word; a JSON value is a finite tree, and sanitized it is a JSON value). The runs evaluate
them on their instances.

* `VerifyTellsIntact` (any number of writers, aborts, and an edit of one column): the fold
  of `verify_chain` over the sorted rows is true exactly when they form one chain from the
  genesis. The rows of a table, which have distinct ids, have one sorted sequence
  (`SortedExists`, `SortedUnique`); the fold's state after `k` rows is the digest of the
  `k`-th and whether all links and digests up to it are good (`VerifyLoop`).
* `AuditTamperEvident`: the edited row keeps a digest that is no longer its own, rows are
  never written again, and the fold meets that row whatever else the table holds by then.
* `AuditWellLinked` (any number of writers, aborted calls included, until a row is edited
  outside the program): by an invariant that also says where the hash in a live draft comes
  from: a draft past its read links to the genesis or to a committed row, and drafts and
  rows have distinct ids. Rows are never removed, so the link still resolves when the row
  is committed.
* `AuditBrokenForGood`, `AuditExportVouches` (any number of writers and exporters, a clock
  set anywhere, the edit included). The rows a table had at any earlier moment have only
  rows behind them whose links they hold: if the grown table is a chain, the rows of that
  moment are its beginning, hence were a chain themselves. So what is broken stays broken,
  and an answer that is no chain was read from a table that is none.
* `SerialChainVerifies`, `SerialAppendsAtEnd`: one writer and a
  clock that advances between entries. `ChainIntact` alone is not inductive: the invariant
  adds that the draft's timestamp lies after every row and that its link is to the last
  row. The run `audit_race` shows that
  the first assumption cannot be dropped; of the second a clock set back does.
* `SerialImplementsAppendLog`, under the same two assumptions: a committed row sorts after
  all others, so the sorted table with it is the sorted table before, and it
  (`InOrderAppend`), which is a step of `AppendLog`; every other step is a stutter.
* `RevocationIsForever` (any number of racing stores): the invariant adds that a session
  about to write loaded a row that was not revoked, and that a loaded row is still there.
  Then `revoked = 0` is no net change, and the UPDATE leaves the column alone.
* `SerialVaultIsABook`, `SerialPayloadBoundsHold`: one store at a time. The invariant adds
  that the columns repeat the payload and that what the session loaded is the present row
  but for a revocation; each step of `Vault` then is a step of `MandateBook` or a stutter.
* `RevocationStopsMoney`, `OrdersPassTheGates`, `TrailReconciles`, `CheckoutTyped` (any
  number of requests, sessions, Mandates; crashes and Audit faults included). One inductive
  invariant, per request: a late one has a revoked Mandate, which stays revoked by the
  Vault's lemma, so `validate_mandate` stops it before the policy (`Late`); past the policy
  the gates have passed, the row `validate_mandate` was shown is one it lets pass (`Cleared`), and the terms read are those that were allowed (`Gated`); a first
  attempt has no order behind it and a second one is marked (`Tries`); what is written in
  the trail is what was decided, and it accounts for the orders (`Traced`).
* `CheckoutIsAMoneyAction`: every step of `Checkout` is a step of `MoneyAction` or a
  stutter, under that invariant. `Receive` is `Arrive`, the two policy reads `Authorise`,
  `Refuse` or, on a Catalog entry that cannot be read, `Fail`, an attempt `Execute`, `Crash` a `Fail` of all live requests, and the Vault's
  steps `Revoke`.
* `EventsApplyOnce`, `DuplicatesHaveAClaimant`, `HookTyped`, `EventsWriteThePayment` (any
  number of deliveries, events, operators). The invariant of `Idempotency` carries over and
  is joined by: a claimed key has the delivery that claimed it (`Claimants`), a delivery past
  its claim holds that of the event it carries (`Carries`, `Answers2xx`), and the session it
  is about to commit loaded its Mandate's row and writes the event over the payload it read
  (`Writes`). The flush then writes, of every column, that value or leaves the present one.
* `StatusHasItsRow` (`TrailMatchesStatus`; assumes `Session = Caller`, nobody but the
  webhook stores, as in the run: an operator's store would reset the status). The invariant
  joins to the one above: a status has a delivery that wrote it and has its row, is about to
  write it, or failed (`HasItsRow`); a delivery that wrote, or that loaded a Mandate already paid
  for, leaves it paid for (`Backed`). The latter matters where the flush finds the payload
  it writes equal to the one it loaded and leaves the column: another delivery's event
  then stands there, with that delivery's row.
* `WebhookInGateway`, `CheckoutInGateway`: the composed gateway, seen through the variables
  of either part, is that part: no request writes a Mandate or a claim, and each step a
  delivery takes in the Vault is one an operator's session may take. Hence what is proved
  of the parts holds of the whole: `RevocationStopsMoneyInGateway`, `GatewayRevokedForever`,
  `EventsWriteThePaymentInGateway`, `MoneyActionInGateway`, `GatewayVaultTyped`.
* `MarkClaimsOnce`, `MarkFalseIsDuplicate`: a call that answered has its event in the
  table, so no later insert of it commits.
* `RegistrationsCount`: the key an Agent has now is always among those a call under way has
  seen verify; a flush that writes no key has read the very key it was to write.
* `LoopIsPolicy`, `DiscountBounded` (any Catalog, carts of any length): the loop invariant
  is that the lines before `line` are listed at the price they quote, and that the
  allowance is the sum of what they grant (`Looped`); at the end that sum is the fold
  `MaxDiscount` (`MaxDiscountAdds`). A merchant's entry that `ValidationError` meets is met
  on every line or on none (`RaisesOnAnyLine`), so the loop raises where `EvaluateProposal`
  says "raise", whatever was decided of earlier lines. Each line's floor loses less than a paisa (`Rounding`).
* `FirewallIsIdempotent` (`PassedIsClean`): what the firewall lets pass it would let pass
  again, unchanged, for JSON of any depth. It has three layers. The two walks are recursive
  functions, so first they must exist: one walk of a value asks only for its parts
  (`StepsAreLocal`), solutions below a depth agree and extend to the next
  (`SolutionsAgree`, `SolutionBelow`), and together they are one (`BothExist`); only then
  may a proof unfold `Walk` and `Sanitized` (`WalksRecur`). Of a text: what `_strip_zw`
  leaves has no invisible character, and such a text it leaves alone (`CleanText`), so the
  phrases searched for after cleaning are those searched for before. Of a value: if its
  parts stay clean, so does it (`CleanLevel`), and a value of least depth that does not has
  only parts that do (`CleanPasses`). Nothing depends on which phrases are refused. It does
  depend on the firewall searching the cleaned text: with the raw one (`PoisonedRaw`) the
  run finds an envelope that is refused the second time.
* `RequestsOnlyAdvance`, `DeliveriesOnlyAdvance` (`RequestsAdvance`, `DeliveriesAdvance`;
  any number of requests, deliveries and attempts of `mark`): a measure, the awaits still
  ahead, falls with every change of a request or a delivery, its orders, claim and Audit
  row included, so neither the retry nor `mark`'s loop can go round again, and nothing
  touches what was answered. For `mark` the invariant of deliveries is joined by: a call of
  `mark` is under way in its delivery only, and attempts are counted (`AwaitedMark`). This
  is the safety half of `RequestsEnd` and `DeliveriesEnd`: at most 8, and at most
  7 + 2 * `MarkTries`, changes. `RequestsOnlyAdvanceInGateway` and
  `DeliveriesOnlyAdvanceInGateway` say it of the composed process.
* `ParsedWhole`, `GateIsTheStages` (any envelope, any phrases): by cases of
  the early returns of `parse_envelope` and of what its fields may be; the invariant is that
  the parser is given what the firewall made of an envelope it did not refuse.
* `QuotesAreKept`: the first entry of a SKU is found alike by the policy, by `get_item` and
  by who reads the listing. It assumes that no merchant is named "": `tools/call` takes that
  name for none, while the routes and the policy would find it.
* `AuditTyped`, `VaultTyped`, `CheckoutTyped`, `HookTyped`, `DecisionTyped`: the type
  invariants.

Folds and sorted sequences. Where a property rests on a fold, the proof unrolls the
recursion inside it over the sets `1..k` and shows that it has a solution
(`IterationExists`, `AddsExists`); all inductions take a least counterexample among the
naturals, because the provers cannot instantiate an induction theorem. The sorted table is
`InOrder`, a choice among its orderings, because the community operator recurs.

Only model-checked: liveness (`RequestsEnd`, `DeliveriesEnd`), for which the prover has
neither `ENABLED` nor the fairness rules: that a measure falls with every step is proved,
that a step is taken is not. Every other property of a run that holds is a theorem. What
the `violation` runs refute is not proved either way.

## Not modelled, and why

* `get_chain` (a filtered read), `CatalogService.search` and `is_denied` (no caller), the
  loading of the Catalog file, MCP's `initialize` and `tools/list` (constants), `/health`.
* API keys, configuration, dependency wiring: comparisons and cached singletons, no protocol
  between actors. `utils/crypto.py`: key generation and JWT calls into libraries; `Registry`
  takes `verify_jwt` as "signed with the registered key". HMAC and JSON decoding of a
  webhook: `TurnAway` or `Deliver`.
* `capture_payment` (the gateway builds its executor with capture off); which texts are dark
  patterns, and more than two of the firewall's phrases.
* Schema creation: every model starts with its tables made. Workers that start together on
  an empty file race in `create_all`, before any request.

`revoke_mandate`, `add_to_denylist`, `register_agent` and `verify_signature` have no route:
operators and embedding code call them, and the rest of the code reacts to them.

## Plan

All components with a protocol between actors are modelled. What remains worth doing:

1. The three steps of `log_entry` inside `Gateway`: the order of two events' Audit rows
   against that of their stores, and a checkout row forked by a webhook row.
2. A model of several workers starting on an empty file.
