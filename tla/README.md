# A TLA+ model of the LFX invite service

This directory models `lfx-v2-invite-service`: a Go service that mints signed
invite links, stores one record per invite in a NATS JetStream KeyValue bucket,
asks an e-mail service to deliver the link, and records and announces the
acceptance when another service reports it. The modules are translated from the
code in `src/`; TLC checks them on small instances, and TLAPS proves the
safety properties of the service, of its queries, of a request, of an e-mail and of a
process for every instance.

- [The system](#the-system)
- [What is hard](#what-is-hard)
- [Modules](#modules)
- [How the model corresponds to the code](#how-the-model-corresponds-to-the-code)
- [Properties](#properties)
- [Runs and bounds](#runs-and-bounds)
- [Fairness](#fairness)
- [Where the documentation and the code part](#where-the-documentation-and-the-code-part)
- [Proofs](#proofs)
- [Not modelled](#not-modelled)
- [Plan](#plan)

## The system

| component | source | state it keeps | operations | correct when |
|---|---|---|---|---|
| Invite repository | `internal/infrastructure/nats/invite_repository.go` | the bucket: a key per UID, an index key per (folded e-mail, UID) | Create, GetByUID, GetByEmail, MarkAccepted, Delete | no update is lost, a deleted record stays deleted, the index and the records agree |
| Notification service | `internal/service/notification.go` | none beyond the request at hand | HandleSendInvite | no e-mail about an untracked invite, no record left by a failed send |
| Request mapping and model | `cmd/invite-api/service/request_mapping.go`, `internal/domain/model/`, `pkg/api/` | none | apiToModelRequest, the `Resolved*` methods | no field is lost, the structured form prevails |
| Acceptance service | `internal/service/acceptance.go` | none beyond the event at hand | HandleInviteAccepted | accepted on evidence only, by one user, announced at most once and truthfully |
| Read service | `internal/service/invite_read.go` | none | GetInvite, GetInvitesByEmail | complete and current answers, no partial ones |
| Link generator, token verifier | `internal/infrastructure/auth/` | the key pair | Generate, Verify | a token is good for one UID, one address and as long as its record |
| E-mail sender, templates | `internal/infrastructure/nats/email_sender.go`, `internal/infrastructure/smtp/` | none | SendNotification, rendering with fallbacks | an e-mail is sent although a template fails, and says the same in both parts |
| Subscriptions, server, `main` | `cmd/invite-api/` | four subscriptions, the server, the deferred functions | Start, stopAll, Close, run; one handler per subject | all subscriptions or none, nothing held on exit, released in order |
| NATS client | `internal/infrastructure/nats/client.go` | the connection | Request, Publish, QueueSubscribe, KeyValue, Close | - |
| Configuration | `cmd/invite-api/service/config.go` | none after the start | AppConfigFromEnv | a default destination for every environment |
| Telemetry | `internal/infrastructure/observability/` | three providers | SetupOTelSDK, its shutdown | what was set up is shut down |

The components interact in four ways. A requester sends a request on
`lfx.invite-service.send_invite` and may get a reply. The send handler writes the
record and its index key, then sends a request to the e-mail service and waits for
the reply; on an error it reads the record and deletes the two keys. Another
service publishes `lfx.invite.accepted`, for which the handler reads the record,
checks the token in the event against it, writes it back conditionally on the
revision it read, reads it again and publishes
`lfx.invite-service.invite_accepted`. Two queries read the bucket. The processes
of the deployment share nothing but the bucket; within a process each subscription
runs its handler for one message at a time, the four of them concurrently, on a
connection that `main` opens and closes without waiting for them.

## What is hard

Nothing in the service is locked. What keeps it correct is the order of its calls
and the revision on one of them. So the dangers are in what happens between two
calls:

- two replicas accept one invite, or one event is delivered twice: both read
  `pending`;
- the rollback of a send runs while the recipient, who has the e-mail, accepts;
- a call times out, and the write it was making is applied later, after the
  handler has returned, or after it has tried to undo the write;
- the process stops between two calls, with a write on its way; a start fails half
  way; the connection is closed under a handler;
- a read is served by a replica of the bucket that lags;
- custom claims are read from a Go map, in any order, and one may end the request;
- times are cut down to seconds in a token and not in a record;
- a key listing reads its keys while other handlers add and delete them, and is
  cut off by the deadline.

`PROJECT.json` lists them one by one, at their lines, with the properties that
are about them.

## Modules

| module | what it is |
|---|---|
| `InviteBucket` | the bucket as the repository relies on it: versions, revisions, tombstones, index keys, calls that fail or time out, writes that arrive late, lagging reads, the clock |
| `InviteTerms` | the life of an invite, shared by the two modules that issue one |
| `SendInvite` | the send_invite handler, call by call: Create with its rollback, the e-mail request, Delete, the reply |
| `AcceptInvite` | the invite.accepted handler, call by call: GetByUID, verification, the retry loop of MarkAccepted, the second read, the publication |
| `InviteService` | several replicas of the two handlers over one bucket, with crashes; the properties; the inductive invariants; the refinement mapping |
| `InviteLedger` | the abstract specification: what the service promises about an invite, without replicas, calls or revisions |
| `InviteReads` | the two query handlers, composed with the whole of `InviteService` |
| `InviteRequest` | one request with all its data: mapping, resolution, validation, custom claims, token, record, e-mail payload and answer, under the configuration |
| `InviteEmail` | what the e-mail sender makes of a payload: subject, two bodies, fallbacks, the request to the e-mail service |
| `ServerProcess` | the life of a process: telemetry, configuration, connection, bucket, four subscriptions, signal, deferred functions, kill |
| `Deployment` | `InviteService` with `ServerProcess`: when a replica can take a message, make a call, and stop |
| `MCInviteService`, `MCInviteReads`, `MCInviteRequest`, `MCInviteEmail`, `MCDeployment` | values and symmetries for TLC |
| `InviteServiceProofs` | types, the history of a record, the acceptance protocol, the refinement of the ledger |
| `InvitePromiseProofs` | what requesters were told, what was sent, what an acceptance rests on, the rollback |
| `InviteProgressProofs` | every call leaves a handler fewer to make; where nothing fails, no acceptance is forgotten |
| `InviteReadsProofs` | the answers of the queries |
| `InviteRequestProofs` | one request and its link |
| `InviteEmailProofs` | one e-mail: lines, caps, escapes and bodies of any length |
| `ServerProcessProofs` | a process and what it holds |
| `DeploymentProofs` | the deployment implements the service, and keeps its promises; whose handlers are at work |

`InviteService` EXTENDS `SendInvite` and `AcceptInvite`, which both EXTEND
`InviteBucket`, whose variables they share. `InviteReads` EXTENDS `InviteService`;
`Deployment` EXTENDS `InviteService` and `ServerProcess`. `InviteService`
instantiates `InviteLedger` with a refinement mapping; `Deployment` has the
variables of the service among its own, so that the property `ServiceSpec` is its
refinement. `InviteRequest` and `InviteEmail` each have state of their own: they look
inside two steps of `SendInvite`, which keeps of a request and an e-mail what
other handlers can tell apart.

## How the model corresponds to the code

**State.** `log[u]` is the history of the primary key of invite `u`: the sequence
of the versions written to it, a delete being the version `Tombstone`. The
revision that a Get returns, and that `MarkAccepted` passes to `Update`, is an
index into it. JetStream counts revisions over the whole bucket and not per key;
the code only compares revisions of one key for equality, which this preserves.
`index` is the set of index keys. `late` holds the requests whose caller has given
up and which the server may still handle, at any later time or never. `now` is the
clock; one unit of it is a day of `expiration_days`. `sendPc[r]`, `acceptPc[r]`
say which call the handlers of replica `r` make next. `issued[u]` is the record
that was built with `u` and stands for the token too, whose claims are its UID,
e-mail and expiry. `mail[u]` is what became of the e-mail. `told[u]` and
`published[u]` record what requesters and subscribers have been told.

**One action per call.** An action takes a handler from one call on the bucket, the
e-mail service or the requester to the next, with all the code in between. That is
where other handlers can interleave: a handler's local work is invisible to them.
Two small merges: `Load` and `MarkGet` read the record and then the clock in one
step. A record read earlier is as good as one read later for what follows, because
`MarkUpdate` is conditional on its revision; the expiry never changes.

**How a call ends.** `Acked`: handled and acknowledged. `Refused`: failed without
being sent. `TimedOut`: sent, and the deadline of the handler passed before the
acknowledgement; the write goes to `late`. The deadline is that of the whole
handler (`subscriptions.go:27-29`), so that the calls that follow a timeout
are refused: when the index write of Create times out, the delete that should undo
the record is attempted with an expired context and never sent, and `PutIndex`
answers at once. After an e-mail request timed out (10 s of its own) the handler has
20 s left, and the rollback runs normally.

**Crashes and shutdown.** `Crash(r)` ends both handlers of a replica at any point.
The writes they were making may or may not be on their way (`\E sent \in SUBSET
...`). To a handler, a shutdown is the same: `main.go:68-87` unsubscribes and starts
to drain the connection (`client.go:48-52`), waits for no handler, and nothing is
persisted but the bucket. `Deployment` shows that this is so: it has the shutdown as
the code has it, with handlers that go on meanwhile, and every step of it is one of
`InviteService`.

**Processes.** `stage[p]` is where `run` is; each stage may fail and enters the
deferred functions at the point that the code would. `providers`, `conn`, `held`
and `subs` are what the process has acquired. The connection is external: it is
made in the background (`RetryOnFailedConnect`), comes and goes, and is given up
without notice. The query handlers are left out of `Deployment`: they change no
state, and `InviteReads` has them against any service.

**Events.** `lfx.invite.accepted` is a plain subject: any UID and any user may
arrive, as often as one likes, at any replica, before or after the invite exists
(`Receive`). A token is the exception: the model takes a signature, issuer and
audience to be what they claim, and lets an event carry no token or the token of an
invite whose e-mail was delivered. Events that do not parse or that lack a field
change nothing and are not received.

**The e-mail service** is external. It delivers or refuses a queued message at any
time, also long after the handler gave up; its reply may be lost, late or garbled
whatever it did.

**A request.** In `InviteRequest` a text is a string that is copied, compared or
tested for being empty. What `mail.ParseAddress`, `url.Parse`, `TrimSpace`,
`encodeEmailForKey` and `len` make of it is given by constants, about which the
assumptions say what the properties need (an address that was parsed parses to
itself, or, with a quoted local part, not at all). The clock has ticks shorter than
a second, because a token's times are whole seconds and a record's expiry is not.
The loop over the custom claims has one action per entry, in any order. `Create`
and `SendNotification` are one step each, which succeeds or not.

**An e-mail** is made of bytes, in `InviteEmail`: a space, CR, LF, NUL, `<`, the two
halves of a two-byte character, and letters. The wording of a template is one byte
in a subject and absent from a body; a body is the sequence of what it fills in or
chooses. `Cap` is 8 where the code has 256, and names are chosen around it. Any set
of the three templates may fail.

**Bounds.** `MaxTime` bounds the clock; `UID` bounds the number of invites, since a
UID is minted once (UUIDs do not repeat). Everything else is bounded by the code:
`MaxAttempts` is `maxMarkAcceptedRetries`, 3 as in the code, except in `deployed`.

## Properties

Safety, in `InviteService`:

- `FailClosedPersist`: an e-mail has gone out only for an invite whose record and
  index key were written first; an invite answered `internal_error` has had none.
- `SuccessIsDurable`: an invite answered `ok` is stored, indexed and delivered, and
  no delete of it is pending anywhere.
- `AtMostOneAnnouncement`: one enriched event per invite at most.
- `AnnouncementCarriesWinner`: that event is about the acceptance that was stored.
- `AcceptedWithEvidence`: an accepted version rests on this invite's own delivered
  token, on the user the record names, and on an event received before the expiry.
- `WithdrawnStaysGone`: a deleted record is never written again.
- `FirstAcceptanceWins`: an acceptance is never replaced or undone while the record
  exists.
- `RollbackComplete`: over a bucket that answers, `email_dispatch_failed` means
  that neither key is left.
- `AcceptedIsAnnounced`: where nothing fails, an accepted invite is announced, or a
  handler is about to announce it.
- `DroppedMeansPending`: where nothing fails, a record becomes accepted only by the
  handler that goes on to publish it, so that an event that is dropped leaves it
  pending; where calls time out it is not so
  ([below](#where-the-documentation-and-the-code-part)).
- `HandlersAdvance`: each call of a handler leaves it fewer to make, whatever
  happens around it; a conflict uses up a turn of the retry loop.
- `LedgerSpec`: the service implements `InviteLedger`.
- `Inv`, `ServiceInv`: the inductive invariants that the proofs use.

Liveness: `HandlersReturn` (every handler ends), `AcceptanceAnnounced` (over a
bucket that answers, a stored acceptance is announced or withdrawn), and
`DeploymentSettles` (every start and every stop ends, and the handlers with it; its
safety half, `ProcessesAdvance`, counts the turns that are left of a start or a stop).

Queries, in `InviteReads`: `AcknowledgedIsReadable` (an answer without error
misses no invite whose requester had its `ok` before the query began) and
`AnswerIsCurrent` (an answer is genuine: it holds stored versions only, of what was
asked for; and none of them is older than what was stored when the query began);
`QueryInv` is why. `AnswerIsGenuine` is the part that does not need current reads.

One request, in `InviteRequest`: `OneInviteEverywhere` (link, record, e-mail and
answer are about one invite, whatever claims the requester adds),
`TokenLivesWithRecord` (the token verifies as long as the record can be accepted,
in spite of its coarser clock, and for no longer than the leeway after that),
`ClaimsOrderFree` (the outcome does not depend on the order of a map),
`DestinationAllowed`, `NothingLost` (every field of the contract arrives where it
belongs), `LookupFindsRecipient` (the index key is found under either spelling of the
address); `RequestInv` is why.

One e-mail, in `InviteEmail`: `SubjectIsOneLine`, `SubjectSurvivesFailure` (the
fallback makes the same subject although it sanitizes and caps in another order),
`HTMLIsEscaped`, `PartsAgree` (two templates in two languages say the same),
`LinkIsOffered`.

A process, in `ServerProcess`: `AllOrNothing` (four subscriptions or none),
`NothingLeaks` (nothing is held by a process that exits by itself),
`TeardownInOrder`; `ProcessInv` is why. In `Deployment`: `ServiceSpec`, and
`DeployInv`, which adds to `ProcessInv` that a handler at work belongs to the process
that is there, and to a subscription that process made (`HandlersAreOwned`).

Each component has one type invariant, the first conjunct of its inductive one
(`Inv`, `QueryInv`, `RequestInv`, `ProcessInv`; `EmailTypeOK` by itself). They say
more than types: a handler that is past its read holds the revision of a version
that exists.

## Runs and bounds

| run | instance | distinct states | question |
|---|---|---|---|
| `faulty` | 1 invite, 2 replicas, 2 users; failures, timeouts, late writes, crashes | 620 084 | which promises survive everything, and does the service implement the ledger? |
| `cross` | 2 invites to addresses that differ in case, 1 replica, 1 user; lives of 1 and 2 days | 1 782 788 | is the token of one invite good for another, and does a rollback hit its own index key? |
| `calm` | 1 invite, 2 replicas, 2 users; no failure of the bucket, an e-mail service that may be late | 274 776 | is an acceptance announced, and does a dropped event leave its invite pending? |
| `stale` | 1 invite, 1 replica, 2 users; lagging reads, failures, crashes | 113 271 | does the invariant hold without current reads, and does every handler come closer to its end with each call, and end? |
| `reads` | 2 invites, 2 addresses with one key, 1 replica; failures | 5 302 608 | are answers complete and current? |
| `request` | 1 UID, requests that vary in one respect at a time, 4 environments | 20 160 | does everything that one request makes agree? |
| `email` | all payloads of a small alphabet, every set of failing templates | 1 393 | is the e-mail well formed, whatever fails? |
| `deployed` | 1 process and replica, 1 invite, 1 user; failures, crashes, starts and stops without end | 288 870 | does a process hold and release what it should, are its handlers its own, and is the service in it the service? |
| `kept_forever`, `dropped`, `undelivered`, `untyped` | 1 invite, 1 replica; the requests of `request` | - | [see below](#where-the-documentation-and-the-code-part) |

Two replicas are enough for every pair of handlers that can meet: two acceptances,
or an acceptance and a rollback (a replica has one handler of each kind). The
proofs show that nothing changes with more. One invite is enough wherever handlers
meet only on the record they share; `cross` and `reads` have two, for what could go
wrong between invites: tokens, index keys, listings. `MaxTime` is 1, so that an
invite of one day expires during the run; `cross` takes the default and the
maximal life as well. Two users are there to tell which acceptance won. In `stale`,
one replica is enough to conflict: it reads behind its own past. `deployed` has one
process, since processes share nothing but the bucket, no clock and no retry, whose
interleavings the other runs have. `request` combines all values within one respect
(recipient, inviter, resource, link, claims) and keeps the others fixed, as the code
treats them apart; the claims are all maps of up to three of five keys, one reserved
always, one sometimes left out, one too long, with a limit of two. `calm` has no
failures, since `AcceptedIsAnnounced` and `DroppedMeansPending` are about a bucket that
answers; `stale` has the conflicts without a concurrent writer, which make the retry
loop turn. Symmetry is used for the sets of replicas, users and invites in runs without
liveness properties; the modules treat their elements alike.

Deadlock is checked everywhere and does not occur: the service always accepts
another event or request, and a process can always be launched.

## Fairness

`FairSpec` adds weak fairness of `SendStep(r)` and `AcceptStep(r)`: once a handler
has a message, its goroutine is scheduled, and each call it makes returns, at the
latest when its context expires (`subscriptions.go:48` and `:110`). There is no
fairness on arrivals, on the e-mail service, on late writes, or on the clock. With
`Faults` a call may also fail, so that a fair step is any of its endings.
`AcceptanceAnnounced` is checked without failures and crashes: the code retries
nothing, and a publication that fails is lost (`acceptance.go:184`).

`DeployFairness` adds weak fairness of the statements of `run` and of its return:
they are ordinary code; the shutdown of a provider has a deadline (`main.go:49`);
`KeyValue` is called without one (`client.go:148`, under `context.Background`,
`main.go:38`), and the client library gives such a call its own; Unsubscribe and
Close do not wait. There is no
fairness on launches, signals, kills or the connection, so that a process may serve
for ever without a connection, as the code does.

## Where the documentation and the code part

Four runs are expected to find a violation; each shows a sentence of the
repository that the code does not keep.

- `kept_forever`: `README.md:451` calls the bucket a permanent audit trail. When the
  e-mail was delivered and its reply came too late, the recipient may accept before
  the rollback, and the rollback deletes the accepted record
  (`notification.go:181`): its delete carries no revision.
- `dropped`: `acceptance.go:109-110` says that after an error the record remains
  pending. When the conditional write was applied and only its acknowledgement was
  late, the record is accepted, nobody publishes, and later events are skipped as
  duplicates. Without failures the sentence is true (`calm`, and the theorem
  `DroppedStaysPending`).
- `undelivered`: `README.md:97` explains `email_dispatch_failed` as an e-mail that
  could not be delivered. The reply may have been late; the recipient then holds a
  link to an invite that has been deleted.
- `untyped`: `README.md:37` and the comments of the field say that the type of a
  resource defaults to "resource". `invite.go:90` leaves it empty, the token has no
  `resource_type`, and the record none either.

The first three follow from one fact that the code cannot change alone: a call that
timed out may have taken effect.

Noticed on the way, and not worth a run: `README.md:35` marks `resource.uid` as
required, and `notification.go:74` onwards does not check it; the comment at
`notification.go:93` calls the default return URL known-good, and `config.go:43`
takes it from the environment unchecked; the comment at `templates.go:75` promises
a first name, which a name with a leading space is not cut to (`:77`); the
documentation of a graceful shutdown (`README.md:473`, `client.go:47`) does not say
that the process exits without waiting for the drain it starts (`client.go:50`,
`main.go:68-87`).

## Proofs

They hold for every number of replicas, processes, invites, addresses and
users, every request and configuration, every bound of the clock and of the
retries, with or without failures and crashes. They assume what the modules assume
of their constants: `None` is not one of the values it stands beside, bounds are
natural numbers, `EmailKey` maps addresses to keys, and the assumptions on parsers
named above. The proof of the deployment also assumes that it has failures and
crashes.

| module | theorem | says | assumes |
|---|---|---|---|
| `InviteServiceProofs` | `TypeCorrect` | `Spec => []TypeOK` | - |
| | `HistoryOnlyGrows` | stored versions are never changed or lost | - |
| | `Invariance` | `Spec => []Inv` | - |
| | `SingleAnnouncement` | `Spec => []AtMostOneAnnouncement` | - |
| | `WithdrawalIsFinal` | `Spec => WithdrawnStaysGone` | - |
| | `FirstAcceptanceIsKept` | `Spec => FirstAcceptanceWins` | - |
| | `WinnerIsAnnounced` | `Spec => []AnnouncementCarriesWinner` | `~StaleReads` |
| | `ImplementsLedger` | `Spec => LedgerSpec` | `~StaleReads` |
| `InvitePromiseProofs` | `PromisesInvariance` | `Spec => []PromiseInv` | - |
| | `NeverUntracked` | `Spec => []FailClosedPersist` | - |
| | `SuccessIsKept` | `Spec => []SuccessIsDurable` | - |
| | `EvidenceInvariance` | `Spec => []EvidenceInv` | - |
| | `AcceptanceIsEarned` | `Spec => []AcceptedWithEvidence` | - |
| | `ServiceInvariance` | `Spec => []ServiceInv` | - |
| | `RollbackIsComplete` | `Spec => []RollbackComplete` | `~Faults`, `~Crashes`, `~StaleReads` |
| `InviteProgressProofs` | `EveryCallCounts` | `Spec => HandlersAdvance` | - |
| | `DroppedStaysPending` | `Spec => DroppedMeansPending` | `~Faults`, `~Crashes` |
| | `AcceptanceIsAnnounced` | `Spec => []AcceptedIsAnnounced` | `~Faults`, `~Crashes`, `~StaleReads` |
| `InviteReadsProofs` | `QueriesTypeCorrect` | `ReadsSpec => [](ReadsTypeOK /\ QueryShape)` | - |
| | `AnswersAreGenuine` | `ReadsSpec => []AnswerIsGenuine` | - |
| | `QueriesInvariance` | `ReadsSpec => []QueryInv` | `~StaleReads` |
| | `AnswersAreComplete` | `ReadsSpec => []AcknowledgedIsReadable` | `~StaleReads` |
| | `AnswersAreCurrent` | `ReadsSpec => []AnswerIsCurrent` | `~StaleReads` |
| `InviteRequestProofs` | `RequestInvariance` | `Spec => []RequestInv` | - |
| | `LinkMatchesRecord` | `Spec => []OneInviteEverywhere` | - |
| | `LinkOutlivesNoRecord` | `Spec => []TokenLivesWithRecord` | - |
| | `ClaimsAreOrderFree` | `Spec => []ClaimsOrderFree` | - |
| | `DestinationsAllowed` | `Spec => []DestinationAllowed` | - |
| | `RequestsArriveWhole` | `Spec => []NothingLost` | - |
| | `RecipientsAreFound` | `Spec => []LookupFindsRecipient` | - |
| `InviteEmailProofs` | `EnvelopeFilled` | `Spec => []Filled`, the invariant behind the others | - |
| | `EmailTypeCorrect` | `Spec => []EmailTypeOK` | - |
| | `SubjectBounded` | `Spec => []SubjectIsOneLine` | - |
| | `SubjectSurvives` | `Spec => []SubjectSurvivesFailure` | - |
| | `HTMLEscaped` | `Spec => []HTMLIsEscaped` | - |
| | `BodiesAgree` | `Spec => []PartsAgree` | - |
| | `LinkOffered` | `Spec => []LinkIsOffered` | - |
| `ServerProcessProofs` | `ProcessInvariance` | `ProcessSpec => []ProcessInv` | - |
| | `SubscriptionsAreAllOrNothing`, `ProcessesLeakNothing`, `TeardownIsOrdered` | the three properties of a process | - |
| | `StartsAndStopsAreShort` | `ProcessSpec => ProcessesAdvance`: 17 turns at most | - |
| `DeploymentProofs` | `DeploymentImplementsService` | `DeploySpec => ServiceSpec` | - |
| | `DeploymentImplementsLedger` | `DeploySpec => LedgerSpec` | `~StaleReads` |
| | `DeploymentKeepsInv`, `DeploymentKeepsPromises`, `DeploymentKeepsAdvancing`, `DeploymentKeepsProcesses` | what is shown of the service and of a process holds in a deployment | - |
| | `HandlersStayWithTheirProcess` | `DeploySpec => []DeployInv` | - |

**The acceptance protocol.** At most one announcement is not inductive: a state
could have two handlers about to publish. `Inv` says why it never does.

1. `LogShape`: a history is `pending`, then perhaps `accepted`, then tombstones, or
   `pending` and tombstones. So a Get that returns a record which is not accepted
   returns revision 1, however stale the read, and every conditional write is on
   revision 1. It can succeed once.
2. `LateSafe` and `WireSafe`: a write that has left its handler, and may be applied
   at any time, also does what `LogShape` allows. This is where the danger is: a
   late put of a record would bring back a deleted invite. It cannot, because
   Create is the first write of a UID, the handler stops at its failure, and every
   delete comes after it was acknowledged.
3. `MintedOnce`: a UID has one handler, and while that handler is making its first
   put, the same put is not waiting elsewhere.
4. `OneAnnouncer`: the handler whose conditional write succeeded is the only one
   that will announce the invite, and it has not yet.
5. `WinnerAnnounced`: with current reads, what it reads back is the version it
   wrote, revision 2, or a tombstone, in which case it publishes nothing.

`StaleReads` matters only to 5: a lagging replica may serve the pending version
again, and forcing its status to accepted would publish an acceptance without a
user. The chart deploys the bucket with one replica by default, which is why
`faulty` checks the two properties without stale reads.

Each step of the proof has the form: the call leaves `LogStep(u)` for every invite
(`ApplySafe`, `CallEffect`), what is on its way stays safe (`LateStays`), UIDs stay
minted once (`MintedStays`), and the announcement stays single (`QuietStays`,
`AcceptingStays`, `PublishingStays`). The refinement reads `LogStep` as a step of
the ledger (`LedgerEffect`), with `OneLog` for the frame: a step changes one
history at most, or announces.

**The promises.** `ServiceInv` is layered on `Inv`, so that each layer's proof has
the one below as a fact and follows one question. `PromiseInv` follows deletes and
index keys: what each call of a send may rely on (`Sender`), what each answer and
e-mail rests on (`Promise`), and that a delete of an index key, handled at once or
late, comes after that of its record (`DropSafe`). With `WithdrawnStaysGone` this
is why a late `DropEntry` never takes the key of an invite that exists.
`EvidenceInv` follows the token: what an acceptance handler has established
(`Accepter`) stays true until its write is applied, at whatever time, because
issued records and delivered e-mails stay as they are. `RollbackInv` says that
nothing is on its way when nothing fails, so that both keys stay removed.

**The queries.** `QueryInv` says that each invite a lookup owes is ahead of it in
the listing, collected, or fetched (`QueryCovers`). The listing reads every key at a
time of its own; it misses none of these because an invite that was answered `ok` is
`Kept` for good, by `PromiseInv`. `IndexOwned` adds that a key leads to an invite of
its address, so that an answer holds none that was not asked for. With lagging reads
an answer may miss an invite or be out of date, and the code makes no attempt to
avoid it; what is left then (`QueryAsked`, `AnswersAreGenuine`) is that it holds
nothing that was never stored and nothing that was not asked for.

**Progress.** `SendCallsLeft` and `AcceptCallsLeft` count the calls that a handler has
before it at most, the turns of the retry loop included; `SendStepAdvances` and
`AcceptStepAdvances` show that each call lowers the count, and that nobody else's step
touches it. So what liveness adds is that a call returns, which is what the fairness
says. For `AcceptedIsAnnounced` two facts are needed: nothing is on its way when
nothing fails (`NothingLate`), so that a conditional write is applied in the step in
which its handler learns of it (`AcceptingStep`); and that handler reads back a
record that is there as long as the invite is (`AnnouncerGoesOn`), since a history
ends with its tombstones. Drop the first and the result is false, as `dropped` shows:
the write is applied after its handler has gone.

The stages of a process have a count too, `TurnsLeft`: a start that fails late has
the longest teardown before it, and still fewer turns than the start had left, so
that nothing but a launch or a signal raises the count (`TurnCounts`, `StepAdvances`).
It needs `ProcessInv`, which says how many providers and subscriptions there are to
undo at each stage.

**The e-mail.** What sanitizing, capping and escaping make of a line is said about
sequences of any length. `FlattenSeq`, which puts names into a line and lines into a
body, is a recursive function; the library's induction theorems take a predicate and
cannot be used, so the lemmas argue from the least counterexample, which exists
because the naturals are well-founded (`Least`, `Induction`). `SubjectSurvives` rests on
`SanitizedInside`: to sanitize and cap a piece before the line it goes into makes no
difference to the sanitized line. All of them follow from `EnvelopeFilled`: an envelope
is made of the payload, with the templates that did not fail.

**The rest.** In `RequestInv`, what the handler has made is a function of the
request, the minted link and the configuration; the loop has its own invariant
(`LoopInv`), from which the order of the claims has disappeared. `ProcessInv` says
what a process has at each stage. The deployment maps to the service by leaving the
process variables out, and the service to the ledger, so that the deployment maps to
the ledger in two steps; a call on a closed connection is one that is `Refused`, an
exit under a handler is a `Crash`. `HandlersAreOwned` needs `ProcessInv`: a live
subscription is one that is held (`LiveIsHeld`), and what is held only grows until the
process is gone (`HeldGrows`), when `Abandon` takes the handlers with it.

Only model-checked: liveness under fairness (`HandlersReturn`,
`AcceptanceAnnounced`, and `StartsAndStops` in `DeploymentSettles`), which is out of
the prover's reach. What the proofs leave to it is that each call returns and each
turn is taken.

## Not modelled

- Signing and verification of a signature, and the bytes of a token: assumed to do
  what they say. Parsers, escapers and encoders of the standard library are
  constants with assumptions, or modelled on the bytes that matter.
- The wording and the markup of the templates; redaction, logging and tracing;
  samplers and propagators of the telemetry.
- `ConsumeWithJetStream` and `IsReady` in the client, which nothing in the binary
  calls.
- The branch of `HandleSendInvite` without a store: the server always configures
  one.
- The fields that `domainToAPIInvite` copies one by one: an answer of a query is the
  version it was read from.
- Clock skew between processes: one clock for all, with `Leeway` for the tokens.
- The loss of published events on the way to subscribers: `published` is what left
  the service.
- Mocks, tests and the chart, whose replica counts and bucket settings are the
  constants of the model.

## Plan

Done, in this order: the bucket and the two writing handlers under failures, late
writes and crashes; the abstract specification and the refinement; the queries
against concurrent writers; the request and its link; the e-mail; the process and
the deployment; and the proofs of all their safety properties, of the e-mail's too.

Left:

1. The queries together with acceptances in one run: `reads` has no users, since
   the instance grows by two orders of magnitude. The proofs cover it.
2. `AcceptanceAnnounced` under failures, if the code comes to retry a publication.
