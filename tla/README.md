# A TLA+ model of wha

`wha` decides every few seconds whether an EV charger behind
[evcc](https://evcc.io) may charge from solar surplus. It listens to evcc over
MQTT, runs a pure decision engine, publishes a mode and a SoC limit back, keeps
a history in SQLite, serves a small dashboard, and updates itself through a
sidecar container. This directory holds TLA+ modules of its control logic, the
TLC configurations that model-check them, and TLAPS proofs of every safety
property the passing runs check. `PROJECT.json` maps every definition to the source lines it stands for.

## 1. Inventory

| Part (source) | State | Operations | What is hard |
|---|---|---|---|
| Decision engine (`controller/policy.go`, `state.go`) | none | `Decide`, `LimitSoCTarget` | priority of rules, two dwell timers and a SoC latch in one enum |
| Decision loop (`controller/controller.go`, `inputs.go`; `web/handlers.go`) | `ctrl`, FSM state, timers, last decision | `tick`, `SetOverride`, four setters, restart | a tick locks twice and requests run in between; expiry found on a copy |
| Actuation (`controller.go` `publishMode`, `publishLimitSoC`; `evcc/commands.go`) | last published mode and limit with times, previous connection | two publishes per tick, reconnect and online edges, republish cadence | a publish that timed out may still arrive; evcc or wha restart between ticks |
| evcc client and store (`evcc/client.go`, `evcc/state.go`) | snapshot, receipt times, online, connected | `onConnect`, `onConnectionLost`, `handleMessage`, `Apply` | callbacks on goroutines of their own, retained messages, last will, silence |
| Charge sessions (`controller.go` `trackSession`..., `store/sessions.go`) | `charge_sessions` rows, current id, energy | start, update, end, recover | failing store calls, death between two of them |
| Persistent settings (`controller.go` setters and loaders, `store/settings.go`) | `settings` table, memory | four setters, four loaders | unlocked database write, requests during loading, edited configuration |
| Software update (`updater/updater.go`, `web/handlers.go`, `scripts/updater/run.sh`) | cached check, request and status files, compose pin | `Check` over a paged registry, `Trigger`, the script's loop | two processes sharing two files, crashes of either; tags published while pages are read |
| Events, samples, retention (`controller.go` `recordEvent`, `recordSample`, `janitor`; `store/events.go`, `store/samples.go`; the queries in `web/handlers.go`) | two append-only tables, the janitor's ticker | inserts, prune, `/api/events`, `/api/history` | the prune boundary, three writers, limits that cut rows |
| Lifecycle (`app/app.go`, `web/server.go` `Start`/`Shutdown`, `store/db.go`, `store/migrate.go`) | goroutines, context, store, schema version | start, signal, failure, shutdown, migrate, kill, restart | goroutines nobody waits for; a signal at any moment; a kill inside a migration |
| Configuration (`config/config.go`) | none at run time | `Load`, `Validate` | what it admits is what the loop must cope with |
| Status view (`controller.go` `Status`, `web/dto.go`) | none | `newStatusVM` | shows settings of now beside a decision of the last tick |
| Rendering, setup pages, service worker, i18n, install scripts | none | rendering, lookup | — |

How they interact: paho callbacks fill the store of latest values; a tick takes
a snapshot of it and of the operator's settings (`ctrl`), decides, stores the
decision, publishes through the client, and tracks the session in the database.
Web handlers change `ctrl` (and the settings table) at any time. The sidecar
replaces the whole process.

What makes each part correct:

* engine and loop: charging starts after exactly the start dwell and stops for
  low surplus after exactly the stop dwell; the SoC cap latches; a lifted limit
  or an override never outlives its request, and never loses to an older one;
* actuation: evcc ends up doing what was decided, whatever got lost or late;
* evcc store: silence is stale, a recovery is noticed;
* sessions: history is never rewritten and energy is counted once;
* settings: what is in use was stored, is valid, belongs to its profile and
  survives a restart;
* update: the newest release is found, applied once, never backwards, with a
  true status and an answer, one update at a time;
* history: only old rows go, and they do go; the audit log is the history of the
  state machine; a query has no holes;
* lifecycle: the store is complete when it is handed out and outlives the loop;
  a failure or a signal ends the process;
* status: the cap it shows is the cap evcc is told to enforce.

## 2. Modules

| Module | Models | Correspondence |
|---|---|---|
| `Policy` | the engine, as operators | one operator per Go helper, `Decide` in the order of its branches; `ConfigValid` is what `Config.Validate` guarantees |
| `DecisionLoop` | the loop racing the operator | `TickRead` and `TickCommit` are the two critical sections of `tick`; `SetOverride`, `SetChargePower`, `SetAutoProfile`, `SetStartThreshold`, `SetTargetSoC` the memory half of the requests; `Elapse` the ticker with its channel of one; `Restart`; `Status` is what the dashboard is given |
| `Actuation` | publishing | `TickBegin` computes the edges, `PublishMode` and `PublishLimit` end acknowledged, timed out (the message may still arrive) or failed; `Connect`, `ConnectionLost`, `SeeStatus` are the callbacks; broker and evcc are external |
| `EvccStore` | callbacks and freshness | a callback is a record in `callbacks`, in the order started; `ReadClock`, `ApplyMetric`, `ApplyStatus`, `OnConnect`, `Subscribe`, `OnConnectionLost` are their steps; `Stale` is the verdict of `InputsFromSnapshot` |
| `Sessions`, `SessionLog` | session tracking, and the log the table promises to be | `TrackEdge`, `TrackTotals`, `Recover`, `Crash`; `Sessions` implements `SessionLog` (`LogSpec`) |
| `Settings` | the persistent settings | `Begin` validates, `Persist` writes the table, `Apply` memory; `LoadRead` and `LoadApply` a start; `Restart` may find another stop threshold configured |
| `Updater`, `UpdateJob` | check and handshake, and the job the status promises | `StartCheck`, `FetchPage`, `FetchFails`, `StoreCheck`, `Trigger` on wha's side, with `Higher`, `MaxSemver` and `NextLink` for `compareSemver`, `maxSemver` and `nextLink`; `ReadRequest`, `Consume`, `BeginApply`, `Pin`, `Pull`, `Up`, `Done`, `Fail` the script's lines; `Updater` implements `UpdateJob` (`JobSpec`) |
| `History` | events, samples, retention, queries | `Decide`, `RecordEvent`, `RecordCommand`, `RecordSample` are a tick in the order of `tick`; `Operate` a request's event; `Fire`, `PruneSamples`, `PruneEvents` the janitor; `Samples`, `Clamped`, `RecentEvents` the queries, evaluated in every state |
| `Lifecycle` | the process | `MarkDirty`, `RunScript`, `MarkClean`, `Open` are `store.Open`; one action per step of a goroutine that the order of starting and stopping depends on; `Listen`, `Shutdown`, `ServeReturns` the web framework's contract; `Close`, `Exit`, `Kill`, `Restart` |

Each component `X` has its theorems in `X_proofs`: `DecisionLoop_proofs`,
`Actuation_proofs`, `EvccStore_proofs`, `Sessions_proofs`, `Settings_proofs`,
`Updater_proofs`, `History_proofs`, `Lifecycle_proofs`.

`MC...` modules give TLC small sets of inputs. `DecisionLoop` composes `Policy`;
the other modules are separate because they share only narrow interfaces, which
each names: `Actuation` takes any decision that is off when broker or evcc is
seen gone (which is what `Policy` decides on stale data), `Settings` takes over
where `DecisionLoop`'s setters change memory, `EvccStore` yields the `stale`
flag of a reading, `History` takes any sequence of states a loop may go
through, and `Lifecycle` says when a `Restart` of the others may come.

Definitions whose name contains `Wrong` are faulty variants of the definition
that follows them: the slips the properties are meant to catch. No
specification uses them; `PROJECT.json` pairs each with the property that fails
when it is put in place of the right one.

Abstractions, by module. *Policy*: power is an integer (NaN and infinities,
which `ParseFloat` accepts, are left out); reasons are reduced to their codes.
*DecisionLoop*: time counts decision intervals from 1, 0 is the zero
`time.Time`; reading clock and snapshot is part of the first critical section,
since nothing the requests write is read there. *Sessions*: energy counts ticks
of charging; average, peak and reasons are left out; rows are ordered by
insertion, where `OpenSession` sorts by `started_at`, so a wall clock set back
is not covered. *Settings*: the configuration is its stop threshold. *Updater*:
a tag is the tuple of its numbers, `<<0>>` any tag that is no X.Y.Z; the registry
lists tags in a fixed order of texts, which is not the order of versions; the
token, a page or its decoding fail in one way; a request file is one `Trigger`
wrote, so the script's refusal of a malformed version does not occur.
*History*: a row is its time and what the log says of the state machine; the
measured values are left out; the clock is not set back. *Lifecycle*: what a
component does while it runs is left to the other modules; the migration
library and the web framework are modelled by how they are used; a listener
fails when it starts or not at all; a signal during a migration is taken after
the step it interrupts.

## 3. Runs

Passing runs. All but `act_faults` set `CHECK_DEADLOCK FALSE`: clocks, table
sizes, requests or turns are bounded, and the model really stops when the bound
is used up. A run's actions include restarts wherever the code can die.

Some invariants are conjunctions of named parts, each defined and explained in
its module: `PublishedInv` is `TypeOK` and `ConfirmedHolds`; `RowInv` is `TypeOK`,
`OwnsNewestRow` and `OneOpenRow`; `ValueInv` is `TypeOK` and `StartAboveStop`;
`FreshInv` is `TypeOK` and `SilenceIsStale`; `StatusInv` is `TypeOK`, `DoneIsTrue`
and `PinIsReported`; `SchemaInv` is `TypeOK` and `SchemaIsCurrent`;
`RetentionInv` is `TypeOK` and `YoungRowsAreKept`.

**`loop_dwell`** — `TypeOK`, `TimersAreObservedRuns`, `StartsOnlyAfterDwell`,
`StartsPromptly`, `StopsOnlyAfterDwell`. Thresholds as in `config.Default`; both dwells are 2 ticks, eight ticks, eight kinds of
reading (sun, cloud, dark, exporting house battery, stale, unplugged, at the
cap, between cap and resume level) and any two of: override on or off, one of
three profiles (or an unknown one), one of three thresholds (two refused), a
charge power, a restart. A dwell of 2 has a first, a middle and a last tick, so
an interruption can fall on each; eight ticks hold a complete start dwell, a
complete stop dwell and the interruption of either, and two disturbances both
set and end something inside a dwell.

**`loop_control`** — `CapLatchHolds`, `BypassOnlyWithForceOn`,
`CapRaisedOnlyOnRequest`, `LiveOverrideSurvives`, `OverrideEnds`,
`LiftedLimitEnds`, `ShownCapIsEnforced`. Readings around the cap and the resume
level, five override bodies (with and without expiry and bypass, bypass amounts below the cap and
absent), three profiles, three targets (one refused), three disturbances and a
clock of five. Three disturbances are an override, its replacement between the
two critical sections of the tick that finds the first expired, and one more;
or two profile switches around a target. Requests come before the last tick of
the clock, so that a tick follows each of them.

**`act_faults`** — `PublishedInv`, `SeenEdgeReasserts`,
`HealsWithinRepublish`, `EvccConverges`. All faults at once: publish timeouts
and errors, broker losses, evcc restarts with any mode and limit, crashes of
wha. Two modes, limits 80 and 100, a republish interval of two ticks, at most
two messages under way. Two messages are enough to have an older one overtake
the belief about a newer one; an interval of two distinguishes "at the next
tick" from "at the cadence". `calm` marks the moment after which nothing fails
and the decision stands.

**`sessions_faults`** — `RowInv`, `EnergyIsAccounted`, `LogSpec`. Every store
call may fail, any number of times, and the process may die between any two; four rows, five ticks of charging,
three crashes. `failed` remembers which calls failed, for the properties that
are only promised of a store that works.

**`settings_persist`** — `ValueInv`, `ShownWasStored`,
`SettingsDoNotLeak`, `SettingsSurviveRestart`. Two handlers, three requests per
start, two starts, all four settings, a stop threshold that may differ between
the starts so that a stored threshold of 200 becomes invalid, failing reads and
writes, requests during the loading. `excused` remembers that a request
overlapped another or the loading, or that a read failed.

**`evcc_feed`** — `FreshInv`, `OutageEndsInFailSafe`, `Recovers`. The
connection, evcc and a meter come and go, subscriptions fail, callbacks finish in any order. A stale timeout of one time unit, two callbacks
under way and three such turns: two callbacks are enough for one to overtake the
other, and three turns lose, regain and lose again, or lose the connection and
evcc together. A time unit in which evcc misses a publication or a callback
does not finish is a turn too.

**`upd_handshake`** — `StatusInv`, `AppliedOnce`,
`NewestIsFound`, `NeverDowngrades`, `TakenIsAnswered`, `JobSpec`. Two checks at
once over pages of two tags, three releases (listed as 1.10.0, 1.9.0, 2.0.0, the
first running from 1.9.0) and a tag that is no release, two requests, two crashes
of the script or of wha at any step. Four tags on pages of two make a second page
while tags are still published; 1.10.0 before 1.9.0 tells numbers from texts; two
requests are a request and its replacement or successor.

**`life_shutdown`** — `SchemaInv`, `StoreOutlivesLoop`,
`FailureStopsAll`, `StopsOnceListening`. Two migrations, as the repository has, a
database at any of their versions, a signal at any moment, a listener that fails,
a kill anywhere and two restarts: one to find what a kill left, one more after
that.

**`hist_retention`** — `RetentionInv`, `OldRowsGo`,
`AuditTrailIsComplete`, `HistoryHasNoHoles`. Two states of the machine, a window
of one interval pruned every second, a clock of four, rows limited to two and
ranges to three units, ticks that overrun by one, and any two of: a failing
insert or prune, a slow tick, an event of an operator or a command, a crash. A
clock of four holds two prunings; a limit of two is exceeded by the rows of one window, and a range
of four by the clamp. `AuditTrailIsComplete` reads the positions in the answer of
`/api/events`: each change told starts where the next older one ended.

Runs that find a disagreement between code and documentation; each checks one
property that states what the documentation says:

| Run | Property | What TLC shows |
|---|---|---|
| `act_late_command` | `OffMeansOff` | how-it-works.md:11 says stale data and the rest "immediately force the wallbox to stop charging"; a "now" whose publish timed out but arrived is unknown to the loop, and the return to "off" is no change to publish until the cadence |
| `evcc_overtaken` | `AlwaysRecovers` | how-it-works.md:21 says automatic control resumes when a broker disconnect clears; a connection-lost callback (`client.go:98`) that runs after the reconnect's `onConnect` leaves the store disconnected for good. evcc runs throughout and subscriptions succeed; three turns connect, lose and regain the connection |
| `upd_lost` | `RequestIsAnswered` | updating.md:12 says the sidecar pulls the version chosen; a request written between the script's read and its `rm` is removed unread |

### Fairness

* `DecisionLoop`: the ticker fires and the loop serves it; every operation of a
  tick is bounded (a publish gives up after three seconds). Requests are never
  fair. The clock is bounded, so an override that expires does so within it.
* `Actuation`: ticks and both publishes go on, paho reconnects by itself,
  messages accepted are delivered, the broker sends the retained status, an
  evcc that is down comes up. Faults are never fair, and stop at `Calm`.
* `EvccStore`: goroutines run, the broker delivers retained messages, evcc
  publishes every interval, time passes. Turns of the world are not fair.
* `Updater`: the script's loop goes on (compose restarts the container).
  Nobody is obliged to check or to request. `UpdateJob` asks for as much: a job
  that is not abandoned ends.
* `Lifecycle`: goroutines run; a publish gives up after three seconds, a request
  to the registry after ten, `Shutdown` after five (nothing waits for it). `LoopStops` is strongly fair:
  Go's `select` chooses at random among what is ready, so a due tick does not win
  over the cancelled context for ever. Signals, kills, restarts, the janitor and
  the connection are not fair, and nothing needs them.
* `Sessions`, `Settings` and `History` state safety only and assume none.

## 4. Proofs

Every safety property of the passing runs is a theorem: every invariant, every
action property and both refinements, the second without its fairness. The
bounds on clocks, rows, requests, crashes and disturbances are constants, so a
theorem holds for any of them, and so does it for any number of profiles,
handlers, callbacks under way, migrations, tags and rows.

| Module | Theorems | For every |
|---|---|---|
| `DecisionLoop_proofs` | `TypeCorrect`, `TimersMatch`, `TimersAreRuns`, `CapLatch`, `StartDwellRespected`, `StartIsPrompt`, `StopDwellRespected`, `CapRaisedOnRequest`, `ShownCapEnforced`, `OverrideSurvives`, `BypassIsForceOn` | configuration `Validate` admits, readings, requests |
| `Actuation_proofs` | `PublishedHolds`, `EdgeReasserts`, `RepublishHeals` | republish interval, decisions, faults |
| `EvccStore_proofs` | `SilenceIsNoticed` | stale timeout, callbacks in any order |
| `Sessions_proofs` | `RowsAreOwned`, `SessionsImplementLog`, `EnergyAccounted` | failing store calls, number of sessions |
| `Settings_proofs` | `InUseIsValid`, `ReportedWasStored`, `ProfilesKeepTheirOwn`, `RestartRestores` | latch profiles, handlers, configurations of the starts |
| `Updater_proofs` | `StatusIsTrue`, `RequestAppliedOnce`, `NewestFound`, `VersionOnlyGrows`, `UpdateIsOneJob` | tags in any order, page size, concurrent checks |
| `History_proofs` | `YoungRowsStay`, `OldRowsDoGo`, `NoHoles`, `AuditTrailLeadsHere` | window, interval, limits, failing calls, slow ticks |
| `Lifecycle_proofs` | `StoreIsCurrent`, `LoopFindsStoreOpen` | number of migrations, with or without the optional goroutines |

Each module has one inductive invariant `IInv` (a theorem of its own,
`...Invariant`), which TLC checked on the run's instance before it was proved.
Where the property is not inductive, `IInv` adds what it needs:

* **DecisionLoop.** The properties speak of a history (`hist`) computed from what
  the ticks observed, and of nothing the controller stores. `IInv` is `TypeOK`,
  `TimersMatchState`, `TimersAreObservedRuns` and `CapLatchHolds`.
  `TimersAreObservedRuns` relates the start timer to the history only while
  charging is off and the stop timer only while it is on, so a step that changes
  from one to the other needs `TimersMatchState` (the other timer is zero). It
  relates `soc_reached` to the observed latch, which makes the engine's SoC rule
  the observed one (`CapRuleIsCapped`). `DecideByProfile` reduces a tick under
  automatic control below the cap to one of the dwell functions, `CommitRuns`
  does the step case by case; the dwell theorems follow from `IInv` and one
  step. `CapRaisedOnRequest` and `ShownCapEnforced` rest on `LimitCases`.
* **Actuation.** `ConfirmedHolds` is inductive with types; the cadence is not.
  `Settling` counts: since the last fault, mode and limit are each on their way
  already, or have not been published for as many ticks as were begun since;
  `SkipMode` and `SkipLimit` are possible only below the republish interval, so
  an interval of calm ticks leaves the first alternative.
* **EvccStore.** A receipt time travels from the clock through a callback's local
  variable into the store and may be overtaken on the way. At every stage it is
  no younger than the last receipt of its metric (`HeldNotYounger`,
  `StoredNotYounger`): an overtaken callback may put back an older time, never
  invent a younger one.
* **Sessions.** A new row is the only open one because the loop holds no id at a
  rising edge (`IdMeansCharging`) and, if no closing failed, no other row is open
  (`OnlyOwnOpen`). `EnergyAccounted` needs that replacing or adding a row changes
  the sum of the table by just that row's difference. The sum is a recursive
  function, and the lemmas about it are proved by induction, as a least
  counterexample in the naturals.
* **Settings.** A value is followed from a request (`InFlight`) to the table
  (`InTable`), from the table to what the loading holds (`InHand`) and to memory
  (`InMemory`); on each stage it is valid, was stored, and was asked for under
  its profile. For `RestartRestores`, while requests do not overlap (`Alone`), a
  setting differs from what a restart would bring only while it is still to be
  loaded or between table and memory (`Following`).
* **Updater.** A request is followed by its number (`BegunOnce`), the status
  through the script (`StatusTrue`), a check through the pages: the release it
  must not miss was found or is still to be listed, and the pages behind were
  full (`PagesCover`), whatever is published meanwhile. Versions on their way to
  the container do not decrease while checks do not overlap (`Ordered`), which
  rests on `Higher` being a strict order of lists of numbers.
* **History.** No row is from the future, the cut-off of a pruning stays the
  window before now as long as it lasts (`Timed`), what was pruned was old
  (`PrunedWasOld`). `LastPruned` says what the last complete pruning left and
  that no step adds a row behind its cut-off. The audit trail is an invariant of
  the log: the changes of this process form a chain (`Chained`), in the order of
  their times, and pruning takes a beginning of it (`InOrder`). That the queries
  return the log in order is a fact about sorting: ranks of distinct rows are
  distinct, so every rank below their number is some row's (`EveryRankIsTaken`,
  a pigeonhole argument), so `ByTime` lists each row once, sorted
  (`ByTimeSorts`).
* **Lifecycle.** A version not marked dirty tells the truth about the tables
  (`CleanIsTrue`); the store is open while anything uses it (`OnlyWhileOpen`).

The refinements are proved step by step: `SessionsImplementLog` maps every step
of the loop to a step of `SessionLog` or to a stutter; `UpdateIsOneJob` does the
same for `UpdateJob`.

### Assumptions

The constants' assumptions are named in each module, and TLC evaluates them in
every run: `ConfigValid` is what `Config.Validate` guarantees, `RequestsTyped`
that requests are of the fields' types; a republish interval is positive; tags are
lists of numbers, distinct, and fit the pages a check reads (`maxTagPages`); the
latch profiles are finitely many and none is the empty name; there is a first
start. One theorem has a hypothesis of its own: `OldRowsDoGo` needs that no tick
outlasts the retention window. A row carries the time its tick began, and a
longer tick would insert one behind the janitor. A tick is bounded by the publish
timeouts of three seconds and the window is meant in days; `Validate` does not
relate the two.

Power is an integer in the theorems as in the model; for NaN they would say
nothing.

### Only model-checked

* Every liveness property: `OverrideEnds`, `LiftedLimitEnds`, `EvccConverges`,
  `OutageEndsInFailSafe`, `Recovers`, `TakenIsAnswered`, `FailureStopsAll`,
  `StopsOnceListening`, and the fairness of `JobSpec`. Reasoning with fairness and
  `ENABLED` is beyond the prover. `RepublishHeals` is the safety half of
  `EvccConverges`: it bounds by ticks what the other promises in the end.
* The three violations, which are counterexamples.

## 5. Further observations

Seen while modelling; no run of their own.

* Force-on is decided above the SoC rule (`policy.go:132`), so under Charge now
  only evcc's limit stops at the cap; faq.md:5 says "via both wha's own logic
  and the evcc `limitSoc` backstop".
* A latch profile keeps a charging state it inherits from a force-on override
  or another profile, without dwell or threshold (`policy.go:191`); compare
  how-it-works.md:76.
* A lifted limit whose publish timed out but arrived is not taken back before
  the republish cadence; dashboard.md:118 says "immediately re-asserts".
* An edge forces one publish; if it fails and the value is unchanged the next
  tick does not repeat it, unlike the comment at `commands.go:11`.
* A connection lost and regained between two ticks shows no edge; compare
  how-it-works.md:40. The cadence heals it (`HealsWithinRepublish`).
* Recovery closes the newest open row only (`controller.go:322` says "any
  session"); rows left open by failed closes stay open.
* A request served while the settings load may be overwritten in memory by the
  value read before (`controller.go:493`).
* A failed subscription is not tried again until the next reconnect
  (`client.go:90`); the data stays stale, which is safe.
* Battery power is a term of the surplus but not checked for freshness
  (`inputs.go:29`, how-it-works.md:15); retained values count as received at the
  subscription (`client.go:107`).
* Overlapping checks may leave the older result as the latest and so allow a
  downgrade (`updater.go:168`); `Check` reuses a young result although api.md:145
  says it forces a re-check. A registry of more than `maxTagPages` pages is cut
  without a word (`updater.go:293`).
* A script that dies while applying leaves the status at "applying"
  (`run.sh:121`, `update.html:20`).
* `sed` exits 0 when the compose file has no tag to replace (`run.sh:73`): the
  old image is pulled and started, and the status says done.
* The SoC latch is the state `soc_reached` alone (`policy.go:163`): a stale tick,
  an override, an unplug or a restart forgets it, and charging may resume between
  `socResumeBelow` and the cap; README.md:262 says it "only resumes below".
* Two overlapping requests for one setting may write table and memory in opposite
  orders (`controller.go:466`), so that a restart changes the setting in use;
  compare dashboard.md:105.
* A signal that arrives before the web framework has registered its listener
  finds nothing to shut down: `Listen` then serves on and `Run` does not return
  until the process is killed (`app.go:91`, against `app.go:34`).
  `StopsOnceListening` is stated with that exception.
* A kill inside a migration may leave the database marked dirty, and every later
  start refuses it (`migrate.go:44`); a release older than the database refuses
  it too.
* A request still in flight at a shutdown may be cut when the process ends:
  `Listen` returns once its listener is closed, and nothing waits for `Shutdown`
  to drain (`app.go:89`); `Connect` may run after `Disconnect` (`app.go:72`); the last command before a
  shutdown may go unrecorded.
* A bypass target below the cap or above `socMax` is accepted and shown as asked
  for (`dto.go:314`), while the limit sent is clamped (`policy.go:69`).
  `ShownCapIsEnforced` speaks of the targets the slider offers.
* A latch target may be so low that `resumeBelow` is zero or less
  (`policy.go:159`): once reached, charging does not resume before an unplug.
* `/readyz`, `desiredMode` and `updatedAt` tell of the last tick, not of the
  moment (`controller.go:731`, `handlers.go:33`; compare api.md:50 and api.md:65);
  the mode is published before the limit.
* A week of history is more than `maxHistoryRows` when the decision interval is
  below about 12 s, and the newest samples are the ones left out
  (`samples.go:11`, `samples.go:55`).
* The janitor first prunes one `retentionInterval` after the start, so a process
  restarted more often never prunes (`controller.go:342`). An override's event is
  timed after the change and may be later than the state change it caused
  (`controller.go:444`).
* `ParseFloat` accepts NaN (`evcc/state.go:124`). A NaN surplus reads as not
  above the start threshold from idle, and as not below the stop threshold while
  charging, so that charging goes on. Nothing relates `staleTimeout` to
  `decisionInterval` (`config.go`).

## 6. Not modelled

* Loading the configuration from file, environment and flags: a pure merge done
  once by a library; what `Validate` guarantees is in the assumptions.
* Pragmas and the SQL text of migrations and statements.
* Templates, formatting, routing, setup pages, service worker and static files,
  internationalisation: stateless.
* Install scripts and deployment files, except the restart policy.
* The token request, the HTTP details of paging, the texts of statuses: each way
  a check fails is one action.
* IEEE arithmetic (see NaN above): power and thresholds are integers.

## 7. Plan

Done, in this order: `Policy`, `DecisionLoop` and its proofs, `Actuation`,
`EvccStore`, `Sessions` with `SessionLog`, `Settings`, `Updater` with
`UpdateJob`, `Lifecycle`, `History`; then the proofs of `Sessions`, `Lifecycle`,
`Updater`, `Settings`, `EvccStore`, `Actuation` and `History`.

Next, in the order of what they would say about the code:

* safety consequences of the liveness properties, as `RepublishHeals` is of
  `EvccConverges`: that an override's end is seen by the next tick, that nothing
  but a pending callback keeps a reading stale once data flow, that a process
  whose context is cancelled has in every state a step towards its end;
* the exceptions the invariants carry (`excused`, `failed`, `overlapped`,
  `unpruned`), each with the state behind it, to see how much weaker each can be
  made;
* lemmas on `Policy` that hold for any reading: the order of its rules, and that
  the limit sent is always one of the three documented.
