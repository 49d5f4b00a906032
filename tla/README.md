# LinkGuard firewall: a TLA+ model

LinkGuard is a Go program that runs a Linux router: a web panel edits firewall
groups, WAN links, domain routes, quotas and QoS in SQLite, and the program makes
nftables, `ip route`, `ip rule`, `tc`, networkd, Kea, Unbound and WireGuard follow.
It administers the machine it is reached through, remotely, so its hardest duty
is never to leave the operator locked out or the network on a dead link.

This directory models the program's services as state machines: the two that carry
that duty in most depth (**confirm-or-revert**, by which a change
that reaches the input chain goes back by itself, and **WAN health**, a link's
verdict, its marks and its routes), and beside them the other services that keep
state, run concurrently or must survive failures. TLC checks all of them on small
instances; TLAPS proves, for every instance, the safety properties of the first two, the
refinement of the abstract trial, and the safety properties of most of the other services
(section 5 lists both what is proved and what is not).
Paths below are relative to `src/`; `internal/` is left out where it is obvious.

1. [Inventory](#1-inventory)
2. [Modules](#2-modules-and-the-code-they-model)
3. [Runs](#3-runs)
4. [Fairness](#4-fairness)
5. [Proofs](#5-proofs)
6. [Divergences](#6-where-the-code-and-its-documentation-disagree)
7. [Left out](#7-what-is-not-modelled)
8. [Plan](#8-plan)

## 1. Inventory

### 1.1 How the parts interact

```
 panel (web/) --HTTP--> api/handlers --+--> firewallrules.Service --+--> storage (SQLite)
                                       |        (Service.mu)        +--> nftables.Service
                                       |                                 (reconcileMu) --> nft
 watchdog, 5 s ------------------------+                                               --> /etc/nftables.conf
 boot goroutine (provisionSystem) -----+
                                       |
 links.Monitor, a goroutine per link --+--> failover.Service   --> ip route (table of the link)
                                       +--> balancer.Service   --> ip route (main table), ip rule
                                       +--> domainrouting.Coordinator --> domtargets --> nft elements
                                       |
 timers and tickers -------------------+--> netsvc (kea, unbound), netif (networkd), qos and
   (30 s, 5 s, 5 min, 1 s, debounce)   |    stresstest (tc), ddns, backup, hostquota, linkquota, tsdb
 monitoring.Collector, 30 s -----------+--> alerts --> notify
                                       |
 handlers alone -----------------------+--> auth, wireguard, hosts, pktcapture, updater, secrets
```

One process, many goroutines, one SQLite file; the kernel (nftables, routes, qdiscs),
the daemons and a boot file keep state of their own. A restart of the process
loses its memory and keeps the kernel; a restart of the machine loads the kernel
from `/etc/nftables.conf` and starts everything from files and rows.

### 1.2 Components

| component | state | operations | what is hard | what makes it correct |
|---|---|---|---|---|
| confirm-or-revert (`firewallrules`) | one pending row: id, snapshot, applied state, reverting | ApplyGuarded, ConfirmPending, RevertPending, DiscardWindow, watchdog, RevertPendingOnBoot | two mutexes, a write under neither, six steps that may each fail, a crash at any of them | without a window the input rows are the accepted ones; kernel and boot file too; a window ends |
| revert merge (`revert_merge.go`) | none | mergeRevertTarget, renumber | three versions of two ordered tables | input comes back in order; other admins' rows stay |
| chains (`nftables/reconcile.go`, `policy.go`, `service.go`) | kernel ruleset, boot file, reconcileMu | ReconcileGroupsFrom, ReconcileNTPInput, ReconcileInputProtection, Persist, boot | refused commands, overlapping callers, a reboot in the middle | chains follow rows; forward never drops what it should pass |
| elements (`hosts`, handlers of blocks, forwards, rollback) | sets, maps, DNAT chain; flags and lists in SQLite; boot file and copy | BlockHost, UnblockHost, AddForward, Rollback, sighting, boot synchronisation | several stores changed one after the other, without a lock | what is marked is what is enforced, now and after a reboot |
| old rules (`firewallrules/service.go`) | latches, rows, the chain `user_rules` | ImportOnce, EnsureSystemGroups, MigrateRulesIntoDefaultGroup | three latched steps at a boot that serves the panel | no rule lost, order and force kept |
| link monitor (`links`) | counters per link in memory, status in SQLite | Run, checkAll, checkLink, advance | parallel checks, verdict in memory before the database, callbacks up to 30 s | verdicts need evidence; one alarm per episode; every link's real state is noticed |
| per-link failover (`failover`) | last change per link | HandleStatusChange | cooldown, `ip route` failures | mark leaves before route; route back before mark |
| balancer (`balancer`) | default route with weights, pending confirmation with a timer, rule of pinned hosts | Apply, Confirm, rollback, Rebuild, EnsureSteerRouting | a timer racing a confirmation, a Rebuild racing an Apply, restart | a trial route ends; the kernel converges to the plan; degraded never outweighs |
| domain targets (`domainrouting`, `domtargets`) | gate, list, index of addresses, batches under way, kernel elements | publish, learn, batch, apply, answer, provision | three goroutines, answers that come late | index and kernel agree; what is off is removed |
| DHCP and DNS (`keaunbound`, `netsvc` handlers) | one row, two files, a marker, two daemons, redirect rules | edit, debounced reload, button, boot guard | two daemons changed together, overlapping reloads | what is reported as served is served; a refusal cuts nobody off |
| interfaces (`netif`) | pending change, its file, what networkd loaded | ApplyChange, Confirm, Rollback, sweep | no lock, steps in two calls | an address goes back unless confirmed |
| quotas (`hostquota`, `linkquota`) | units in memory, usage by cycle, open alerts | sample, Flush, turn, Save, Delete | a flush racing a save, restarts, period boundary | a unit is counted once, in its cycle; alerts follow the cycle |
| QoS and stress test (`qos`, `stresstest`) | `tc` tree, operation lease, recovery lease, watchdog | apply, update, benchmark, disable, test, recover at boot | death between two commands, watchdog racing the test, another program's qdisc | every half state has a record of how to leave it |
| alerts (`alerts`, `monitoring`) | open alerts by key, verdicts in memory | fold a reading, raise, close, dismiss, clear at start | restarts, dismissals, a failing database | open alerts become the true ones; a recovery has its outage |
| accounts (`auth`, handlers of users and roles) | users, roles, tokens, attempts, second factor | login, change of accounts, roles, password, second factor | guards read before a write another request outdates | somebody administers; a token dies with its password |
| VPN (`wireguard`) | row, peers, secrets, groups, file, unit, interface | configure, add, rotate, revoke, apply, boot | eight stores, one after the other | no peer without its secret; "ok" means it runs |
| backup (`backup`, `backupcrypt`) | schedule, last run, files, attempts | run, download, restore | side-by-side restores, a run crossing saves | a backup holds what was saved; wrong passphrases bounded; a failure is shown |
| captures (`pktcapture`) | one capture in memory, files | start, stop, read back, sweep | a look outside the lock, files that outlive the process | what is offered exists; what nobody kept goes |
| self-update (`updater`) | spool, transient unit, installed and running version | check, download, verify, `dpkg` in a unit of its own, restart, alert | the package restarts the process that waits for it | only verified packages go in; a failure is told; the spool is emptied |
| secrets (`secrets`) | key file, sealed rows, legacy rows | open, generate, migrate, set, delete | falls between two writes, two processes opening | a credential is never lost in the move and always opens |
| dynamic DNS (`ddns`) | row, last result, published name | check, save | a save under a running check | what is shown as updated is published; the name follows the address |
| time series (`tsdb`) | buckets, rows, open intervals | Gauge, State, drain, Flush, start | closed buckets, roll-ups, restarts | a reading is counted once |
| reply routes (`routes`) | `ip rule`, tables | EnsureReplyRouting | repetition across restarts | one default in each link's table |
| AI advice, HTTP server, preparation, web panel | none the machine depends on | - | - | - |

`PROJECT.json` lists every component with its sources, status and what is left out
of it, and under `hazards` the places where a test would hardly reach a real
problem, with the properties that would show it.

## 2. Modules and the code they model

| module | models | followed by |
|---|---|---|
| `RowMerge` | the three-way merge of a revert, on rows | |
| `ConfirmWindow` | `firewallrules/confirm.go`, `apply_guarded.go`, the handlers' `mutation.Window`, the persist guard of `main.go`, a pass of `nftables/service.go` | `MCConfirmWindow` |
| `TrialChange` | the abstract promise: guarded configuration changes only inside a trial, a trial closes accepted or undone | |
| `ConfirmWindowProperties` | properties of both, with the refinement mapping | `MCConfirmWindow` |
| `ConfirmWindowProofs` | theorems: the database, the kernel and the boot file; the decisions and the refinement | |
| `GroupRuleMerge`, `GroupRuleMergeProperties` | `mergeRevertTarget` in full, on groups, rules and positions | `MCPanel` |
| `LinkHealth` | `linkState.advance`: three counters, a latch and the verdict | |
| `WanHealth`, `WanHealthProperties`, `WanHealthProofs` | monitor tick, `wireCallbacks`, `failover`, coordinator, provisioning, the form of a link | `MCWanHealth` |
| `BalancedRoute`, `SteerRouting` | `balancer/service.go`: default route; rule of pinned hosts | `MCUplinks` |
| `HealthAlerts` | `monitoring/healthchecks.go`, `driftchecks.go`, `alerts/service.go`, `notify` (what decides a call) | `MCMachine` |
| `NetServices` | `keaunbound/keaunbound.go`, `handlers/netsvc.go`, `autoapply.go`, `nftables/dnsguard.go` | `MCMachine` |
| `InterfaceTrial` | `netif/service.go`, `netif/networkd` | `MCMachine` |
| `ChainReconcile` | `nftables/reconcile.go`, `policy.go`, `service.go` (Persist, bootstrap), `handlers/ntp.go` | `MCMachine` |
| `HostQuota`, `LinkQuota` | `hostquota/hostquota.go`, `linkquota` | `MCMachine` |
| `DomainTargets` | `domtargets/indice.go`, `servico.go`, `domainrouting`, `nftables/dominios.go` | `MCMachine` |
| `QueueControl` | `qos/service.go`, `stresstest/service.go`, the link handlers' QoS | `MCMachine` |
| `DynamicName` | `ddns/service.go` | `MCMachine` |
| `MetricStore` | `tsdb/service.go`, `storage/repo_tsdb.go` | `MCMachine` |
| `Accounts` | `auth`, `handlers/users.go`, `roles.go`, `repo_rbac.go` | `MCPanel` |
| `VpnTunnel` | `wireguard`, `repo_wireguard.go`, `handlers/wireguard.go` | `MCPanel` |
| `RuleAdoption` | `firewallrules/service.go` (import and migration), the boot order of `main.go` | `MCPanel` |
| `BackupRestore` | `backup`, `backupcrypt` | `MCPanel` |
| `HostElements` | `hosts/service.go`, `handlers/portforward.go`, blocks, rollback, Persist | `MCPanel` |
| `PacketCapture` | `pktcapture/pktcapture.go` | `MCPanel` |
| `SelfUpdate` | `updater/updater.go`, `handlers/update.go` | `MCPanel` |
| `SecretVault` | `secrets`: key file, store, migration | `MCPanel` |
| `ServiceProofs`, `TunnelAdoptionProofs` | the invariants of `QueueControl`, `DomainTargets` and `MetricStore`, and of `VpnTunnel` and `RuleAdoption`, with the lemmas they rest on | |
| `UplinksProofs`, `MachineProofs`, `PanelProofs` | theorems about the services of `MCUplinks`, `MCMachine` and `MCPanel`; those of the queues, of the domains, of the time series, of the tunnel and of the old rules rest on the row above | |
| `FiniteNumbers` | lemmas on finite sets and greatest numbers that those proofs share | |

`ConfirmWindow` extends `RowMerge`, `WanHealth` extends `LinkHealth`, and the `MC` modules
extend the modules they follow. `MCMachine`, `MCPanel` and `MCUplinks` put independent services
side by side: the variable `focus` names the one a behaviour follows, the others
stay parked at an initial state, and `Of(p, inv)` says that an invariant is about
service `p`. The services do call one another, but at this level of detail they share no
variable: what one takes from another (an address that goes away, a foreign root
qdisc, a closing window) is an action of its environment. Interleaving two of them
would multiply the states and add no behaviour to either.

Operators marked `Mutant:` are not used by the specification: each is a plausible bug of
the definition after it, and substituting it must break the property that
`PROJECT.json` pairs it with.

**History and excuse variables.** Some promises of the code fail in corners that
section 6 describes. A property about such a promise says it *outside those corners*, and the
corner is a variable that one action sets when the code really enters it, never
an assumption that it does not happen: the corner is part of the behaviour, and the
property still speaks about everything else. Each is marked `history` in its
module and listed below with the module.

### 2.1 ConfirmWindow

State and code:

| variable | code |
|---|---|
| `db` | tables of groups and rules, and the settings of the chain policies and of WAN management |
| `pending` | the row of `pending_firewall_change` |
| `live`, `file` | the kernel's ruleset, `/etc/nftables.conf` |
| `crit` | who holds `Service.mu`, and at which step of `revert()` it is |
| `recon` | who holds `reconcileMu`, and what it read |
| `req`, `boot` | where each request and the boot goroutine are |
| `expired` | the ninety seconds have passed |
| `approved`, `everApproved`, `escaped` | history only: what operators accepted, and whether an input change was written outside its window |

Actions are runs of code between two points where another goroutine can interfere.
`ApplyGuarded` is `Begin` (handler read, lock-free guard), `ArmOpens`/`ArmRefused`
(`openWindowLocked`), `Write` (under no mutex), `Mark` (`MarkWindowApplied`),
`ReconLoad`/`ReconApply`/`ReconPersist`, then `Finish` (`FinishSettledRevert`),
`Abort` (`abortWindow`) or `Discard` (`DiscardWindow`). `revert()` is one action per
database or nft call: `RevertRead`, `RevertReplace`, `RevertSettings`, `RevertMark`,
the reconciliation, `RevertClear`, `CritPersist`. Operators `See` a window and act on
that id later; `WatchdogCheck` and `BootCheck` enter the same revert. `Restart` is a
restart of the process, or of the machine, at any point.

Abstractions:

- a group or rule is one row; only which contents reach the input chain and which
  contents differ is kept. `GroupRuleMerge` has the rest (positions, scopes, the
  group of a rule, and the dropping of a kept rule whose group is gone), and
  `ChainReconcile` has the commands of a pass;
- a reconciliation that fails leaves each row old, new or flushed. A pass that only
  skips rules nft refuses returns as a success in the code and is one here;
- the deadline is an instant that may fall at any moment after arming;
- dry runs change nothing and are left out; the settings are read together with
  the rows although the code reads them one after the other;
- with `PromptWrites` TRUE, no decision, deadline or boot pass falls between arming
  and writing. The code has no such guarantee: the gap is real (section 6). The
  constant makes it possible to ask what else could go wrong, and only
  `ConfirmWindow_prompt` sets it; the other runs use `~ escaped` as the premise where
  the gap matters.

### 2.2 GroupRuleMerge

The whole of `mergeRevertTarget` with `renumberGroups` and `renumberRules`, behind the
mutations of `handlers/groups.go` and `handlers/nftables.go`: create, edit, change of
scope, delete, reorder for groups; create, edit, move, delete, reorder for rules.
A behaviour is a snapshot, the window's own mutation (recorded or not), a windowless
mutation by another administrator, and one or two attempts at computing the target.

### 2.3 LinkHealth and WanHealth

| variable | code |
|---|---|
| `row` | enabled and status of each row of `links` |
| `memory` | the monitor's `map[int64]*linkState` |
| `check` | the goroutine `checkLink` of each link, down to its callbacks |
| `route` | links with a default route in their own table |
| `intent`, `ready` | what the coordinator has published, and its gate |
| `boot` | `provisionSystem`, from its reading of the links to Prepare or Hold |
| `cooling` | links within the failover cooldown |
| `form` | an open form of the panel, which holds the row as it was read |
| `streak`, `alarms` | history only: the last run of equal samples, and alarms raised in it |

`Tick` starts a check for every enabled link and waits for all of them. `Probe`
moves the state machine under the monitor's mutex; `Store` is `UpdateStatus`;
then the callback of `wireCallbacks`: `Withdraw`, `Failover` (or `FailoverSkipped`
in the cooldown), `Publish`, and `Alarm`. `SaveForm` writes the row the browser
holds, status included (`PUT` of the whole row), and goes on with the derived
routes and a publication. `TargetsChange` is anybody else who publishes.
The database calls and `ip route` may fail at each step (`StoreFails`,
`WithdrawFails`, `PublishFails`, `FailoverFails`, `BootFails`, `BootPublishFails`,
`SaveFails`, `FormRoutesFail`, `FormPublishFails`).

Abstractions: failover mode only (the balance mode is `BalancedRoute`); links have an interface
and a gateway, failover is enabled, and every link has an active domain target (the
restrictive case for the marks); `Sustain` is a constant, while the code reads the
setting at every check; counters stop at their thresholds, past which the code only
compares them with `>=`; creating, deleting and discovering links, and the QoS
lock of the handler, are left out. A failed read of the links on a tick starts no
check and is a stutter.

### 2.4 BalancedRoute and SteerRouting

The plan (`SelectNexthops`: demotion of degraded links, levelling when all are
degraded, scaling to the kernel's 256) is an operator. Around it, `Rebuild` (plan, take
`rebuildMu`, compare the signature, execute, sign) is run by the ticker and by the
link callbacks, `Apply` captures the route, arms a timer and executes with another
mutex, and `Confirm`, `Rollback`, the timer and `LeaveBalance` end the window.
Routes carry a tag `by` saying who installed them, which only the properties use.
`lastHand` says whether the operator or the reconcile decided the route last;
`settled` holds the Applies that were kept, or whose timer died with the process.
In `SteerRouting`, `EnsureSteerRouting` is three steps (add the rule, look, tell); the
text search for the rule is modelled by what it matches, other rules included.

### 2.5 The services of MCMachine

- **HealthAlerts**: a check folds a reading into a verdict (`Folded`), and a change of verdict is a
  call that reads the open alerts and then writes: `WatcherStep` one by one, with dismissals,
  the monitoring switch, restarts and a failing database in between. Four
  shapes of check (unit, drift, DNS path, updates) stand for all of the collector's.
  `mishap`: a write that failed, an alert dismissed, a thing forgotten, a row stuck open.
- **NetServices**: edits read and write the whole row; a reload (timer, button, VPN)
  renders, validates both files, writes, reloads kea and unbound, compares the listener
  with the marker, re-creates the DNS redirect and records. Reloads overlap; addresses
  disappear; the machine reboots. `overlapped`, `strayed` (unbound started on a file that the
  marker does not describe) and `forgotten` (a restart lost the timer).
- **InterfaceTrial**: `ApplyChange` in its four writes, `Confirm` in its two, and one restoration that
  the sweep and Rollback share. `torn`: a change cut before its row existed, and
  the other cuts its comment lists.
- **ChainReconcile**: a pass command by command (declare, flush, fill for input; one
  script for forward), under `reconcileMu`, called by edits, the NTP timer and
  input protection, with other writers calling Persist. `missed`, `ntpCrossed`.
- **HostQuota, LinkQuota**: a unit of traffic is named by the instant that measured
  it, so a double count and a lost unit are visible; flush is drain, write (row by row,
  each of which may fail), turn, evaluate. `gone`, `moved`, `blind`; `linkLost`, `linkBlind`.
- **DomainTargets**: the list and the index (`Reconcile`, `Revisto`), the loop (`DrenaAjustes`, `Descarrega`,
  `RecolocaRemocoes`), the writer (`AplicaLote`) and its answer (`LoteVolta`), DNS answers, trials,
  pruning, provisioning and restarts. What an operation does to the index is said one address at a
  time: the record it leaves, the writes and the removals it asks for. A deadline is an age. `astray` holds the
  addresses on which index and kernel may differ, for the five reasons the header names.
- **QueueControl**: each operation is a queue of `tc`, `ip` and database steps taken one
  at a time by the holder of the interface lock; any may fail, the process may die
  between any two; the boot pass, the stress test, its half and its watchdog use the
  same steps. `unrecorded`, `alien` (another program's root qdisc, which arrives
  only between operations).
- **DynamicName**: a check reads the row, asks the address, compares, publishes and
  records; a save writes the row and then clears the result. `nameExcuse`.
- **MetricStore**: one native and one longer step; a window is a number; the writer
  drains under the lock readings take, one bucket at a step (`at = "closes"`), rolls each into the longer
  one, and then, outside the lock, writes row by row; State closes and opens an interval in two writes. `damaged`
  holds the rows section 6 describes, `stateMishap` a failed or cut write of an interval.

### 2.6 The services of MCPanel

- **Accounts**: a request is admitted with its token, reads what its guard needs and writes
  one step later, so that two guards can pass side by side; logins read, then answer.
  `shrunk` (a role lost the permission: the code has no guard there), `crossed`, `redrafted`.
- **VpnTunnel**: the holder of `Service.mu` goes through file, `mv`, unit, restart and
  record; requests, user deletions, secrets (stored before the row that names them),
  groups and the boot pass interleave; a restart at any step. `vpnExcuse`.
- **RuleAdoption**: import, system groups, migration and retirement of the old chain, in the
  boot's order with its latches, while the panel edits and a restore may bring latches.
  `adoptExcuse`, `dismissed`, `wereOff`.
- **BackupRestore**: the ticker and the button share `mu`; a run reads the last result, the
  settings, leaves, records and tells; restores take the user's turn, try, count and
  apply. What is saved is a set of entries. `alertMishap`, `wrongTries`.
- **HostElements**: each call is its sequence of commands and writes (flag, physical address, IP,
  Persist's read and write, setting, copy); sightings move addresses; rollback
  loads an older ruleset. `blockLost`, `freeLost`, `fileLost`, `dnatLost` hold the reasons for a
  difference, and a property excuses only the store they name.
- **PacketCapture**: look, start, close, read back, keep or remove; the sweep, the hour, the
  restart. `strays` are files a failure or a restart left.
- **SelfUpdate**: the call, the download, the sum, the unit that outlives the process, the
  restart by the package, the deadline, the question to `dpkg`, the alert. `excused`, `entered`.
- **SecretVault**: two openers (panel and the notice of its fall) look for the key, create and
  write it; the move is read, seal, remove for each credential. `twoKeys`, `lastGiven`, `brought`.

## 3. Runs

Each run asks one question. States are distinct states; every run finishes within
about three minutes with two workers.

| run | instance | properties | states |
|---|---|---|---|
| `ConfirmWindow_protocol` | 2 requests, a forward and an input row, 2 mutations, any 1 of the 11 calls failing, 1 restart | `TypeOK`, `WindowProtectsDatabase`, `SnapshotLeadsBack`, `RevertingMeansRestored`, `DecisionsStand` | 2.9 M |
| `ConfirmWindow_kernel` | the same, faults without `reverting` and `nft` | `KernelFollows` | 1.1 M |
| `ConfirmWindow_liveness` | 1 mutation, faults `clear` and `nft`, fairness | `WindowsAndRequestsEnd` | 117 k |
| `ConfirmWindow_prompt` | `PromptWrites` | `ImplementsTrialChange` | 1.7 M |
| `WanHealth_link` | 1 link, thresholds 3 / 2, sustain 2, 1 form, 1 restart, 2 faults, fairness | `TypeOK`, `OneAlarmPerEpisode`, `VerdictNeedsEvidence`, `LinksSettle` | 653 k |
| `WanHealth_links` | 2 links, 1 restart, 2 provisioning passes | `MarkFollowsStatus`, `MarkLeavesBeforeRoute` | 986 k |
| `WanHealth_mark` | sustain 3 | `MarkHasRoute`: **violated** | - |
| `Uplinks` | 2 links, 1 Apply, 1 change, fault and restart; 2 marks and tables; fairness | `UplinksTypeOK`, `RouteIsSound`, `UplinksSettle` | 170 k |
| `BalancedRoute_twice` | 2 overlapping Applies, nothing fails | `UnconfirmedNeverStays`: **violated** | - |
| `Machine_safety` | the ten services of `MCMachine` | `MachineTypeOK`, `DaemonsServe`, `ChainsAreWhole`, `UsageIsAccounted`, `SeriesAreWhole`, `NameIsTrue`, `DomainsAreCarried`, `QueueIsAccounted`, `TrialIsTracked`, `RecoveryFollowsOutage` | 1.8 M |
| `Machine_live` | seven of them, smaller, with fairness | `RowsReachTheMachine`, `TrialsEnd`, `AlertsTellTheTruth` | 97 k |
| `Panel_safety` | the nine services of `MCPanel` | `PanelTypeOK`, `AccessIsKept`, `TunnelIsWhole`, `UpgradeKeepsRules`, `BackupKeepsItsWord`, `ElementsFollowRows`, `CapturesAreThere`, `UpdateIsHonest`, `SecretsHold`, `RevertMergesRows` | 2.4 M |

A property of `MCMachine`, `MCPanel` or `MCUplinks` is the conjunction of what its service
promises, each part a definition of the service's module with its own comment:

| property | parts |
|---|---|
| `DecisionsStand` | `OneWindowAtATime`, `RepairsSurvive` |
| `KernelFollows` | `KernelSettles` (`LiveIsApproved`, `BootFileIsApproved`, `KernelFollowsDatabase`), `ClosesOnlyWhenRestored` |
| `RouteIsSound`; `UplinksSettle` | `DegradedNeverOutweighs`, `UnconfirmedNeverStays`; `WindowEnds`, `RouteConverges`, `NoWanCloses`, `SteerAlertTruthful` |
| `DaemonsServe` | `OkMeansServed`, `NoBlackout` |
| `ChainsAreWhole` | `ChainsFollowRows`, `ForwardNeverCut` |
| `UsageIsAccounted` | `EachUnitOnce`, `LinkUnitOnce`, `CountedInItsCycle`, `AlertsTurn`, `LinkAlertsTurn` |
| `SeriesAreWhole` | `ReadingsAreCounted`, `IntervalFollowsState` |
| `NameIsTrue` | `UpdatedIsPublished` |
| `DomainsAreCarried` | `MirrorIsRight`, `PendingIsCarried` |
| `QueueIsAccounted` | `MidwayIsRecorded`, `FaultHasLease`, `ForeignIsKept` |
| `TrialIsTracked`; `TrialsEnd` | `UndoneUnlessConfirmed`, `TrackIsKept`; `TrialEnds`, `FaultEnds` |
| `RowsReachTheMachine` | `DnsIsNotFrozen`, `RowsReachChains`, `OffIsOff`, `QueueSettles`, `NameReachesAddress` |
| `AlertsTellTheTruth` | `WrongIsShown`, `RightIsShown` |
| `AccessIsKept` | `SomebodyManages`, `TokensAreOfThePassword`, `FactorIsNotReplaced` |
| `TunnelIsWhole` | `PeersAreWhole`, `OkMeansTunnel` |
| `UpgradeKeepsRules` | `RulesAreKept`, `RulesStayInForce`, `BlocksStay` |
| `BackupKeepsItsWord` | `BackupHoldsWhatWasSaved`, `BackupFailureIsShown`, `TriesAreBounded` |
| `ElementsFollowRows` | `BlockedIsEnforced`, `UnblockedIsFree`, `ForwardsFollowRows`, `FileKeepsElements`, `ContainedStaysOut` |
| `CapturesAreThere` | `OfferedIsThere`, `TemporaryGoes` |
| `UpdateIsHonest` | `OnlyVerifiedGoesIn`, `UpdateIsTold`, `SpoolIsEmptied` |
| `SecretsHold` | `SecretsAreKept`, `SecretsOpen`, `ServesFromVault` |
| `RevertMergesRows` | `InputChainComesBack`, `OthersSurvive`, `WindowIsUndone` |

**What the confirm-or-revert runs show.** Whatever interleaving of two requests, the
watchdog, the boot pass and a restart, and whichever single call fails, a closed
window (one whose change did not escape through the arming gap) leaves the accepted
input rows in the database; the stored snapshot leads back to them even after
merges; a second request never takes over an unconfirmed window; rows repaired by an
operator during a stuck revert survive its retries. As long as nft and the marking of
a revert do not fail, the kernel and the boot file follow, and a revert clears only
after the kernel took the restored rows. With the arming gap closed (`PromptWrites`),
the detailed protocol implements `TrialChange`, whichever single call fails. In these
runs `Settings` is empty: the rows are the subject (section 6 says what happens to the
chain policies).

**Why their bounds are enough.** Two requests and two mutations are the least at which
one request's window meets another's write, or a settled window meets a new one;
a third request adds no pairing that two do not have, since every decision is about
the single pending row. Two rows separate what a window guards from what a merge may
preserve. One fault and one restart in any position reach every partial state of the
six steps; several of the divergences of section 6 need two and are described there.
The kernel run leaves `nft` and `reverting` out because with them the code does not
have the properties (section 6). In `GroupRuleMerge`, three groups (one the system
group), two rules and positions up to 2 are the least with which order, scope change and
deletion all matter, from every initial table; another administrator's mutation is a single
one, as two windowless mutations touch rows independently of one another.

**WAN runs.** One link is enough for what a link's own counters and callback decide;
two are the least that publish each other's marks. Thresholds 3 and 2 are the code's;
`Sustain` is 2 (below the failure threshold) or 3. `LinksSettle` (`DeadLinkIsLeft` and
`GoodLinkComesBack`) is conditional: *if from some point on every sample of the link is
of one kind, and it stays enabled*; TLC checks that samples, faults, a form and a
restart before that point cannot prevent it. `Undisturbed` (no failed call, no saved form)
qualifies the statements about marks, because the code does lose a mark's
correction in those cases (section 6).

**Uplinks.** Two links are the least with a plan to balance; one Apply with its timer against
two Rebuilds, one change of a link, one failure and one restart cover the pairs of actors that
hold the route. `OneAtATime` says that the operator waits for one window before opening
another, which the panel suggests and nothing enforces; `BalancedRoute_twice` drops it.

**Machine and Panel.** Each service has two concurrent calls of each kind the
program can overlap (requests, reloads, checkers, senders) and one or two failures
and one restart or reboot, at any step; the counters named `Max...` in the configurations
bound edits and failures. The states of each part alone, in thousands:
health 8, net 236, trial 34, chains 112, host quota 106, link quota 66, domains 504,
queue 389, names 52, series 257; accounts 535, vpn 234, adoption 107, backup 601,
elements 397, capture 26, update 17, vault 58, merge 397. Particular bounds:

- `MaxChainEvents` 3 bounds edits and failures of the chains together: an edit, a
  refused command and a reboot in any order are enough for a pass to be half done
  when the next starts;
- domains follow the four scenarios of `MCScenarios` (two addresses or two domains,
  with a change, two changes or a failure), since all together have too many states;
  every action of the module fires in one of them;
- two windows of the native step make one of the longer step (`Rollup` 2), three of
  them are lived through, so that a longer window ends while another begins;
- a day of the host quota has one instant and a month two days, so that both
  periods turn within three instants;
- `MaxAttempts` and `MaxRestoreAttempts` are 2: below the lock, at it, and past it.

`CHECK_DEADLOCK FALSE` stands in the runs whose bounded edits end, which are all but those
of `WanHealth`; progress is what the liveness properties state.

## 4. Fairness

- `ConfirmWindow`: weak fairness of a running reconciliation (it holds its mutex and
  nft calls return, with or without an error), strong fairness of whoever waits for
  a mutex (`sync.Mutex` hands itself over to a starving waiter), of the watchdog
  (a ticker of five seconds) and of the boot goroutine; weak fairness of the clock. No
  fairness of `Begin`, `See`, `Confirm`, `RevertNow`, `Leave` and `Restart`: nobody owes
  the system a request, a decision or a crash. Failures end because they are counted,
  which is the assumption behind "retried until it succeeds".
- `WanHealth`: weak fairness of the ticker, of every step of a check (probes have time
  limits, the callbacks a deadline of 30 s), of the boot pass, of a request already
  running and of the end of a cooldown. None of opening or saving a form, of
  `TargetsChange`, of a restart, or of a particular sample.
- `Uplinks`: weak fairness of the balancer's ticker (30 s) and of an armed timer, strong
  fairness of a Rebuild or an Apply, which wait for mutexes; the same ticker and the
  boot pass for the rule of pinned hosts. None of Confirm, Rollback or edits.
- `Machine_live`: the collector ticks every 30 s and runs each check to its end (strong: a
  check waits while another thing's is running, and the monitoring switch stops it);
  an armed debounce timer fires and a reload runs to its end; the sweep of
  interfaces ticks every 5 s and time passes; `reconcileMu` serves its waiters and
  its holder finishes; the loop, the writer and the ages of domain targets go on;
  the holder of an interface's lock, the boot pass, a running stress test and its watchdog
  go on; the five-minute ticker of dynamic DNS starts a check, and a check or save
  that started ends. No fairness of edits, of failures, restarts, DNS answers, or of anything
  an operator does.
- `MCPanel` has safety properties only: what its services do they do when asked.

## 5. Proofs

`tlapm` checks every step of the eight modules that hold theorems. A theorem holds for all
values of the constants that satisfy the `ASSUME`s of the modules it extends: any number of
requests, rows, contents, settings, links, hosts, accounts, instants, faults and restarts,
and any bound on them. Each proof is an inductive invariant: the property
itself is never inductive, and TLC was run on every strengthening before it was proved.

### 5.1 Confirm or revert

**ConfirmWindowProofs.** `TypeCorrect`, `DatabaseProtected`, `SnapshotGood` and
`RestoredWhenReverting`. The inductive invariant is

    IInv == Structure /\ (~ escaped => DataInv)

`Structure` says who can be where: the types; which steps a request with or without a
window can be at, and that its number has been handed out (`RequestInv`); that two
requests that have not written yet never share a number, so neither takes the other's
window for its own (`NumberInv`); and that each step of a revert runs with its window
open and marked as that step expects (`CritInv`). `DataInv` says what the database, the
snapshot and the target of a running revert have in common: the accepted input rows. Its
core is the lemma `MergeKeepsInput`: the three-way merge, for any three tables, has the
input rows of its base. The proof goes by the groups of actions (request, operator,
revert, other). `SeatInv` adds that nobody is at two places: who holds a mutex is at the
step of that mutex, and who waits for one holds none.

The same module proves `KernelKept` (all of `KernelFollows`), under `NftTakes`: nft refuses no ruleset
and the marking of a revert is recorded, the two faults whose corners section 6 describes.
`KernelInv` adds to `IInv` and `SeatInv` four facts. `OwedInv`: if what the kernel is about to enforce is
not the database, some request, revert or boot pass still has to read it. `LoadedInv`: what a
reconciliation holds was accepted once, or is the change of a window nobody has decided,
or a revert that will reconcile after it is past the rows. `RestoredInv`: a revert that
reconciled left the accepted rows in the kernel and nothing under way takes them out. And the
boot file's rows were accepted once.

The module ends with the refinement: `DecisionsKept` (`OneWindowAtATime` and `RepairsSurvive`) from
`IInv`. `ImplementsTrialChange` is proved twice, as a step simulation. `ImplementsWhileCovered`
needs nothing but that no input change ever escapes: `Spec /\ [] ~ escaped` implements
`TrialChange`. `PromptImplements` derives that premise: with `PromptWrites` and rows that keep
their scope (`ScopesAreFixed`), `PromptInv` is inductive and contains `~ escaped`. There
`OwnWindowInv` says that an arming request keeps its number, `WriteInv` that it finds its
window open and unreverted when it writes, and `ScopeInv` that merging tables of fixed
scopes gives one. Without `ScopesAreFixed` the implication fails for a reason that
is in the code: the scope of an edited group is judged on the row the handler read
(section 6, stale scope).

### 5.2 Links and routes

**WanHealthProofs.** `WanTypeCorrect`; `AlarmOnce` and `VerdictsBacked` from `EvidenceInv`,
which ties the monitor's three counters to the tail of the link's real samples (lemmas
`AdvanceBacked`, `AdvanceVerdict`, `AdvanceAlarm` on the pure state machine) and
`AlarmInv`, which ties the latch to the alarms raised; `MarksFollow` and `MarkFirst` from
`MarkInv`: outside a link's own callback, and outside a form or a boot pass half done, the
published marks are those of the stored rows, and a callback that is about to delete a
route has the mark behind it. Here the inductive invariant is
`TypeOK /\ EvidenceInv /\ AlarmInv /\ MarkInv`.

**UplinksProofs.** `UplinksTypeCorrect`; `RouteSound` for any finite set of links and any raw weights. For
`DegradedNeverOutweighs` the lemmas follow the weights from the quality of a link to the
kernel's 1..256: scaling to the greatest of them is monotonic, so that demotion survives it.
`UnconfirmedNeverStays` rests on `RouteSafe`: one window is open at a time, and the route of an
Apply is kept only with its timer armed, its decision taken, or itself settled. It
needs `OneAtATime`; without it the property is false (run `BalancedRoute_twice`).

### 5.3 The services of MCMachine and MCPanel

`FollowsService` and `FollowsPart` lift a proof about one service to the composition: a step of the
composition is a step of the service that `focus` names, and `focus` never changes. Each
theorem states the property of the run of section 3.

| theorem | invariant | why the property alone is not inductive |
|---|---|---|
| `TrafficIsAccounted` | `QuotaInv`, `LinkInv` | a unit is in exactly one of memory, flush, rows and losses, the flush by the very cycle it was measured in; the alerts open are about the cycle evaluated last, or, after a restart, about whichever cycle the database would give |
| `NamesAreTrue` | `NameInv` | a check that is about to record success has published that address for the host of the row, unless an excuse is set; of two checks or saves, the later one knows what the earlier left |
| `TrialsAreTracked` | `TrialInv` | each call of a change, and each step of a restoration, knows which of the file, the row and what networkd loaded are already new |
| `ChainsStayWhole` | `ChainInv` | which part of a chain a pass has filled, and that a row nobody has rendered yet has an edit or a pass behind it that will |
| `DaemonsKeepServing` | `NetInv` | what each reload has written, validated, reloaded and recorded, against the row; the marker describes the running unbound unless it strayed |
| `RecoveriesAreEarned` | `HealthInv` | a thing that is down has been told of, or its call is the one under way; a call that closes is about a thing that is up again and was told of; no two things share a key of the alerts table |
| `QueuesAreExplained` | `QueueInv` | the commands a job has left lead to what it wants, those it would undo lead back to what there was (`PathTo`); no command touches another program's root, and only the end of a test that of a fault |
| `DomainsStayCarried` | `DomainInv` | what each of the five places of the pipe carries about an address fits its record, and the record, once the answer on its way is heard, is what the kernel holds |
| `SeriesStayWhole` | `SeriesInv`, `IntervalInv` | buckets are closed in the order of their windows; a row is emitted once, when its window is over and no bucket gathers for it, and until then the table has nothing of it; between the two writes of a change of state no interval is open |
| `SecretsKept` | `VaultInv` | who holds which key and who may still create one; where the last value of each credential is during its move |
| `UpdatesAreHonest` | `UpdateInv` | what reached the unit was verified, and the unit outlives the call that waits for it |
| `CapturesStay` | `CaptureInv` | the file a capture still needs is there and is not about to be swept |
| `RevertsMergeRows` | `MergeInv` | what is not another's write is as the window left it; the target is the merge of three tables; positions come from the order of the rows |
| `BackupsKeepTheirWord` | `BackupInv` | tries since the count was cleared are what was counted; the run that holds the mutex knows the result of the one before it; what was saved when a backup was asked for stays saved |
| `AccessKept` | `AccountInv` | a password's hash is as old as its version, in rows, tokens and logins; a request that passed its guard still has it unless another crossed; beside a factor in force lies only its own draft |
| `ElementsKeptInStep` | `ElementInv` | while calls do not cross, the file is behind only between a command and its write; a blocked host is in the set or its call is at the command; the DNAT chain is the setting, or the list about to be saved |
| `TunnelsAreWhole` | `TunnelInv` | who holds the mutex is at a step of what it asked for; no two peers share a key, and the key in hand is nobody's; at each step of an apply, what was listed, the file or what runs is what row and peers ask for, unless a user was deleted meanwhile |
| `UpgradesKeepRules` | `AdoptInv` | before the import there is no row and the old chain waits whole; after it the rows tell that chain in its order, but for the deleted; a latch of the groups means that no row is without one, unless a restore brought it |

The set-theoretic facts that are true by induction (a finite family has a least member, a
finite set of numbers a greatest one) come from the well-founded order on finite
subsets, `FiniteNumbers`. The renumbering of `GroupRuleMerge` is proved through the number of rows that
come before a row, and no fold is unfolded. A list of which some entries are kept (`Picked` of
`RuleAdoption`) is likewise read by positions: the place of an entry is the number of kept positions up
to it, which makes places and positions two numberings of the same set (`NthAndPlace`), so that keeping
twice is keeping once what goes through both (`MembersOfMembers`).

**ServiceProofs: the queue.** A job of `QueueControl` is a list of commands that may stop anywhere, so its invariant
is about where lists lead: `PathTo(s, a, b)` holds when some sequence of chains goes from
`a` to `b` by the commands of `s`. `PathSteps`, `PathGrows` and `PathJoins` are what running one command,
remembering its undo and appending a list do to it; `GoalsLead` computes, for each verdict of the
inspection, where the commands of an operation lead. `JobsArrive` and `JobsComeBack` say that the path forward ends
in what the job wants and the path back in what was there; `RecoveryIsWhole` that a recovery takes all there is down before
it builds; `RestoresAreSafe` what a restoration with no lease of the queue may leave.

**ServiceProofs: the domains.** An address travels through five places: adjustments the loop has
not taken, what the loop owes, the batch that waits for the writer, the batch nft has answered, and the
removals that came back. `MirrorIsRight` speaks of an address when all of them are empty of it and says
nothing on the way there; the invariant has to. It says of every address that is not astray (`Tracked`):

- `WritesFit`, `OneWrite`: whatever write is on its way is of what the record waits for, there is one at
  most, and what the record has written so far leaves in the same batch or before it;
- `Rec(a)` is the record as it will be once the answer that is on its way is heard; `NothingElse`: each
  element is what `Rec` says or is `Leaving` (its removal is in one of the five places); `Believed`: what `Rec` says is there,
  and as old, unless an add found the element there and a removal of it is coming back;
- `MovesWhole`, `InOrder`: the removal of what the record says travels with a write, and no removal overtakes the write
  of the element it would remove;
- `LeavesSoon`, `AgainIsNew`: an element that is still to leave, or whose removal has failed once, is
  beside a record that is new. Without these two, a deletion tried again could take an element that was renewed meanwhile.

Where the address is astray the invariant keeps only that what it waits for is carried (`Waits`) and that a batch can give
back what it deletes (`Backed`), which is what `PendingIsCarried` needs. TLC checked each conjunct
on scenarios like those of `Machine_safety` before it was proved; the last one was added when the step of a
removal that came back could not be proved without it. The proof has a lemma per action. An operation on the index changes one address in one of four
ways (`Unmoved`, `Requested`, `Dropped`, `Retaught`), and `TrackedStays` and `ChangedTracks` say once what each does to the invariant.

**ServiceProofs: the series.** `ReadingsAreCounted` is a sum: what the table says of a row and what
memory still holds of it make the readings of its window. What a queue of buckets holds of a row is the
cardinality of a set of spots (`SpotsOf`: an entry and a number up to its count), so that the sum needs neither
fold nor induction: `CountsAppend` and `CountsTail` say what an entry behind or the first one gone
change, `PartsOf` names the five parts of the sum, and each step moves a count from one part to the next.
The table replaces a row and does not add to it (`UpsertMetricSample`), so that the sum stays only if no row is
emitted twice: `ClosedOnce` says that an emitted row is of a window that is over, that nothing gathers for
it (`Gathering`), and that it is emitted once; one that is not emitted is empty in the table. It
follows from the order of the queue (`BucketsInOrder`), because a longer bucket is closed
by the first native one of a later window.

**What the proofs require of the constants.** Most assumptions are types. The others say that values
of different kinds are different, which is true of the code's types and not of a bare model
value: the special names of `ChainReconcile` and `BalancedRoute` are no groups and no calls, `Absent` is no
row (`AbsentAssumption`), a host is neither a listed destination nor a forward (`ElementAssumption`), and no systemd unit is
taken for another check (`HealthAssumption`: the type of an alert tells them apart).

**What attempting the proofs corrected in the models.** Each of these held in TLC's instance and
failed, or could not be reasoned about, in general:

- `AlertsTurn` said that an alert is about the last cycle. After a restart the first flush
  recognises the previous cycle by its start only, and a daily and a monthly period may begin
  together (`hostquota.go:432-451`); the property now excludes exactly the change of period (`BothPeriods`);
- `FactorIsNotReplaced` was bounded to three events. With four, a code of an old draft
  is activated over a factor in force (`auth/twofa.go:97-113`); the step now sets `redrafted` (section 6);
- two `CASE`s had guards that overlap: the alerts of a quota with limit 0, and the kind of an
  element asked for. TLC takes the first; a proof may not. The guards are now disjoint or assumed so;
- `unrecorded` of `QueueControl` missed a link edit whose command fails and whose undos fail too, which leaves
  the chain bare under a row that asks for one, with no lease (`handlers/links.go:236`): it takes four faults,
  and TLC's instance has fewer;
- the fold by which `DomainTargets` handed over what a trial had taught hid that each address is independent of the others; it is now said
  address by address. An address that the index has forgotten still counted as young there, so that
  time stood still for its elements (`Aged`);
- the drain of `MetricStore` was one step that folded over the queue of closed buckets; it now closes one
  bucket at a step under the lock, which also lets the clock move in the middle, as it does in the code;
- the history `strayed` of `NetServices` missed a marker written by a reload that crossed
  another, a nested quantifier in a restart of `InterfaceTrial` chose its value in the wrong scope, and a bounded
  `CHOOSE` for the next position of a row, or the next key of a peer, had no value past the bound: each is
  the maximum plus one.

### 5.4 Only model-checked

- Liveness, which this prover does not reach: `WindowsAndRequestsEnd`, `LinksSettle`, `UplinksSettle`,
  `RowsReachTheMachine`, `TrialsEnd`, `AlertsTellTheTruth`.
- What a fold or a recursion over data computes: the values of the weights and of the merged rows
  beyond what the lemmas above say.
- the type invariants `MachineTypeOK` and `PanelTypeOK`
  as such: the shapes proved for the services above contain their share of them. Nothing known
  stands in the way of these but the work (section 8).

## 6. Where the code and its documentation disagree

Kept as runs that TLC must find violated; `PROJECT.json` quotes the sentence each
contradicts:

- `WanHealth_mark`: a recovery within the failover cooldown publishes the mark and
  never restores the route;
- `BalancedRoute_twice`: an Apply inside the window of another takes the unconfirmed
  route for the one to go back to, so that nobody's confirmation leaves it in force.

What follows was seen while modelling, mostly as counterexamples of a stronger property, and
is not kept as runs. The properties of section 3 exclude exactly these corners. Some modules keep
the stronger statement as a definition that no run checks, because the code does not
have it: `NoOrphanRule`, `SettingsProtected`, `ManagedIsLoaded`, `FlushKeepsReadings` and
the like.

**Windows and merges.**

- `ApplyGuarded` arms under the mutex and writes without it; a decision that falls in
  between leaves the write with no window (`apply_guarded.go:199`; `escaped`);
- a mixed revert target carries no settings; the chain policy a window guards is not
  restored when somebody else wrote (`revert_merge.go:151`);
- when marking the revert fails after the rows are back, a confirmation is accepted and
  nobody reconciles the kernel (`confirm.go:614`);
- a rule restored from the snapshot may belong to a group whose deletion the merge
  preserved (`revert_merge.go:125`);
- a stale scope: `Window()` is judged on the row the handler read, and the write replaces
  the whole row by id (`handlers/groups.go:243`);
- a policy setter that fails during a revert is logged, and nothing writes the
  policy again (`confirm.go:1028`);
- `FinishSettledRevert` trusts a reconciliation that may have read the database
  before the revert restored it (`confirm.go:740`); needs a failing nft;
- a window armed over a settled revert and discarded because its write failed takes
  along the only record that the kernel is still owed a reconciliation (`confirm.go:460`);
- a windowless write between the reading and the transaction of a revert is erased
  (`confirm.go:1012`);
- the first boot pass may revert a window that this same process armed (`confirm.go:907`);
- a rule created during a window in a group the revert puts back on the input
  chain is kept, and reaches it (`revert_merge.go:115`);
- a second attempt at a mixed revert can compute another target when
  `MarkWindowApplied` never recorded the outcome (`confirm.go:1114`).

**Links and routes.**

- the monitor's verdict is in memory before it is in the database: after a failed
  `UpdateStatus` the callback of the change is lost (`links/monitor.go:295`);
- a form opened before a fall and saved after it writes the old status back and
  publishes the mark; the next check corrects the row without a callback
  (`handlers/links.go:243`);
- the balancer compares signatures, never the kernel: a default route that another program
  deletes comes back only when the plan changes (`balancer/service.go:357`); Apply executes
  outside the lock under which it signs (270); the rollback is a timer in memory (852);
  `ApplySchedule` writes rows it read earlier (816).

**Chains and elements.**

- the input chain is declared, flushed and filled rule by rule although its policy may be
  drop (`nftables/reconcile.go:744`), against the comment at `policy.go:258-279`; Persist may
  save a half-built chain (`service.go:896`); the NTP timer carries the toggle it was armed with
  (`handlers/ntp.go:168`);
- an address that changed while its host was blocked makes UnblockHost's delete fail; no
  Persist follows, the old address stays blocked for its next holder, and the boot file
  keeps the physical address, although the flag in the database "é a fonte da
  verdade" (`hosts/service.go`); blocking by physical address does not persist at all;
- crossed or failed calls leave the DNAT chain and the stored list apart, and nothing
  renders DNAT again at boot (`handlers/portforward.go:142`); a rollback brings back the
  chain but not the setting, and takes out blocks made since;
- the copy `nft_live_snapshot` is not sanitised, so contained sources come back with it, and
  Persist reads and writes under no lock;
- when ImportOnce's read fails once at the boot of an upgrade, the migration latches with no
  orphans and the next pass rebuilds the forward chain without `user_rules`: the old rules stop
  being enforced, and an edit before the chain is retired loses them (`firewallrules/service.go:247`:
  "No live rule is ever dropped on the floor"). A restore that brings the latches
  of another machine does the same.

**Machine services.**

- `netsvc`: the edit of one half of the row overwrites the other half (`handlers/netsvc.go:367`), reloads
  overlap (100), a restart loses the debounce timer (`autoapply.go:24`), and a restart of unbound
  outside a reload leaves the marker behind (`keaunbound.go:751`);
- `netif`: Confirm is two calls, after the first of which what is managed is not what
  is loaded (`netif/service.go:361`); a change cut before its row exists is never undone (330);
- quotas: the first flush after a restart may hide the turn of a cycle (`hostquota.go:447`, where a
  test says otherwise), and takes a month for a day that began with it when the period was changed
  meanwhile (432), Save writes in two calls (735), and the link's flush loses the minute that
  the database refused (`linkquota`, line 155);
- domains (`astray`): a domain switched off while its first write is pending still lands; an
  answer confirms an older batch with newer fields; one element that is gone makes a whole batch of
  removals fail twice and be given up (`servico.go:455`); removals come back keyed by address
  only (492); provisioning empties the structures behind a full index (`main.go:1217`);
  a second domain's block of a pending address waits for the next DNS answer;
- queue (`unrecorded`): disabling or deleting a link removes the tree with no lease, and so does
  the restoration after a test, so that a cut, or undos that fail as well, leave half of it or none; the boot pass reads leases before it takes the lock; recovery
  takes the redirect away before it looks at the root; a reconciliation that failed is
  logged and not repeated; recovery brings back the queue of a link that was deleted;
- dynamic DNS: a save under a check clears the result, and the check then records the old
  configuration's success: the new name is not published until the address changes
  (`ddns/service.go:174`); of two overlapping checks the slower one may publish last;
- time series: the row an orderly stop flushed is replaced by what the next process saw of the
  same window (`storage/repo_tsdb.go:56`), against the comment of Run ("todo reinício do serviço
  ... abria um buraco", `tsdb/service.go:286`); the writer's `now` is taken before the sample, so a
  newer bucket may be closed early; the interval of a state is closed and opened in two writes;
- alerts: a unit that disappears is forgotten with its alert open (`healthchecks.go:162`); errors of
  AutoResolve are not retried (`alerts/service.go:616`); Create may cross a dismissal (267); a change of
  severity of the DNS path while it is down raises nothing (`driftchecks.go`); a recovery is
  announced for an outage that the minimum severity filtered out (`notify.go:140`).

**Panel services.**

- accounts: an update of a role has no last-administrator guard, and two requests side by side can
  leave nobody (`handlers/users.go:285`); a setup that crosses an activation leaves a draft
  that Activate promotes, and the code of an older draft activated after another one promotes
  that draft over the factor in force (`twofa.go:97`: "Trocar de aparelho passa por desativar primeiro"); a change
  of one's own password may land after an administrator's reset; the default administrator without
  roles regains them at a restart; an update with roles and a short password saves the roles and answers 400;
- VPN: a call that ends between `mv` and the restart leaves the interface on the old file, and
  the next apply finds the file unchanged and records "ok" (`handlers/wireguard.go:16`: "tente
  aplicar novamente"); deleting a user does not apply the tunnel; an apply that listed a peer
  before its user was deleted revives the group's row; a new network with
  peers makes every apply fail until each peer is revoked;
- backup: the alert of a failing backup is closed at a restart and not raised again, because the
  last result is persisted (`alerts/service.go:632`: "re-raised by the watchers"); a restore brings
  another machine's last run and a schedule without a passphrase; the limiter forgets at a restart;
- capture: Start looks outside the lock, so that two captures may run (`pktcapture.go`: "Service roda
  uma captura por vez"); a failed read-back leaves a temporary file; captures of one second share a name;
- self-update: the alert says that nothing changed although the unit was busy or the deadline passed
  while `dpkg` goes on; a package whose configuration failed counts as installed; a restart cuts a request
  without a word and leaves its download; a release withdrawn between check and apply installs another; the
  open alert suppresses the next one;
- secrets: the panel and the notice of its fall may both generate the first key (`keyfile.go:45`); a fall
  while the key file is created leaves a short key that every boot refuses; a restore of an
  older version's file brings legacy rows that the next boot moves over current secrets (`migrate.go`:
  "is never overwritten by the stale plaintext").

## 7. What is not modelled

`PROJECT.json` gives the reason for each component. In short:

- rendering and parsing (rulesets, Kea, Unbound, WireGuard, packet capture, dnstap) has no
  state: a rendered file is what the properties need of it (`UnboundText`, `Configs`, `Rendered`);
- measurement (`hosttraffic`, `hostflows`, the exported metrics, queries and retention of the series)
  decides nothing; AI advice is an HTTP client; the panel is a client of the API; the HTTP
  server routes requests; preparation of the machine runs commands and parses them;
- delivery of notifications, validation of fields, the text of alerts and of SQL;
- the NAT, accounting, mark and MSS reconcilers have the same shape as the forward chain of
  `ChainReconcile`; the free policy routes are single commands;
- the two clocks behind the ninety seconds (monotonic while the process lives, wall clock after
  a restart): the deadline is an instant that may fall at any moment, which covers both
  for safety and for progress, not for exactness;
- creating, deleting and discovering links; several interfaces of `netif` and `qos`, which
  share no row; IPv6 and the global ceiling of domain targets.

Assumptions worth naming: another program's root qdisc arrives between operations, never
between two commands of one; the key file is not lost while a process is opening it; the clock
of the machine does not step back; a command that nft killed at its deadline did not apply.

## 8. Plan

Done: every model of section 2, its runs, and the proofs of section 5.

Proofs to add, most important first:

1. `MachineTypeOK` and `PanelTypeOK`, from the shapes already proved and those of the services above;
2. `UndoneUnlessConfirmed` with `TrialChange` as the abstract specification of `InterfaceTrial` too.

Models to add: `WindowDeadline` (both clocks, shown to implement the single instant), and a
refinement that shows `ChainReconcile`'s pass to implement the one-step reconciliation of
`ConfirmWindow`.
