# TLA+ specifications of netris-operator

The operator keeps the network objects of a Netris controller in step with Kubernetes
custom resources.  This directory models the protocols it does that with, checks them with
TLC on small instances, and proves their main safety properties with TLAPS for every size.

* [The system](#the-system): its parts, their state, what is hard about them
* [The modules](#the-modules): what is modelled, and how it corresponds to the code
* [The runs](#the-runs): what TLC checks, the bounds, the fairness
* [The proofs](#the-proofs): what TLAPS proves and along which argument
* [Disagreements](#disagreements-between-code-and-documentation) between code and documentation
* [What is not modelled](#what-is-not-modelled), and the plan

To repeat a run: `tlc -config vnet_safety.cfg MCResource.tla`; a proof: `tlapm ResourceProofs.tla`.
`PROJECT.json` lists the components, the runs, the theorems, and the hazards with the properties that
would notice them.

## The system

One process holds everything.  `main.go` logs in to the Netris controller, downloads its lists
(`netrisstorage`), registers two reconcilers for each of sixteen kinds with controller-runtime,
starts the two watchers as goroutines of their own and starts the manager.  Leader election
is off by default.

| part | state it keeps | operations | interacts with |
|---|---|---|---|
| CR reconcilers (`controllers/<kind>_controller.go`) | none of their own; the CR's annotations, finalizer and status, the meta's spec | default annotations, finalizer, make and refresh the meta, delete | informers' caches, API server, Netris (delete), netrisstorage (translation) |
| meta reconcilers (`controllers/<kind>meta_controller.go`) | the meta's `Spec.ID`, the CR's status | import, look up, create, update | the same, Netris (create, update) |
| netrisstorage | fourteen lists, each with a mutex, and one more mutex for a full download | look-ups, some of which download their list again, `DownloadWithInterval` | Netris; called by all reconcilers and both watchers |
| Calico watcher (`calicowatcher/`) | the data of the pass in progress | one pass every ten seconds: AS numbers, BGPs, the peer, the node-to-node mesh | nodes, Calico's resources, BGP CRs (which the BGP reconcilers work on), netrisstorage |
| load balancer watcher (`lbwatcher/`) | the data of the pass in progress | one pass every ten seconds: L4LBs for services of type LoadBalancer, ingress addresses, events | services, pods, L4LB CRs, netrisstorage |
| API handler, helpers, API types, configloader, main | configuration | pure functions, wiring | - |

**What is hard.**  A CR and its meta are two objects that two reconcilers write from copies
read earlier; every write is one call, and a call may fail with or without its effect.  The
informers lag behind the API server and netrisstorage lags behind Netris.  The process may end
between any two calls, and it does so by itself where a map is nil.  CRs are deleted and made
again under the same name, while metas are named by UID and look their CR up by name.  The
watchers make decisions on lists that they read once, before a dozen calls.

**What makes it correct**, part by part:

* *CR and meta reconcilers*: nothing is created in Netris before the CR is protected by the
  finalizer; the id of an object is not forgotten; a meta never goes back to an older spec; an
  import adopts and does not double; a deletion ends and leaves nothing behind; when edits end,
  CR, meta and Netris agree; the reclaim policy is kept.
* *L4LB and Site*, whose metas have a finalizer too: the object goes before the meta and the meta before
  the CR, and a deletion that is handed from one reconciler to the other and back ends.
* *Link*, whose object has no id: a move to other ports leaves no link behind, nor does a deletion in the
  middle of one.
* *Calico watcher*: AS numbers are distinct; the mesh goes off only when BGP carries the
  routes, and a pass that clears up has it on before it takes BGP away; a removed annotation leaves nothing behind.
* *Load balancer watcher*: one L4LB per port of a service, all on one address; L4LBs of a service that
  is gone go; the ingress addresses are those Netris assigned.
* *netrisstorage*: a list is never replaced by an older one; a look-up does not miss what is there, and
  ends; every list becomes current if Netris answers.

## The modules

| module | what it is | on small instances | theorems |
|---|---|---|---|
| `Resource`, with `Kinds` | the direct protocol: CR, metas, two reconcilers, caches, netrisstorage's copy, Netris; the traits in which its thirteen copies differ | `MCResource` | `ResourceProofs`, `ResourceLedgerProofs`, `ResourceImportProofs` |
| `Cascade` | the protocol of L4LB and Site, whose metas have a finalizer | `MCCascade` | `CascadeProofs` |
| `Link` | the protocol of Link, whose object has no id | `MCLink` | `LinkProofs` |
| `Ledger` | abstract specification of these three: what the metas promise about ids | - | - |
| `Storage`, with `Lists` | netrisstorage: threads, mutexes, requests; the fourteen lists it is written out for | `MCStorage` | `StorageProofs` |
| `Copies` | abstract specification of `Storage`: look-ups that answer from one copy in one step | - | - |
| `CalicoWatcher` | the Calico watcher, Calico, the nodes, and the BGPs | `MCCalicoWatcher` | `CalicoWatcherProofs` |
| `LBWatcher` | the load balancer watcher, the Services, and the L4LBs with the way of their addresses | `MCLBWatcher` | `LBWatcherProofs` |

`PROJECT.json` maps every definition to the lines it models.  A definition `MutF` is `F` with a
plausible mistake in it.  No definition uses it; replacing `F` by it makes TLC find a
violation, so that each property is known to depend on the code it is about.

### Resource

Thirteen kinds (VNet, Subnet, Allocation, BGP, Nat, InventoryProfile, ServerCluster,
ServerClusterTemplate, VPC, and the hardware: Softgate, Switch, Controller, InventoryServer) share
one control flow, written out thirteen times in `controllers/`.  `Kinds` states the six decisions in which
the copies differ; `MCResource` asserts which kinds coincide.  They fall into seven classes.  The runs take
VNet, Nat, VPC, Softgate and Controller; the two classes that no run takes differ from one of these in a
single trait (Subnet's delete accepts that the object is gone, as VNet's does; an InventoryServer's
annotations are made when there are none, as VPC's are).

A `Scenario` is a kind with what the user does to one CR of it: the addresses, the annotations, the edits that
the operator refuses, whether Netris has the object already, and how often each disturbance occurs.

The hardware kinds have one step more.  An address that the user leaves open is asked of Netris as
"auto"; when the meta reconciler knows what Netris chose it patches it into the CR (`MWriteBack`),
which raises the generation, so that the CR reconciler takes it into the meta.

| code | model |
|---|---|
| the CR in the API server: UID, generation, spec (the edit and the address), annotations, finalizer, deletion timestamp, status | `cr` |
| the metas, named by the UID of their CR: `VnetCRGeneration`, the spec, `Imported`, `Reclaim`, `ID` | `meta` |
| the informers' caches | `crCache`, `metaCache`, brought up to date by `SyncCR`, `SyncMeta` |
| the objects in Netris that bear the CR's name | `netris` |
| netrisstorage's copy of them | `storage`; `DownloadWithInterval`, and the downloads of look-ups |
| a reconciler in the middle of `Reconcile`, with the copies it has read | `x`, `m` |
| the workqueues | `xQueued`, `mQueue` |

`XLoad` and `MLoad` take a key from the queue and read the caches.  Every later action is one
call to the API server or to Netris with what the code does up to the next call.  The CR
reconciler goes `XSetAnnotations` (or `XPanic`, where the code assigns into a nil map),
`XReject` (VNet's duplicate gateways), `XTranslateFails`, `XSetFinalizer`, `XCreateMeta`,
`XUpdateMeta` or `XNothingToDo`, and for a CR that is being deleted `XDeleteNetris`,
`XDeleteMeta`, `XRelease`, with `XFail` after any error.  The meta reconciler goes `MImport`,
`MRefreshByName`, `MGetByID` or `MFindByID`, then `MCreate` and `MRecordID`, or `MUpdate`, or
`MNothingChanged`, then `MWriteBack` where an address is to be filled in, and `MStatus`.

Abstractions:

* *A spec is the number of the user's edit and the address.*  Two edits never give the same spec, and
  the translation of a spec to the API's types is `Content`.  What each field-by-field comparison looks
  at is not modelled: `Same` says that a comparison is exact.  The main and the management address and
  the AS number of a piece of hardware are one address, given together or left open together.
* *Netris*, asked for "auto", keeps the address an object has and chooses one for an object without.
* *Resource versions.*  A write that carries a resourceVersion is accepted exactly when
  the object still equals what was read.  An object that changed and changed back would be
  refused by the API server and is accepted here; no property tells the two apart, since the
  write is the same as one made after reading anew.
* *Caches* jump to the current state when they are synced.  How often a worker may read an
  outdated copy is bounded (`left.stale`).
* *The deletion timestamp* raises the generation in Kubernetes; here it does not, and
  nothing in the deletion branch reads the generation.
* *A finalizer* is the operator's: finalizers of others only delay what the model does next.
* *netrisstorage* is kept as far as one name goes, and a look-up is one step, with the download it may
  make.  Module `Storage` shows that its threads come to no other answers.
* *A reconciler* has one worker, which is controller-runtime's default and the operator's.

### Ledger

What the metas promise, without reconcilers, caches or calls: an incarnation of a CR is
entered only once it is protected, an id is replaced but not lost, and an entry is erased only
for a CR that the user has deleted.  `Resource`, `Cascade` and `Link` implement it, each under the refinement
mapping at the end of the module (`KeepsLedger`): the life of a UID is read off `cr`, its entry is the
meta's id.  For `Link` the ids are left out, since a move takes the ID away and gives another.

### Cascade

The reconcilers of L4LB and Site.  The operator makes their metas with a finalizer.  A CR that
is being deleted has its meta deleted, the meta's reconciler deletes the object in Netris and lets the meta
go, and the CR reconciler, when it comes by again, lets the CR go.

| code | model |
|---|---|
| the CR and its meta in the API server, the informers' caches | `cr`, `meta`, `crCache`, `metaCache`; `born` after the user has made the CR |
| Netris, netrisstorage's copy | `netris`, `storage` |
| a reconciler in the middle of `Reconcile` | `x`, `m` |
| the workqueues; a `RequeueAfter` of the CR that is running | `xQueued`, `mQueued`; `xTimer` |

The CR reconciler goes `XSetAnnotations`, `XSetFinalizer`, `XTranslateFails`, `XWriteMeta` or
`XNothingToDo`, and for a CR that is being deleted `XDeleteMeta` or, when there is no meta, `XRelease`.
The meta reconciler goes `MDeleteNetris` and `MRelease` for a meta that is being deleted, else `MImport`,
or `MFindByID` and `MNothingChanged` or `MUpdate`, or `MCreate` and `MRecordID`, and for an L4LB
`MFill` and `MWriteBack` (`updateL4LBIfNeccesarry`), then `MStatus`.

Two things are finer than in `Resource`.  A `RequeueAfter` is a timer of its own and not an entry in the queue, since whether there
is one is what the two kinds differ in: `deleteCRs` of both asks for another round, but Site's `Reconcile` throws away
what it returns (`RequeuesDeletion`), so that a deletion of a Site waits for an event, or for the
informers' resync (`Resync`), which comes every ten hours.  And the write-back patches a deep copy of the CR that
was read, so the status patch that follows an accepted write-back carries the older version and conflicts.

Abstractions beyond those of `Resource`: the spec of an L4LB is the edit, the frontend's address, and `open`, that
its tenant or its site is left open; `auto` is its `Automatic`; a Site has none of these.  What is left open is filled in from the object
(`MFill`), and a merge patch never clears an address (`Written`).  There is one incarnation, with annotations; what a second incarnation or a nil map does is
`Resource`'s subject.  The branch that adds the finalizer to a meta without one never runs, since metas are made
with it, and is left out.

### Link

| code | model |
|---|---|
| the CR, its meta, the caches, the workers, the queues | as in `Cascade`; a `RequeueAfter` is an entry in the queue |
| the two ports | a pair, one value: the code looks links up and compares them in either order |
| the ports that the CR asks for, in the meta; the meta's `ID` | `meta.pair`; `meta.id` |
| the links in Netris; `LinksStorage` | `netris`; `storage`, with `Find` |
| `PortsStorage` | the pairs of `Unknown` name a port it lacks |

The CR reconciler goes as in `Resource`, with `XDeleteNetris` for the link of the meta.  The meta
reconciler goes `MFindForImport` and `MImport`, or `MFindByID`, or `MCreate` and `MRecordID`.  A move to
other ports takes two rounds: `MDeleteOld` and `MForget` remove the link and its ID, and a later round creates
the one that the meta asks for by then.  `MPortMissing` is a round that ends since the CR names a port that is not there.

Whether Netris refuses to add a link that is there, and to delete one that is not, the code does not say: `strict`
has it both ways.  `made` and `lost` are history variables, which no action reads but to keep them: the links in
Netris that are the operator's, and those of them that the deletion of the CR could not know of.

### Storage

Thirty-two reconcilers and two watchers look things up in netrisstorage, each from its own goroutine.  Its fourteen
lists are fourteen files of one form; `Lists` states what differs, which is the look-ups that each has and which of them download
the list again when they miss.

| code | model |
|---|---|
| the lists in Netris | `netris`; `ver` counts the changes, which the code cannot see |
| the lists in memory; the mutex of each | `copy`; `owner` |
| a goroutine in a look-up, and `DownloadWithInterval` | `t`, by thread: where it is, which list, what it looks for, Netris's reply |
| `main` has downloaded the lists, or failed to, and has gone on | `up` |
| what a look-up has returned | `got` |

`Call` begins a look-up.  `LookUp` answers at once from the copy; `Miss` locks the mutex and asks Netris, which
answers by `Respond`, and `Reload` stores the answer, looks again and unlocks.  The full
download goes `Tick`, then `Request` and `Store` for each list, and stops at the first error.

Abstractions: an object is the key it is looked up by.  The mutex of `Storage` itself is not kept: only the one
goroutine that downloads everything takes it.  A look-up that does not download is one step, since it
holds the mutex from beginning to end and does nothing else.

### Copies

What netrisstorage promises its callers: one copy of each list, replaced as a whole by what Netris holds at
that moment, and look-ups that answer by the copy in one step.  `Storage` implements it (`KeepsCopies`), where an answer that
its thread has received and not stored yet counts as the copy already: nobody else can look at it, for the
thread holds the mutex.  `Resource`, `Cascade` and `Link` use netrisstorage in this form.

### CalicoWatcher

| code | model |
|---|---|
| nodes: `IPv4Address` and `IPv4IPIPTunnelAddr` present, `ASNumber` | `node` |
| BGPConfiguration: the annotation, `nodeToNodeMeshEnabled` (may be nil) | `conf` |
| Calico's IP pools, the peer `netris-controller` | `pools`, `peer` |
| the BGPs annotated `k8s.netris.ai/calicowatcher`: AS number, deletion, session status | `bgp`, and `bgpCache` for the informer |
| `w.data`, and where `process` or `deleteProcess` is | `w` |

`WGetConf` decides between `process` (`WGetPools`, `WGetNodes`, `WFillASN` node by node,
`WNodesProcessing`, `WListBGPs`, the calls for the BGPs, `WGetPeer`, `WWritePeer`, `WSwitchMesh`) and
`deleteProcess` (`WUnmesh`, `WGetNodes`, `WDeleteASN`, and the same calls without creates).  An
error ends the pass where the code returns it and is passed over where the code prints it.
`WPanic` is the index out of range of `getIPPools`; "stopping" is the send to `w.stop` that
nobody receives.  `Budgets` are the sets of disturbances a behaviour may meet.

Abstractions: one BGP configuration; all nodes have their addresses in one subnet, so that
one site and one VNet are found or not (a fault); a BGP has the name of its node and of its
spec the AS number, which stands for every field `compareBGPs` compares; the order in which
nodes get their numbers is arbitrary; the numbers are inside the configured range (numbers
outside it are the user's and `deleteNodesASNs` leaves them); the API server performs the JSON
patch `replace` on an annotation that is not there yet, which the code relies on.

### LBWatcher

| code | model |
|---|---|
| Services of type LoadBalancer, by UID: ports, `loadBalancerIP`, the status's ingress | `svc` |
| the hosts that run their pods | `pods` |
| the L4LBs with the watcher's annotations: frontend address, backends, site, deletion | `lb` |
| L4LBs whose generation is not that of their meta | `edited` |
| the metas: address, deletion | `meta` |
| the load balancers in Netris, by name: the one whose id the meta holds, and those whose id no meta holds | `vip`, `stray` |
| the meta reconciler between Netris's answer to a create and the patch of the id | `m` |
| the lists and maps of `loadBalancerProcess` | `w` |

`WList` (`getL4LBs`), `WServices` and `WGenerate` (the pods, `generateLoadBalancers`,
`compareLoadBalancers`) read and compare; `WDelete`, `WUpdate`, `WCreate` and `WAssignIngress` are one call
each, in the code's order, and `WEnd` ends the pass.  An error of the first three ends the pass,
an error of a call is logged and the pass goes on.  The maps the code fills on its way are
operators: `ipAuto` is `AutoChoices`, `IPsMap` is `InheritChoices`, `lbIngressMap` and
`serviceIngressMap` are `Actual` and `Published`, and `siteName` is `SiteNames`.

The L4LB reconcilers are there as far as the address goes, with one action for each reconciliation that makes a call which
matters to it.  The CR reconciler makes or refreshes the meta (`Translate`), marks it (`DeleteMeta`), and lets the L4LB go when there is none
(`Release`).  The meta reconciler takes over a load balancer that is there under the name (`MImport`: the watcher's L4LBs all import),
creates one (`MCreate`) and patches its id and address into the meta (`MRecord`), updates it (`MUpdate`), writes the address back into the L4LB
(`MReport`), and deletes, first in Netris, then the meta (`MDelete`).  Between `MCreate` and `MRecord` anything may
happen: when the CR reconciler has written or marked the meta, the patch is refused, and the load balancer is a stray one, which
a later import finds, if an L4LB of that name is made again, and which else stays in Netris for ever.

Abstractions: a Service that gets another type is one that is removed, and one made again under the same name is another; the pods of all
Services are read in one step; each host's site is known to netrisstorage; the watcher reads L4LBs through
the manager's cache, which has caught up when the next pass begins, ten seconds later, and may
be as old as the beginning of the pass; an update is accepted when
the L4LB still is what was listed (see *Resource versions* above); a call of the L4LB reconcilers that fails is one that is not made yet, but for
the create with the patch of the id, and they read what is there and not an informer's copy: the rest is `Cascade`'s subject; which L4LB is the last of a list is
chosen for each map anew, which allows more than the code does; of the spec the check's timeout
is left out, which never changes; the events for failed L4LBs are left out.

## The runs

| run | instance | what it shows |
|---|---|---|
| `vnet_safety` | a VNet with or without annotations, two incarnations, two edits; an outdated read, or a first spec that is refused | `TypeOK`, `GenerationNeverAhead`, `MetaRequiresFinalizer`, `IDNeverLost`, `GenerationNeverRegresses`, and `KeepsLedger`, the refinement |
| `direct_live` | an importing Nat whose object is in Netris, with a fault and drift; a VPC, importing or without annotations, whose first spec cannot be translated, with a crash and an annotation; a Softgate whose address is left open and then given, with a fault; a Controller likewise | `ImportAdopts`, `EditsKept`, `RetryAdopts`, `EventuallySettled` |
| `cascade` | an L4LB whose address, or whose tenant or site, is open, with an edit, or imported with a fault; an importing Site with each other disturbance; a delete at any moment | `TypeOK`, `ObjectFirst`, `KeepsLedger`, `EventuallySettled` |
| `link` | a Link that is moved, also to a port that does not exist, that imports, or that meets somebody else's link, with one disturbance each; a delete at any moment | `TypeOK`, `NothingLeft`, `KeepsLedger`, `EventuallySettled` |
| `storage` | three lists, the last of which Netris never answers for; two callers; one change, one fault | `TypeOK`, `NeverBackwards`, `NoFalseMiss`, `LookUpsEnd`, `BecomesCurrent`, and `KeepsCopies`, the refinement |
| `calico` | three nodes, numbers for two; a crash, a leave and a join, or an annotation toggled twice and an edited peer, or a fault, an outdated list, a session that goes down and a toggled annotation | `TypeOK`, `DistinctASNs`, `DeletesUnderMesh`, `MeshFollows`, `ServesNodes`, `CleansUp` |
| `lb_live` | a Service with up to two ports, two addresses; any two of faults, edits, moves of the pods, deleted L4LBs, the removal, or imports that look for an object before it is in netrisstorage | `TypeOK`, `OneAddress`, `EventuallySettled` |
| `vnet_bare`, `vnet_delete`, `calico_peers`, `lb_site`, `link_delete` | | disagreements, see below |

**Bounds.**  `MaxUid`, `MaxEdit` and `MaxId` bound how often a CR is created, how many specs the user gives it, and
how many objects Netris creates; generations have no bound of their own, since a write-back fills an address in at
most once per edit; the scenarios and budgets bound how often each kind of disturbance occurs: once or
not at all, but for the annotation of `calico` and for `lb_live`.  Two incarnations are the least in which the meta of one
meets the CR of the next; two edits the least in which a meta, or the CR itself by a write-back, can be taken back; two objects
the least in which one is doubled.  A violation by more disturbances than one of each would have
to need two faults in a row, and after a fault a reconciler starts from the caches again:
what a second one finds is a state that the first one, or none, can lead to.  `direct_live` has three ids: what a behaviour would need a
fourth for, it waits for, and it settles all the same.  In `vnet_safety` Netris
hands out one id, since its properties speak of having an id and of losing it and not of
which; a meta that holds an id and is written without it is noticed.  Faults are left to
the other runs and to the proofs of its properties, which allow any number of them.  In `cascade` and `link` each behaviour meets
one kind of disturbance, besides a delete, which may come at any moment; three ids are enough, one for an object that is there and two for one that
is made and made again, and two pairs of ports for a move.  `storage` has a list with and one without a look-up by name that downloads,
and one that fails behind them; two callers and the full download are the least that can overtake each other with one change.  In `calico` a third
node joins when two have taken the two numbers there are.  An annotation that goes and comes back has
the nodes numbered anew, and differently, while their BGPs are still being deleted.  In `lb_live` two disturbances of any kind, the same or
different, are enough for a failed call in a pass that had to undo something; two ports are the least
that can get two addresses, and two addresses the least by which they can differ.  For the properties
that are proved the bounds do not matter.

**Deadlock** is checked in the runs of `Storage` and `LBWatcher`, whose tickers always fire, and of `Cascade`, whose
informers always report again; that says little there, and a look-up or a deletion that waits for ever is what the liveness
properties are for.  In the others it is not (`CHECK_DEADLOCK FALSE`): once UIDs, edits and disturbances are used up
and all agrees, the bounded system rests.

**Fairness** (used by the runs with a liveness property).

* *The reconcilers*: informers deliver, timers fire, a worker that has begun goes on to its end (weak
  fairness); a queued key is taken in the end, though the worker is not free all the time - the
  workqueue is first in, first out - which takes strong fairness for `XLoad` and `MLoad`.
* *`Cascade`* counts on `Resync` for a Site only.  Ten hours are a long time for an L4LB, which has its timer; a deletion of a Site
  has nothing else when the meta's last event comes before the CR's.
* *`Link`* counts on more: the CR reconciler's write of the meta is not refused for ever because the meta
  reconciler has written in between (strong fairness of a write that takes effect).  The write follows its read within
  one process, and the meta reconciler calls Netris between any two of its patches.
* *`Storage`*: requests have a timeout, the ticker fires, and a mutex that is asked for again and
  again goes to each that waits (Go's mutexes hand over to a waiter after a millisecond), which is
  strong fairness for taking it.
* *`CalicoWatcher`*: the ticker fires and a pass goes on, the informer delivers, Calico gives a
  node its addresses, and the BGP reconcilers finish a deletion.
* *`LBWatcher`*: the ticker fires and a pass goes on, and each L4LB
  reconciler comes round.  `Translate` of another address has strong fairness: an L4LB that the watcher edits wakes the CR
  reconciler at once, while the meta reconciler, which would take the edit back, comes by a timer of
  its own; the one cannot lose to the other for ever.

Nothing is assumed of users, faults, drift or sessions.

**Restrictions** that the code needs:

* `ImportAdopts` is about CRs that all import, whose object netrisstorage had from its first download and is
  still in Netris: one made less than ten seconds ago is not found by the kinds that do not download again.  The kinds that ask
  Netris by name take a failed call for "not found", and for them it speaks of the time before a fault.
* `RetryAdopts` speaks of the time before a fault: the
  kinds that download again drop the error of that download, and a create follows.
* `NoFalseMiss` leaves out a look-up whose own request failed, for the same reason; and `BecomesCurrent` is about the lists before
  the first one that fails: the download stops there, and those behind it stay as they were.
* In run `link`, `NothingLeft` leaves out the policy `retain`, a change of the policy, which may not have reached the meta, and outdated reads.  It
  speaks of the links that the deletion could know of: a create that failed after all, or whose ID was not recorded, is not among them.
  With edits it holds only where the run has it, of one edit and nothing else: two edits, an edit and a failed call, an edit and a link of
  somebody else, or an edit under a Netris that accepts to delete what is not there, leave a link behind (run `link_delete`
  is the shortest of these), since a deletion takes the link that the meta asks for and not the one it has recorded.
* `EventuallySettled` of `Cascade` and `Link` allows a meta without a CR after an outdated read: a CR whose deletion begins
  while the informer does not have its meta yet is let go at once.  In `Cascade` an edit leaves the address as
  it is, since a write-back that began before may take an edited one back, and the user's address is lost.  In `Link` it leaves out a deletion that
  has come before the edit has reached the meta (`Overtaken`): the meta reconciler makes the meta's link
  and removes it again, over and over, and the deletion is through only when it meets the link in a Netris that refuses to delete
  what is not there.
* In `link`, `EventuallySettled` also allows a CR to stay in `Failure`: under a Netris that refuses a link which is there, when somebody else has made it
  (`Taken`), and when the operator has made it itself in a request whose reply it did not get, or before a patch of the ID that was refused
  (`Unrecorded`).  `createLink` makes it again at every retry and never looks for it, so that the link works while the CR says `Failure` and the meta has no
  ID, for good: CR, meta and Netris do not agree there.
* `DeletesUnderMesh` is about the calls of the passes that clear up.  It does not say that the nodes are never without both: when the annotation comes back
  while BGPs are being deleted, the managed pass counts those that are still up (`bgpActive` does not look at deletion timestamps),
  may turn the mesh off, and the BGPs go.  `MeshFollows` and `ServesNodes` have it that nodes and mesh recover.
* `Settled` of `LBWatcher` allows a second load balancer of a name when an import was made from a netrisstorage that was out of date,
  and says nothing of those whose Service or port is gone: one whose id was not recorded before its meta was marked stays (`stray`).
* `OneAddress` speaks of the time before the first edit: a port that is added takes the address of a port that stays, but of one that
  has none yet it takes none, and then Netris may choose two; `EventuallySettled` shows that it comes right.

## The proofs

All for every value of the constants: any number of incarnations, edits, ids, nodes,
AS numbers, lists, callers, Services and disturbances.  The only assumptions are the named `ASSUME`s next to the constants,
which say that bounds are natural numbers, that the range of AS numbers is as
`validateASNRange` leaves it, and that the sentinels (`NoCR`, `NoNode`, ...) are none of
the values they stand beside.  TLC evaluates them in every run.

`ResourceProofs`:

* `TypeCorrect`, `Spec => []TypeOK`.  Inductive as it stands: `TypeOK` says of each worker what it
  holds at each point (a worker that compares has an id to compare by).
* `FinalizerRequired`, `Spec => []MetaRequiresFinalizer`.  Not inductive: a meta is created by
  a worker's copy of the CR, which may be outdated and of an earlier incarnation.  The invariant adds
  that *every copy* of a CR - in the cache, in either worker - that carries the finalizer
  is of a UID handed out before, and that the CR of that UID, if still there, carries it too; and
  that no UID not yet handed out has a copy or a meta.  The finalizer is cleared only together
  with the CR, so a copy that has it never runs ahead of the CR.
* `IDKept`, `Spec => IDNeverLost`.  A patch by the meta reconciler and an update by the CR reconciler
  are accepted only if the meta still is what the writer read, so the id the writer carries
  over is the id that is there.
* `EditsSafe`, `Spec => EditsKept`.  Every patch of a CR is accepted only if the CR still is what the
  reconciler read, so what it carries of the spec is what is there; the write-back alone changes the spec, and a
  worker gets there only with a CR whose address was open when it was read (part of `TypeOK`).

`ResourceLedgerProofs`:

* `GenerationsBehind`, `Spec => []GenerationNeverAhead`, and `GenerationsOnward`,
  `Spec => GenerationNeverRegresses`.  Both rest on `OrderInv`, the order in which an incarnation is known: every
  copy of the CR is of no later generation than the CR; what `x` has read is no newer than the cache it was read
  from; a meta is of no later generation than the CR or the CR reconciler's cache.  The last is why no
  write takes a meta back: `x` writes from a copy of the CR at least as new as the one behind any meta it can replace.
* `ImplementsLedger`, `Spec => KeepsLedger`.  How a CR's life moves is one lemma (`Moves`), how the metas move
  another (`MetaMovesStep`); that a meta is erased only for a CR that the user has deleted needs that a copy that is
  being deleted is of a CR that is, or is gone, which is in `OrderInv` too.

`ResourceImportProofs`:

* `ImportSafe`, `Spec => []ImportAdopts`.  `ImportInv` says of every copy of a CR that it imports, of every copy of a meta that it was
  made for one that does, and that the first object is the only one there has been (`FirstOnly`): it is in Netris and in
  netrisstorage's copy, and `m` is nowhere between a look-up that has missed and the end of a create.  For such a meta each kind's
  look-up finds the object, by the name or, once recorded, by the id; that it can be gone from the copy only when it is
  gone from Netris is what the hypothesis that it is still there gives, in every state before.
* `RetrySafe`, `Spec => RetryAdopts`, with `NameFree`: a worker that is about to create for an importing meta without an id, after
  a look-up that downloads on a miss, does so while Netris is empty.  Only `m` itself creates.

`CascadeProofs` and `LinkProofs`: `TypeCorrect`, and `ImplementsLedger` (`Spec => KeepsLedger`), by an
invariant `LedgerInv` of the same kind as that of `ResourceProofs`, which also says that only a CR the user has deleted is being deleted
in a copy.  `CascadeProofs` has `ObjectGoesFirst` (`Spec => ObjectFirst`) besides, with the invariant `Deleted`: the object that the meta
reconciler has deleted stays away until the meta goes, since Netris never hands out an id twice, and the update that lets the meta go is accepted only if the
meta still is what was read, id and policy included.

`LinkProofs` has besides `UneditedLeavesNothing`, `Spec => [](~Spent("edit") => NothingLeft)`.  The property speaks of a CR that is gone, and
the three calls of a deletion - the link, the meta, the CR - are decided by what the reconciler has loaded, while the meta's reconciler may
be creating or recording the link.  The invariant `CleanInv` has three parts: nobody asks for another link than the one that the CR was made
with, in any copy (`OnlyWished`), so that the meta's reconciler moves nothing; the CR is let go only when there is no meta (`LetGoClean`); and a link that is
the operator's is recorded in the meta, or about to be, or counts as one that the deletion could not know of (`Recorded`).  It holds for any number of
faults, crashes and links removed or made by others, where the run has one of these at a time.  With an edit the property is false in general (see
*Restrictions*), and the cases with one in which it holds are model-checked only.

`StorageProofs`:

* `TypeCorrect`, `Spec => []TypeOK`, of which `MutexOK` is the heart: a thread holds the mutex of its list exactly from its
  request to its end, so that there is one such thread for a list.
* `CopiesAge`, `Spec => NeverBackwards`, with `AgesOK`: a reply that has not been stored is no older
  than the copy, since the copy does not change while the mutex is held; and neither is newer than Netris.
* `LooksTwice`, `Spec => NoFalseMiss`, with `PresentInv`: what was in Netris when the look-up was called, and since, is there while it waits or asks,
  and is in a reply that has come.  A second look misses only after a request of its own, and a thread that gets an answer
  has stored the reply that it looks at.
* `ImplementsCopies`, `Spec => KeepsCopies`.  A successful reply of Netris is the abstract refresh; storing it changes
  nothing any more, and answers the look-up.

`CalicoWatcherProofs`:

* `TypeCorrect`, `Spec => []TypeOK`.  `TypeOK` alone is not inductive: that a BGP never gets the AS number 0
  needs `Knows`, what the watcher knows at each point of a pass, above all
  that behind `nodesProcessing` every node that gets a BGP has a number.
* `NumbersDistinct`, `Spec => []DistinctASNs`.  With `SnapshotCovers`: while numbers are handed
  out, every number a node of the cluster has is in the list the pass has read.  A node that
  joined since has none, nobody else writes numbers, and what the pass writes it enters in the list; so a
  number that is free by the list is free in the cluster.
* `MeshUnderDeletes`, `Spec => DeletesUnderMesh`.  With `SwitchKnown` (before the mesh is made sure of the
  switch still is as it was read) and `MeshKept` (afterwards, to the end of the pass, it is
  not off), and `TakesAway`, that only the calls behind them take a BGP, a number or the peer away: only the watcher writes the switch, and the write that turns it off belongs to passes of the other
  mode.

`LBWatcherProofs`:

* `TypeCorrect`, `Spec => []TypeOK`, by `TypeInv`, which says besides what the watcher holds at each point.  A type theorem, but for the
  reply that the meta reconciler holds: until it is recorded its meta is there, without an id, and its load balancer is in Netris, because a
  meta is let go, and another load balancer taken over, by the meta reconciler alone.  It does not say that each load balancer has a meta, nor a meta an L4LB:
  the first is false, as `stray` shows.
* `AddressChosenOnce`, `Spec => OneAddress`.  The heart of `AddressInv` is `OpenAlone`: an L4LB without an address is the only one of its Service,
  in the API server and in the list of a pass.  A pass works on a list that is out of date when it makes its calls, so the invariant relates
  what it wants to its list (`WantOK`: it neither gives an address to an L4LB nor takes one from it, and wants one without an address only beside no
  other), the list to the L4LBs there are by now (`SeenOK`: what is not in the list the pass has made; no L4LB loses its address), and what was
  read of a Service to the Service (`ReadOK`).  It needs no hypothesis on faults: a call that fails has happened or has not, and the next pass
  starts from a new list.

Model-checked only: liveness (`EventuallySettled` in four modules, `MeshFollows`, `ServesNodes`, `CleansUp`, `LookUpsEnd`,
`BecomesCurrent`), which is beyond this use of the prover; and `NothingLeft` of a Link that is edited.

## Disagreements between code and documentation

Each is a run in which TLC finds the property violated.

* `vnet_bare`: a VNet without any annotation makes `vnetUpdateDefaultAnnotations` assign
  into a nil map.  The process panics, and does so again after every start.  The three kinds of
  newest code (VPC, ServerCluster, ServerClusterTemplate) and InventoryServer make the map first.
* `vnet_delete`: a VNet deleted between the create in Netris and the patch of the id leaves its
  object in Netris.
* `calico_peers`: a BGP that could not be created is only printed, and the mesh goes off
  all the same when the BGPs listed before are up.
* `lb_site`: the site of an L4LB is that of the first service's first host, whatever service it is for; a service
  whose pods run in another site gets an L4LB in a site its backends are not in.
* `link_delete`: the deletion of a Link deletes the link that the meta asks for, not the one recorded as its ID.  A Link that is edited
  onto ports somebody else has linked, and deleted before the move, takes the other link away and leaves its own.

Two more are in the model as what the code does, without a run of their own: a Calico without IP
pools ends the process (`WPanic`), and in a cluster without Calico the watcher blocks where it
says that it stopped (state "stopping").  Some of what the models do is not promised otherwise anywhere and has no run
either:

* a `reclaimPolicy` set to `retain` just before the delete may not have reached the meta the deletion
  reads it from;
* a failed `GetByID` counts as "not found", and a second object is created, on which the CR settles;
* a Link whose ID could not be recorded is refused by a Netris that has the link, at every retry, and its CR stays in `Failure`;
* an L4LB that is deleted between the create of its load balancer and the patch of the id leaves the load balancer in Netris;
* a BGP that is being deleted counts as active: an annotation that is removed and put back may leave the nodes without mesh and BGPs for some passes;
* an import takes a piece of hardware's addresses from Netris in place of those the user wrote, until
  the next edit;
* a Link whose deletion is under way, and whose link is deleted, may be linked once more by the meta reconciler, which does not look
  whether the CR is being deleted;
* an automatic service may change its address when an L4LB without one is still
  being deleted, since that L4LB's may be the one `ipAuto` keeps; a service whose pods are gone
  keeps its ingress address;
* an AS number is assigned into the annotations of a node, and defaults into those of a Link, L4LB or Site, nil maps when there are none;
* the BGPConfiguration is written back whole from the type the client knows;
* a first download that fails is only logged, and the reconcilers start on empty lists.

## What is not modelled

* *The API handler and its helpers* (ports, sites, gateways): functions without state.  That a port or a site is not found
  is `XTranslateFails`.
* The *translations* field by field, and with them the word "auto" that an InventoryServer may carry for an address, in place of none: the comparison
  then never finds the object as it should be.
* An edit that changes an L4LB's address is in `Cascade` (`EditAddresses`), and in the proofs about it, but in no run.
* *L4LBs of a Service* go through `LBWatcher`'s actions and not through `Cascade`'s calls: the two modules are not composed, and
  the L4LB reconcilers' outdated reads and failed calls are in `Cascade` only.
* *Declarations, generated deep copies, CRD YAML, the configuration's parsing, logging and events*: data
  and wording without control that a property is about.

### Plan

1. `Fields`: for each kind the fields that are translated, compared and sent, as sets: an update loop converges
   when every compared field is sent.  It refines `Same` of `Resource`, and has the addresses one by one.
2. `LBWatcher` over `Cascade`: its actions of the two L4LB reconcilers as what `Cascade` implements.
3. A condition on a Link's edits under which `NothingLeft` holds with faults, and its proof; properties for the hazards
   that have none yet, and theorems about them.
