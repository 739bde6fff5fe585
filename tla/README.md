# fnruntime in TLA+

fnruntime runs Kubernetes controllers that are written as configurations: a
ConfigMap holds a `ControllerConfig`, which names the kind of resource a
controller is for and the pipeline of functions (jq expressions, templates,
queries, container images) that is executed whenever such a resource changes.
This directory holds TLA+ models of the program, the TLC runs that check them
and the TLAPS proofs about them.

    tlc -config FnCtrlr_safety.cfg MCFnCtrlr.tla      # one run
    tlapm FnCtrlrProofs.tla                           # one module of proofs

## 1. The system

| part | state | operations | talks to |
|---|---|---|---|
| **function controller** `fnctrlrcontroller`, `fnctrlrreconciler` | the watch of one ConfigMap; `r.cm`, the configuration of the last Reconcile that got through; `r.fni`, `r.fne`, the controllers it started | `Start`/`start` (get, update, watch, one Reconcile per event), `Reconcile` | API server; starts and stops the next two |
| **executor controller** `fnexeccontroller` | `cancel` (not nil: "running"), context, two goroutines (cache, controller) | `Start`, `Stop`, `IsRunning` | controller-runtime; calls the resource reconciler |
| **image manager, image controllers** `imgmanager`, `imgcontroller` | `cancel`, context, one goroutine per image with its two watches | `New`, `Start`, `Stop`; `applyPod`, `applyService`, events | API server; image store |
| **stores** `imagestore`, `ctrlstore` | for each image the client of its pod | `Create`, `SetClient`, `DeleteClient`, `Get...Client` | written by image controllers, read by the proxy |
| **function proxy** `fnproxy`, `grpcserver`, handlers | a semaphore of `MaxRPC` permits, requests under way | `ExecuteFunction`, `ApplyResource`, `DeleteResource`, `Check`, `Watch`, `Start`, `Stop` | image store, pods |
| **resource reconciler** `controllers/reconciler` | nothing of its own; the custom resource, its finalizer and status | `Reconcile`: finalizer, delete pipeline, apply pipeline, outputs, status | API server, pipeline |
| **pipeline** `builder`, `exechandler`, `rtdag`, `output`, `result` | outputs and results of one execution | `FunctionRun` for each vertex, in parallel, in the order of the DAG; an executor within the executor for each block | function execution |
| **function execution** `fnmap/functions` | the shared input, the output of one function | `exec` and eight types of function | jq, API server, proxy |
| **event handler** `eventhandler` | none | a pipeline for each watch event | pipeline |
| **managers** `main`, `fnmanager`, `fnctrlrmanager` | the channel for errors, the context of the signals, the lease of the controller manager | `New`, `Start`: three parts, of which the first error ends the process | all |

`pkg/exec/fnruntime`, `pkg/fnproxy/cache`, `watcher` and the service and pod
code of the proxy are not called by anything that runs.

What is hard in it:

* *Failure between two steps.* Reconcile stops, makes and starts controllers and
  then updates the ConfigMap; each step can fail, the error is logged and
  nothing is requeued. What is the next Reconcile to think of what it finds?
* *State that says less than it seems to.* `IsRunning` is `cancel != nil`.
* *A field shared without a lock.* `cancel` of the executor controller and of
  the image manager is read and written by Stop and by goroutines.
* *Generations that overlap.* Stop cancels a context and waits for nobody.
* *Events that are lost, versions that are out of date*, as always with the API
  server.
* *Permits* that must come back on every way out, deadlines that pass at the
  moment of a grant, streams that keep a permit for ever.
* *One input for many runs* of a function, with variables that stay in it.
* *One output for many functions* that run in parallel, and in nested executors
  whose result nobody looks at.
* *A lease* that only some of the parts wait for, and that can be lost.

The full list, with lines and the properties that cover each item, is in
`PROJECT.json` under `hazards`.

## 2. Modules

| module | models | state and actions |
|---|---|---|
| `CtrlLife` | what Reconcile relies on in the controllers it starts | `phase`, `cancelled`, the goroutines that have `ended`, `down`; `Start`, `Cancel`, `End`, `Stop`, `OthersEnd` |
| `FnCtrlr` | function controller and reconciler, API server, users, process | `pc` is the place in `Start`/`start`/`Reconcile`; `rcm`, `fni`, `fne` are the fields; one action per call that can fail |
| `FnExecCtrl` | executor controller | Start, Stop and the goroutines `Routine`, statement by statement around `cancel` |
| `FnManager` | the process: `main`, `fnmgr.Start`, its three parts, signals, leader election, with an executor controller in it | `part[p]` is off, running, sending its error or returned; `lease` is free, ours or theirs |
| `ImgManager` | generations of image managers, image controllers, image store, pods | `pc[g][i]` is the image controller of image `i` in generation `g` |
| `FnProxy` | the gRPC server and its handlers | `pc[c]` for each request, `cur` and `queue` of the semaphore |
| `FnExec` | `exec` of one function | `n` is the item, `todo` the variables to resolve, `input` the shared input, `calls` what was run |
| `RtDag` | the DAG of a pipeline and those of its blocks, as constants | |
| `Pipeline` | what a pipeline promises: its functions as if one at a time | `done`, `out`, `seen`; `Run`, `Take`, `Fail` |
| `FnPipeline` | one execution of a pipeline: executors, `FunctionRun`, blocks, the two callers | `pc[v]` is the place in `FunctionRun` of vertex `v`, `exec[d]` the executor of DAG `d`, `out` the shared output |
| `CrReconciler` | the resource reconciler under controllers that replace each other | `pc[g]`, `copy[g]` and `data[g]` with their versions, the queue |
| `FnCtrlrProofs`, `FnExecCtrlProofs`, `FnManagerProofs`, `ImgManagerProofs`, `FnProxyProofs`, `FnExecProofs`, `FnPipelineProofs`, `CrReconcilerProofs` | theorems | |
| `MC...` | instances for TLC | |

How the modules compose. `CtrlLife` is what the reconciler relies on in a
controller it starts: it is started and stopped once, in this order, and stays
stopped; no goroutine of it ends before the context they share is cancelled, so
they end together; the context is cancelled before Stop returns; and the process
may panic in one of its goroutines only after that Stop. `FnExecCtrl` and
`ImgManager` are the two implementations, and `IsCtrlLife` and `ManagersLive`
say that they refine it: `phase` is "started" from the return of Start, with or
without an error, for as long as the field `cancel` is set, and `cancelled` is
the context. `FnCtrlr` keeps less of them, records `[cancel, live]` in `r.fni`
and `r.fne`: `cancel` is the phase "started", and `live` is that without a
cancelled context. That its steps on the records are those of the two modules is
by construction of the records and not a refinement that is checked.

`FnManager` EXTENDS `FnExecCtrl` and puts it into a process: its `Start` and
`Stop` are called by the function controllers, one of the three parts; its
goroutines wait for the election, which only a running controller manager that
gets the lease wins; its context ends with that of `main`; and nothing of it
moves once the process is gone. Every step of the process is a step of
`FnExecCtrl` or leaves it alone, so what holds of the executor controller by
itself holds in the process (theorem `Composes`).

`FnProxy` and `ImgManager` share the image store: `ImageController` of the first
is `SetClient`/`DeleteClient` of the second. A pipeline is seen at three levels:
`CrReconciler` takes it as one step with a set of outputs (`RunApply`), which may
fail and then leaves any part of them; `FnPipeline` is its execution, and
implements `Pipeline` (property `AsIfSequential`), which says why the one step is
right as long as nothing fails: functions that run in parallel and read their
input name by name end with what they would have found one after the other, and
the caller takes the outputs after the last of them; `FnExec` looks into a single
function, which is `RunFunction` of `FnPipeline`.

What the data are. A configuration is a number, 0 where there is none, and
"valid" is a constant set. A copy of an object carries a flag instead of a
resource version: *stale*, when somebody has written since it was read. An
entry of a function's input is the value's origin and the number of lists it is
wrapped in; a result is the input it was computed from. Time does not appear: a
pause or a deadline may end at any moment.

The API server is modelled from how the code uses it: `Get`, `Update` refused
when the copy is stale, `Update` applied with its answer lost, a watch that
begins with an ADDED event for the object that is there, that shows only
objects with the label, and that ends whenever the server likes. The semaphore
is that of `golang.org/x/sync`: a queue, served in order, and a waiter that was
granted a permit keeps it even when its deadline has passed. The executor of a
DAG is a library too: it calls a function when all that it depends on succeeded,
returns after the last one or after one that failed, and does not wait for those
that still run.

## 3. Runs

| run | asks | distinct states |
|---|---|---|
| `FnCtrlr_safety` | all faults; users edit, revert, delete: `IInv`, `ProtectedWhileRunning`, `NoOrphanOnceGood`, `OrphanNeedsFailure`, `FinalizerRemovedLast` | 100 000 |
| `FnCtrlr_liveness` | users also recreate, calls fail: `Converges`, `Released`, `QuiescentCorrect` (every event read, no error: what runs is what is configured) and `QuietInv`, from which it follows; `ServingIsKept` (no event of our own writes or of a new watch restarts what serves) | 9 200 |
| `FnManager_process` | a process with leader election and all failures: `IsCtrlLife`, `EndTogether` of its executor controller; `MInv`, with the invariant of that controller in it, `OneServes` (no executor controller serves without the lease, but for one whose manager has ended), `FailureEndsProcess` | 34 600 |
| `ImgManager_one` | one manager and every fault, clients that cannot be made included: `IInv`, `ClientMatchesPod`, `ReadyServed`, `UnreadyRemoved`, `ServiceRestored`, `ManagersLive` | 9 900 |
| `ImgManager_liveness` | two generations, the first of which may panic after its Stop: `ReadyServed`, `UnreadyRemoved` | 210 000 |
| `FnProxy_requests` | `PermitInv`, `Returns` | 25 000 |
| `FnExec_results` | `IInv`, `RangeResult`, `LocalsFresh`, `RightRuns` | 542 000 |
| `FnPipeline_run` | a pipeline for a Reconcile or an event, any function fails, is skipped or outputs nothing: `IInv`, `AsIfSequential`, `SeesFinal`, `NothingInBackground`, `BlockContainsFailure`, `Terminates` | 125 000 |
| `CrReconciler_faults` | `IInv`, `Settled`, `AppliedUnderFinalizer`, `Released`, `Converges` | 625 000 |

Every property has a mutant next to the definition it changes (`...Mutant`): a
bug somebody could have written, with which TLC finds the property violated.

### Where the code does not do what a comment says

Three runs end in a counterexample to a sentence in the code.

| run | sentence | what happens |
|---|---|---|
| `FnCtrlr_stalerunning` | "if the fnexeccontroller is running all ok, if not we need to run it" (`fnctrlrreconciler/reconciler.go:117`) | one whose goroutines have ended still has a `cancel` and is taken for running |
| `ImgManager_nilcall` | "cancel the controllers" (`imgmanager/manager.go:113`) | after Stop, `r.cancel()` is a call of nil |
| `FnExec_lastitem` | "each instance is recorded seperately" (`run_image.go:183`) | an image with a range keeps one result |

The models contain more behaviour of this kind, which limits what holds and has
no run of its own:

* `r.cm` after a refused Update: configuration 2 is started, its Update is
  refused, the user reverts to 1; `r.cm` is still 1, the change is not seen and
  2 runs on. `QuiescentCorrect` is checked without reverts for this reason, and
  without executor controllers that end on their own because of
  `FnCtrlr_stalerunning`.
* A ConfigMap that is deleted, recreated and deleted again before the finalizer
  is back: Reconcile does not find it and stops nothing. `ProtectedWhileRunning`
  is checked, and proved, without recreation.
* A controller that was replaced after a refused first Update is never stopped:
  `OrphanNeedsFailure` allows it, `NoOrphanOnceGood` says that nothing else does.
* `goto INIT` leads past the `select` on `ctx.Done()`, in
  `fnctrlrcontroller/controller.go` and `imgcontroller/controller.go` alike:
  with a cancelled context both loops retry for ever (`LeaveLoop`, `Pause`).
* A Stop between the nil check of `cancel` and its call
  (`fnexeccontroller/controller.go:177`) is a panic: `EndTogether` allows it.
* The context that `FnProxy`'s `Stop` cancels is looked at by nothing that serves.
* A local variable with the name of what it reads, as `topoDef` in
  `examples/topo4.yaml:94`, is one list deeper in each run; `Fits` refuses the
  third item.

* A block is a success when its nested executor has returned, whatever its
  functions did (`run_block.go:165`): what comes after it is called although a
  function in the block failed and others still run, and may read an output
  before it is there. `SeesFinal` and `NothingInBackground` are stated for
  executions without such a failure; without that condition TLC finds both
  violated. `BlockContainsFailure` says that the code does keep the failure in: an
  executor ends with success unless a function of its own fails by itself, which
  a block whose nested executor was started does not.
* The flag `leader-elect` "will ensure there is only one active controller
  manager" (`main.go:48`), but only the executor controllers wait for the
  election: the function controllers and image controllers of every process work
  (`CallStart` does not look at the lease). And when the lease is lost the
  executor controllers run on until the process ends: `OneServes` allows that.
* "Create enqueues a request for all infrastructures" (`eventhandler.go:76`): the
  event handler runs a pipeline, drops its outputs and enqueues nothing; and an
  image function in that pipeline calls a nil client, which is a panic
  (`ClientIsNil`).
* An image inside a block is given an entry under the name of the block's own
  root (`exechandler/handler.go:90`), for which nothing ever has an output.
* `initDefaults` (`fnmanager/manager.go:151-154`) gives its default for an empty
  probe address to the metrics address. It is not in a model.

### Bounds

* `MaxConfig = 3`: two configurations that are valid and one that is not, or
  three valid ones: enough for an edit, a second edit while the first is being
  worked on, and a revert. `MaxEvents = 2`: one unread event and one more
  behind it; users wait, the goroutine's own writes do not. Events carry nothing
  (Reconcile reads the object), so more of them only repeat a step.
* Two generations in `ImgManager` and `CrReconciler`: one that was stopped and
  one that serves. A third would meet the second as the second meets the first.
  Image controllers of different images share the manager's context and the loop
  that starts them, and a pod if their names collide (`utils.go:79`, which `PodOf`
  allows); the runs have one image, which the second generation also starts when
  it is no longer configured.
* `FnProxy`: one request of each kind over one permit: two may wait, of
  different kinds, behind one that may stay for ever.
* `FnExec`: every range of up to two values out of two and null, and one that
  has a value twice (a third run for a variable that is wrapped again); five sets
  of variables, among them one that reads another, one with the name of the
  pipeline's root and one with the name of the item; a single function.
* `FnPipeline`: ten functions in three DAGs: two functions side by side, a block
  after one of them, a block in that block beside another function, an image in
  it that reads from outside, and an image at the end that reads from both sides.
  It has every way the code knows for a function to come before another: an edge,
  an edge to the block it is in, an edge from the block the other is in.
* `FnManager`: one process and one executor controller; other processes are the
  lease they hold.
* `CrReconciler`: three user operations make create, edit and delete, or create,
  delete and create again; one failure, of any call or pipeline.

`CHECK_DEADLOCK FALSE` is set where the system may stop: with the process shut
down, a goroutine that panicked, a function that returned, every request
answered, users that have no operation left.

### Fairness

* Goroutines are scheduled: weak fairness of their steps.
* The API server ends every watch sooner or later, as it does after its request
  timeout: weak fairness of `ServerClosesWatch`. `Converges` and `Released`
  hang on it, since a Reconcile that failed is not called again before the next
  event, and the next watch begins with one.
* A call that is tried over and over succeeds over and over: strong fairness of
  the successful outcome of each call (`Adopt`, `Commit`, `ApplyPod`, ...).
  `ImgManager_liveness` has no failing calls and does without it.
* A process that panicked takes no step and owes none: every fairness condition
  of `ImgManager` is on a step of a process that has not, so behaviours that end
  in the nil call are fair, and its liveness properties ask nothing of them.
* A gRPC request with a deadline reaches it; a watch's client need not go away
  and a pod need not answer. `cache.Start` and `ctrl.Start` return when their
  context is cancelled.
* `FnManager`: `main` and `fnmgr.Start` are scheduled and start all parts, a
  cancelled context reaches those made from it, what runs on one returns. No part
  has to fail, no signal has to come, Stop need not be called, and the lease may
  never be ours.
* `FnPipeline`: functions return, the executor calls what it can as long as it
  runs, callers go on. Executions are finite, so one weak fairness condition
  for all of it is as good as one for each. A function that waits need not be
  called any more when its executor has returned.
* `CrReconciler`: the worker of the current controller runs, and failures are
  bounded by `MaxFailures`. Users are never fair.

## 4. Proofs

TLAPS proves, for all values of the constants (any number of configurations,
any set of faults and of user operations, any number of goroutines):

| theorem | says |
|---|---|
| `FnCtrlrProofs!TypeCorrect` | `Spec => []TypeOK` |
| `FnCtrlrProofs!Inductive` | `Spec => []IInv` |
| `FnCtrlrProofs!NoOrphan` | `Spec => NoOrphanOnceGood` |
| `FnCtrlrProofs!OrphanOnlyAfterFailure` | `Spec => OrphanNeedsFailure` |
| `FnCtrlrProofs!FinalizerLast` | `Spec => FinalizerRemovedLast` |
| `FnCtrlrProofs!Protected` | without recreation, `Spec => []ProtectedWhileRunning` |
| `FnCtrlrProofs!Remembers` | if `Tame`, `Spec => []QuietInv` |
| `FnCtrlrProofs!QuietIsCorrect` | if `Tame`, `Spec => []QuiescentCorrect` |
| `FnCtrlrProofs!KeepsServing` | if `Tame`, `Spec => ServingIsKept` |
| `FnExecCtrlProofs!Inductive` | `Spec => []IInv` |
| `FnExecCtrlProofs!Implements` | `Spec => IsCtrlLife` |
| `FnManagerProofs!Composes` | `MSpec => Spec`: the process implements `FnExecCtrl` |
| `FnManagerProofs!LivesInProcess` | `MSpec => IsCtrlLife` |
| `FnManagerProofs!MInductive` | `MSpec => []MInv` |
| `FnManagerProofs!OneServesAtATime` | `MSpec => []OneServes` |
| `ImgManagerProofs!Inductive` | `Spec => []IInv` |
| `ImgManagerProofs!ManagersImplement` | `Spec => ManagersLive` |
| `ImgManagerProofs!ClientsFollowPods` | `Spec => []ClientMatchesPod` |
| `FnProxyProofs!Permits` | `Spec => []PermitInv` |
| `FnExecProofs!RangeKeepsValues` | `WithoutNull(s) = Values(s)`, for every sequence |
| `FnExecProofs!Inductive` | `Spec => []IInv` |
| `FnExecProofs!OneResultPerItem` | `Spec => []RangeResult` |
| `FnExecProofs!FreshVariables` | `Spec => []LocalsFresh` |
| `FnExecProofs!RunsAndResult` | `Spec => []RightRuns` |
| `FnPipelineProofs!Inductive` | `Spec => []IInv` |
| `FnPipelineProofs!ReadsFinal` | `Spec => []SeesFinal` |
| `FnPipelineProofs!NoBackground` | `Spec => []NothingInBackground` |
| `FnPipelineProofs!ImplementsSequential` | `Spec => AsIfSequential`: the parallel execution implements `Pipeline` |
| `CrReconcilerProofs!Inductive` | `Spec => []IInv` |
| `CrReconcilerProofs!Rests` | `Spec => []Settled` |
| `CrReconcilerProofs!CleanedUp` | `Spec => AppliedUnderFinalizer` |

So every invariant and action property of the runs, and every refinement, is
proved.  The only assumptions are the named ASSUMEs of the modules and two
hypotheses about users and faults. The ASSUMEs say what kind of value a constant
has, that the blocks of a DAG are nested to some end (`RtDag`: a block is not
inside itself), that edges make no cycle and join functions of one block, that a
name is written by one function and read by those after it (the library that
builds the DAG is relied on for this), and that the variable of the item is neither that of the root
nor that of a reference (`FnExec`: `VALUE`, against the names `exechandler` and
the configuration give). `Protected` is for users that do not recreate;
`Remembers`, `QuietIsCorrect` and `KeepsServing` (hypothesis `Tame`) are for users that do not
write a former configuration again, and controllers and a process that do not
end on their own: section 3 says what happens otherwise.

*The argument for `FnCtrlr`.* None of the safety properties is inductive: that
the Reconcile at `StartExec` drops no live controller depends on what earlier
steps, and an earlier Reconcile, left behind. `IInv` says it, in two halves.
`ControlInv` is about the controllers: what is live has a cancel
(`LiveHasCancel`); a Reconcile under way knows which controllers have been
stopped (`StepFacts`); after a Reconcile without error, either r.cm is set and
the next change begins with a Stop, or nothing runs (`NothingToLose`).
`ObjectInv` is about the ConfigMap: a copy nobody spoilt is the object
(`CopyFresh`), so an Update never brings an absent object back, and only an
object that exists is adopted. Users touch only the second half, the goroutine
both, crashes only make controllers end: one lemma for each. `NoOrphan` and
`OrphanOnlyAfterFailure` then look at the two steps that replace a controller,
`FinalizerLast` at the one that removes the finalizer. `Protected` needs
`Followed` on top: between the first update and the deletion the ConfigMap
carries the finalizer, unless somebody replaced it.

`QuiescentCorrect` needs a second invariant, since `IInv` knows what may be lost
and not what is served. `QuietInv` has it in two parts. `Order`: without reverts
configurations only grow, `rcm <= cm.data <= obj.data`, and a copy of an object
that was being deleted is older than an object that is not. `Remembered`: if the
configuration in `r.cm` is wanted, in the ConfigMap or by the Reconcile under
way, it is served. Reconcile stops the executor controller only for a newer
configuration or for a deletion; by `Order` the remembered one is then not
wanted and, because nobody goes back, never again. An Update that succeeds had
an up-to-date copy, so when it is remembered it is what the ConfigMap says. After
a Reconcile without error `Remembered` says the converse as well: what serves is
what is remembered, so a Reconcile that finds its configuration served takes the
shortcut (`KeepsServing`).

*The argument for `FnExecCtrl`.* The field is cleared by Stop alone, after it
cancelled the context (`StopIsLast`), which is why a live controller can always
be stopped; the rest of `IInv` places Start and Stop with respect to each other.
Each step then is a step of `CtrlLife` or none: Start's last step is its Start, a
cancel by a goroutine, by Stop or from above is a Cancel, Stop's last assignment
is its Stop, and a goroutine past its nil check or its call is an End. That the
context is cancelled then is `GoroutineLives`: either it just called the field,
or the field was nil, which Stop made it after its cancel; and a call of nil, the
panic, is an End after a Stop.

*The argument for `FnManager`.* Each action of the process is one of
`FnExecCtrl` with a guard on the process, or leaves its variables unchanged
(`Composition`), so the theorems above carry over (`Composes`). `ProcessInv` adds what
ties the two together: before the election goroutines wait, before the manager
runs there is no election, and while an elected manager runs the lease is its
own; steps of the executor controller and steps of the process are one lemma
each. `MInv` is that and the `IInv` of the controller. `OneServes` follows: who serves has been elected, so with a manager that
still runs the lease is ours.

*The argument for `ImgManager`.* Of the twelve steps of an image controller a
manager sees three things (`Moves`): one goroutine moves on, never from or to
"off"; it gets to "cancel" only when the context is done; and no other field of
the manager changes. Everything about the managers follows from that and from
their own five steps. `GenerationFacts` is what makes it inductive: a Stop never
comes between a New and the end of its Start, so the loop of Start works on a
manager that has a cancel and a context, and the goroutines that call
`r.cancel()` find it cancelled already. So the last image started, or a Start
that gave up, is a Start of `CtrlLife`; the two halves of Stop are a Cancel and a
Stop; and the end of an image controller is an End, a panic only when Stop has
cleared the field. A panic in one manager is `OthersEnd` for every other. With
`FnExecCtrlProofs!Implements` both things Reconcile starts are proved to be what
it relies on.

*The argument for `FnProxy`.* `PermitInv` is inductive. Three actions touch the
permits or the queue. An Acquire adds one holder or one waiter, at the end. Who
gives up, and whom Release wakes, leaves the queue, and what is left of it is
all the others, each once (`WhoIsLeft`, from `OthersProperties` on the sequence
without one place). A Release that wakes a waiter replaces one holder by
another, so the count stays; one that finds nobody takes one from the count,
which is not zero because the request that releases is counted. All other steps
move a request between places that hold a permit, or between places that
neither hold nor wait (`GotoAlone`).

*The clients of `ImgManager`.* `ClientFact` says of an image controller with no
event unread that applyPod, where it is under way, works on the status the pod
still has, and that after one without error the client is what the status asks
for. A step of the controller itself is one lemma (`OwnClients`); for all others
(`OthersKeep`) it is enough that a change of the pod, by the kubelet or by an
image controller that shares it, is an unread event (`NotifiedFact`), and that
another image controller writes this client only if its generation has started
the same image, which `Alone` excludes.

*The argument for `FnExec`.* Two things are proved. The first is about data:
`runRange` appends what is not null (`WithoutNull`, a recursive function), and
the reference (`Values`) says where the k-th value comes from. The library's
induction theorems cannot be instantiated, so the proof takes the least k for
which a statement about the first k values would fail (`LeastNumber`, from the
well-foundedness of `<` on the numbers), once to show that the recursive
function exists (`ResultExists`) and once that it is what the ranks say
(`ResultFollows`, `RangeKeepsValues`). The second is about the runs. `RunFacts`
counts them: n items passed, n - 1 runs, and the single run after them on an
empty output. `InputFacts` is why nothing of an earlier item shows in a later
run although the entries stay in the shared input: what is not in `todo` has
been resolved again for the item whose turn it is. This needs `Plain`: a local
variable with the name of the item would be read in its place. `ResultFacts`
then says what is kept of the runs so far, by the type of the function.

*The argument for `FnPipeline`.* `Enclosing` and `Earlier` are least closed sets,
so what holds of all members of `Earlier` is proved by exhibiting a set closed
under its rules, not by induction. `CallFacts` and `ExecFacts` say what was
through when a function was called and when an executor returned: a function is
called after what it depends on, and a block's executor runs while its vertex
waits for it. Without a failure an executor that returned has nothing inside it
that still runs, at any depth: the blocks around a function lead to a member of
its DAG (`EnclosingChain`); that block has succeeded, so it left out all it
contains, or its own executor has returned before, with nothing left either. `SeesFinal` and
`NothingInBackground` are conjuncts of `IInv`. For the refinement, a step of
`FnPipeline` is a `Run` of `Pipeline` when a function gets through (`Through`:
its output is added, its result not yet sent), a `Take` when the executor of the
whole returned, a `Fail` when something has failed after it, and a stutter
otherwise; that `Run` saw the right inputs is `SeesFinal`, and that
`Take` comes after all `Run`s is `NothingInBackground`.

*The argument for `CrReconciler`.* `IInv` distinguishes the current controller
from those that were replaced, of which one call each may land late. `WorkFacts`
says for every controller what its copy tells at the place it is at.
`FinalizerFacts` holds whatever lands late: a Reconcile of the current controller
past the question of the finalizer works on a resource that exists and has it,
and what was cleaned up is being deleted; a late Update cannot take the
finalizer away below it, since no other controller has an up-to-date copy that
says the resource is being deleted. So the only output that can be applied
without the finalizer is the late call itself (`CleanedUp`). A late output does
spoil what is applied, until the next Reconcile begins (`late`); for all other
times `PendingFacts` says that a Reconcile nothing was queued behind works on the
resource as it is, that the outputs it no longer has to apply are applied, and
that before the last update, without failure or retry, all are. Users, and a replacement of the controller,
queue the resource with the change they make, so these facts are not at stake
until the next Reconcile reads it. `Settled` is what remains when queue and
hands are empty.

Only model-checked: all liveness (the prover does not reason about fairness and
ENABLED), which is `Converges`, `Released`, `ReadyServed`, `UnreadyRemoved`,
`ServiceRestored`, `Returns`, `FailureEndsProcess`, `EndTogether`,
`BlockContainsFailure` and `Terminates`. What the code does not do is shown by
TLC alone: a counterexample is its own proof.

## 5. Not modelled

* The values `initDefaults` gives to addresses and intervals; the second signal,
  with which controller-runtime exits at once.
* How the library builds a DAG from the configuration: `RtDag` takes the result
  as constants, with what it guarantees as assumptions.
* The results of a pipeline (`result`), which are only printed.
* Which kinds are watched, and that all event handlers share the address of one
  loop variable (`fnexeccontroller/controller.go:149`): the kind reaches logs and
  the root's output only.
* What expressions, templates and images compute, what is in a pod.
* `CrReconciler`: other finalizers on the resource, and the events of owned
  resources, which only add Reconciles.
* Two image managers that were never stopped and serve the same image with
  different pods: the older one writes its own client over the newer one's for
  good. `FnCtrlr` shows when that happens (`OrphanNeedsFailure`); the liveness
  properties of `ImgManager` assume a Stop between the generations (`Current`).
* Connections: `SetClient` and `DeleteClient` drop clients without closing them.
* Two ConfigMaps, or two processes, that write the same pods and services.
* Code nothing calls: `pkg/exec/fnruntime`, `pkg/fnproxy/cache`, `watcher`, and
  the `Delete` and `SetConfigMap` of the stores.

## 6. Plan

1. A refinement of `CrReconciler` against an abstract specification (outputs
   follow the spec, a deleted resource goes), as `CtrlLife` is for the
   controllers and `Pipeline` for `FnPipeline`.
2. More than one ConfigMap over one controller store, and the pods they share.
