# Noctalia: a TLA+ verification of the shell's stateful core

Noctalia is a desktop shell for Wayland (bar, dock, panels, notifications, lock
screen, wallpaper) written in C++.  One thread runs everything the user sees: a
`poll` loop (`app/main_loop.cpp`) dispatches Wayland events, D-Bus messages,
timers and file descriptors to services and surfaces.  A few services keep worker
threads for what may block (decoding images and thumbnails, applying theme
templates) and hand results back through an eventfd or a condition variable.  The
repository has no unit tests; what the code relies on is the order in which
handlers, callbacks, worker results and the events of the compositor arrive.  This
project models those orders, checks them with TLC and proves the central
invariants with TLAPS.

Paths are relative to `src/` of the repository.

## 1. Inventory

### 1.1 Modelled parts

| Part | State | Operations | Hard behaviour | What makes it correct |
|---|---|---|---|---|
| Main loop and deferred calls (`app/main_loop.cpp`, `core/deferred_call.*`) | the queue of deferred calls, the list of sources of an iteration, the timeout of `poll` | move the queue away and make its calls, dispatch what is buffered, collect timeouts, poll, dispatch the display and the sources, drain the surfaces | calls queued by calls, by handlers and by drains; sources removed while the list is walked; interrupted polls; a full socket | calls in order and once, never in the batch they were queued from; no sleep past a deadline or on queued frames; every call and every due timer served |
| Timers (`core/timer_manager.*`) | entries, ids in flight and canceled, the batch of a tick | start, stop, move, destroy, tick | a callback that stops, restarts or destroys timers of the same tick, its own included | a timer is an alarm: never early, never after it was stopped or restarted |
| Surface frames (`wayland/surface.*`) | request flags, in-callback flags, two queues of pointers, the frame callback | request, change the scene, configure, frame done, the two drains, destroy | requests made while a frame is out, while queued or inside a callback queue nothing; surfaces destroyed while queued | flags and queues agree; nothing requested is forgotten; requests are met |
| Async texture cache (`render/core/async_texture_cache.*`, `ui/controls/image.cpp`) | entries, job queue, in-flight and canceled keys, results, eventfd | acquire, release, dispatch, worker loop, trim, destructor; set and clear a source | results of canceled and revived jobs, lost wakeups, pruning at the limit, joining workers | a shown texture is resident, one texture per ready entry, jobs and entries agree, every Image is resolved |
| Notifications (`notification/`, `dbus/notification/`, `shell/control_center/notifications_tab.cpp`) | the deque of live notifications and its index, countdowns, history and its index, the history file, a deferred save | notify, replace, close, expire, pause, resume, dismiss all, edit and clear the history, save, load | erasing from the middle of an indexed deque, sweeps over snapshots, coalesced saves, crashes, failed saves | the store is a map; the history names every notification once and says truly whether it is live; restarts keep it; expiry and saves happen |
| Notification toasts (`shell/notification/notification_toast.cpp`, `render/scene/input_dispatcher.cpp`) | popups with their place or a place in the queue, a surface and a vector of cards per output, countdowns and exits | add, update, remove, dismiss, place, queue and reveal, hover, expire, build a scene, build the surfaces anew | parallel vectors changed at any position; a card built anew under the pointer; one exit animation for all outputs; updates of popups that leave | cards match entries on every output, nothing overlaps, the queue moves, whoever leaves is on its way out, a frozen countdown has something that thaws it |
| Panel manager (`shell/panel/panel_manager.cpp`) | the open panel, its surface and scene, the close animation, the generation of deferred calls, click shield and focus grab, the bar's gap | open, toggle, preempt, close, destroy, reveal, deferred grab and destroy | a destroy put off while another panel opens; motion switched off; outputs that go; callbacks that close what is being destroyed | no panel is destroyed for another, an open one can be dismissed, a closing one is gone in the end |
| Polkit agent and prompt (`dbus/polkit/polkit_agent.cpp`, `shell/polkit/polkit_panel.cpp`, `app/application.cpp`) | the pending request, its session, whether it waits for an answer | begin, replace, answer, complete, fail and retry, cancel by either side | requests that begin while a prompt opens, closes or is preempted | a request that has been shown keeps its prompt; only what was shown is cancelled by the user |
| Theme service (`theme/theme_service.*`, `render/animation/`) | palette shown, fade, the pending resolved theme and its deferred call, downloads | reload, resolve, start, tick and end a fade, deferred callback, end of a download | resolves during fades, stale deferred calls, motion switched off in a fade, crossing downloads | templates only get the latest theme; the screen ends on the configured palette |
| Template apply service (`theme/template_apply_service.*`, `theme/template_engine.cpp`) | one request slot, a generation, the worker's pass, the output files | apply, take, check, render, hook, shutdown | a request replaced between any two steps of the worker | an idle worker leaves every file at the last request, hooks see what it changed |
| Lock screen (`shell/lockscreen/`) | lock object, pending and locked flags, one surface per output, the prompt, each surface's text field | lock, unlock, both protocol events, keys, login click, output changes, frames, the destructor | events crossing requests, hotplug at any moment, no outputs at all, a field that lags behind the prompt, a shell stopped while pending or locked | no protocol error where the shell waits for the answer, no unlock without the password while the shell lives, no locked session without a prompt, every output covered, what is typed is the password |

### 1.2 How they interact

Everything but the workers runs on the loop.  Handlers of the display, timers,
poll sources and deferred calls call services; services call back through
`std::function`s set in `app/application.cpp`.  A service that must not act inside
a callback queues a deferred call (`DeferredCall::callLater`); the theme service
and the notification history rely on that for ordering.  Surfaces do not draw when
asked but queue themselves, and the loop drains the queues at the end of an
iteration; the compositor paces them by frame callbacks.  The theme service passes
each resolved theme to the template apply service, whose worker writes the files
of other programs.  The texture cache's workers wake the loop by an eventfd.
Popups stop and start the countdowns of the notification manager, whose events
they follow; the exit of a popup is a callback of an animation, and its removal a
deferred call.  The state callback of the polkit agent opens and closes the panel
that, when it is destroyed, cancels the agent's request and so calls that callback
again.

### 1.3 Parts not modelled

`PROJECT.json` lists every part with a reason.  In short: views of services and
drawing (bar, dock, panels, controls, renderer), mirrors of other programs
(PipeWire, D-Bus services, compositor backends), parsing and lookup
(configuration, launcher, translations, palette generation) and wrappers of system
calls have no interleavings of their own worth exploring, or behave as an
environment that the modelled parts take as arbitrary.  The idle manager, the
thumbnail service and the clipboard do have some, and are in the plan.

## 2. Modules

| Module | Models | Composed with |
|---|---|---|
| `Alarms` | what a caller of a timer may rely on (abstract) | implemented by `TimerManager` |
| `TimerManager` | `core/timer_manager.cpp` | extended by `MainLoop` |
| `SurfaceFrames` | the frame scheduling of `wayland/surface.cpp` | extended by `MainLoop` |
| `MainLoop` | an iteration of the loop, with deferred calls | `TimerManager`, `SurfaceFrames` |
| `AsyncTextureCache` | the cache with its Image clients and workers | |
| `NotificationMap` | what a client of the manager may rely on (abstract) | implemented by `NotificationStore` and `NotificationHistory` |
| `NotificationStore` | live notifications, index and countdowns | extended by `NotificationHistory` |
| `NotificationHistory` | history, file, sweeps, D-Bus and IPC operations, crash and restart | |
| `LatestWins` | what the shell may rely on when it asks for its theme to be applied (abstract) | implemented by `TemplateApplyService` |
| `TemplateApplyService` | the slot, the worker and the files | instantiated by `ThemePipeline` |
| `ThemeService` | resolve, fade, deferred callback, downloads | extended by `ThemePipeline` |
| `ThemePipeline` | a configuration change on its way to the files | both theme modules |
| `NotificationToast` | popups, cards and surfaces, with the manager's countdowns and the pointer dispatcher | the manager reduced to `NotificationMap` |
| `PanelManager` | panels, the polkit agent and its prompt | |
| `LockScreen` | the lock screen and the other end of ext-session-lock | |

`MC*` modules instantiate them for TLC and `*_proofs` modules hold the theorems.
In every module a definition `D_Fault` just before `D` is `D` with a plausible
fault put in (a dropped guard, a flag that is not reset); each checked property is
violated when one of them takes the place of its original.  They are not part of
any specification.

### 2.1 State and actions against the code

*Timers.*  `entries`, `inFlight`, `canceled` and `nextId` are the four statics of
`timer_manager.cpp`; `dueEntries` is the local of `tick()` of that name and `running`
the entry whose callback is on the stack.  While a callback runs, `Start`, `Stop`
and `Move` may be taken for any timer, so a tick is as many steps as it has
callbacks and calls.  The map is unordered, so the batch runs in any order.

*Surfaces.*  The record of a surface holds its flags.  `m_updateRequested` and
`m_layoutRequested` are set and cleared alike for the properties here and are one
field, `prepare`; the two kinds of dirt of a scene are one field, `dirty`.
`Kicked` is `kickFrameLoop`, `Becomes` appends to the queue whose flag has just
been set, `Without` takes a surface that goes out of both queues.  A drain is a
step per surface and callback: `at` says which callback is on the stack, during which any surface may be asked anything.  Surfaces are
destroyed by handlers and deferred calls and not inside a callback of a drain: the
comment in `core/deferred_call.h` gives that as the purpose of deferred calls.

*Loop.*  `phase` is the place in the body of `run()`.  In every phase in which the
code calls out (`InCode`) any call of the shell may be made: a deferred call, a
timer started or stopped, a surface used, the optional source (the polkit agent's)
made or removed.  Configure and frame-done events come only when the display is
dispatched.  `EnterPoll` computes the timeout from the same votes as the code and
may find the flush blocked.

*Texture cache.*  `WorkerTake`, `WorkerPush` and `WorkerSignal` are the stretches
of `workerLoop` between its locks, `DispatchDrain`, `DispatchTake` and
`DispatchJob` those of `dispatch`.  An Image acquires, subscribes and releases in
`SetSource` and `ClearSource`, as in `ui/controls/image.cpp`, and so do its
listeners.

*Notifications.*  A handler of the main thread is one step, except that a sweep
takes its snapshot of ids first and then closes them one by one, as the code does,
each close with its upsert of the history.  Time is counted in small steps; a
countdown is what is left of it, `Never` for a persistent or paused one.  A shutdown
flushes the history, a crash does not, and a save may fail.

*Toasts.*  `toast` is the `NotificationToast`: its entries, and for every output a
surface with its vector of cards, which runs parallel to the entries once the
scene is built (`BuildScene`, `PrepareFrame`).  A place is a row of the screen, so
overlap, room and the queue are what the code computes of them.  A handler of the
pointer that a card carries is a field of the card; `Hit`, `UpdateHover` and
`LeaveArea` are the dispatcher's.  Removals and ends of exits are put off
(`calls`).  Durations are left out: a countdown and an exit may end at any moment.
`updated` and `lost` of an entry are history variables that name the two known
ways in which a countdown or an exit is left behind.

*Panels.*  The handlers call each other and call back, so they are functions of
the state `s` of the shell, and an action applies one of them.  `Close` is given what a panel without a scene
becomes, which cuts the recursion of `destroyPanel`, `onClose`, `cancelRequest`,
state callback and `closePanel` where nothing is left to cancel.  `gen` is `m_destroyGeneration`, and a deferred call
carries the value it was given.  `astray` is a history variable: why `m_closing`
is set although nothing will end it.  libpolkit-agent starts, asks, tells and ends
sessions as it likes.

*Theme.*  A theme stands for what the configuration resolves to one palette.
`svc` is the state of the service; the animation manager has at most the one entry
of the fade.  Downloads end in any order, their callbacks run one after the other
(`Callback`), and a callback may be for a theme that is no longer configured.

*Templates.*  The worker's pass is cut wherever the code reads the generation or
the slot: `Check` (superseded, or the next output), `Render` (the file, if its
text changed), `Rendered` (superseded, or the hook), `HookEnds`.

*Lock screen.*  `requests` and `happened` are the two directions of the socket.
The compositor is the protocol: it grants a lock only when no other is held, may
refuse it or give it up, and treats a `destroy` of a locked object, or an
`unlock_and_destroy` of one that is not, as an error.  `Stop` is the destructor, with
its request sent or lost.  `Frame` copies the prompt into the field of a surface,
which is what `updateCopy` does in the next prepared frame; keys edit the field of the
focused surface.  `typed`, `lagged`, `granted` and `hasty` are history variables: what
was typed since the password was cleared, whether a key found a field that had not yet
been given the prompt, and the lock objects given up for a right password, or before
their answer was heard.

## 3. Runs

All runs are exhaustive on their instance.

| Run | Shows | Bounds, and why they are enough |
|---|---|---|
| `MCTimerManager` | timers implement `Alarms`; entries have one owner; due timers run | two timers and three starts: one callback can stop, restart or move itself and the other in the same tick, zero delay and repeats included; two units of time separate before, at and after a deadline |
| `MCSurfaceFrames` | queues and flags agree (`FrameInv`), nothing is forgotten, requests are met | two surfaces: one in each role of a drain while the other asks; no other bound is needed, the state is finite |
| `MCMainLoop` | order and liveness of deferred calls, `SleepIsShort`, due timers run, no dispatch of a source that is gone | two calls (one made by the other), one timer, one surface, one optional source: every vote of `poll` and every pair of an event and a phase; the clock stops at `MaxTime`, where `poll` times out at once |
| `MCAsyncTextureCache` | residency, one texture per entry, jobs and entries agree, every Image is resolved, the destructor ends | three keys with a limit of one unused entry make pruning choose; two Images share or differ; two workers hold two results out of order |
| `MCNotificationHistory` | the store implements `NotificationMap`, `HistoryInv` (the index is exact, the history names every notification once and truly), restarts keep the history unless a save failed or was cut short, expiry and saves happen | three ids with two live and a history of two: removals before, at and after a position, eviction, reuse after restart |
| `MCNotificationToast` | cards match entries on every surface (`ToastInv`), places and queue (`PlacementInv`), whoever leaves is driven out (`ExitIsDriven`), a popup shown with its countdown frozen is hovered, or was replaced while it was (`FrozenIsHeld`) | two popups of one or two rows, a short and a tall output: a popup fits one output and not the other, grows into its neighbour, is queued and revealed; any two events besides |
| `MCToastHover` | **violation** (finding): a card laid out again under the pointer never resumes its countdown | one popup, three events |
| `MCTemplateApplyService` | an idle worker is current, `ServiceInv` (a replaced request stops, no changed file without its hook), `LatestWins`, the last request is rendered | two outputs, one that may fail, two contents, three requests: a request replaced twice within one pass |
| `MCThemePipeline` | templates only get the latest theme; downloads and fades are left with what ends them, and screen and files agree when idle (`PipelineInv`); the screen ends on the configured palette unless turning motion off dropped the last fade; the files follow the configuration | four themes, two of which need a download and two with one palette; two changes of configuration, each of which may switch motion; one output; six requests are more than two changes can cause |
| `MCPanelManager` | what goes together (`PanelInv`), no stale destroy, a shown request keeps its prompt (`PromptInv`), closing ends | one panel and the prompt, two requests, any four events besides: a panel opened over one that closes over one that was preempted; with and without motion and focus grabs |
| `MCPanelPolkit` | **violation** (finding): a request that begins during the close animation of the prompt before it is cancelled without having been shown | `PromptSpec`: two requests and what their sessions do, with motion on, and no toggles, lost outputs or switches of motion; the second request begins when no prompt is open or while the first one's closes |
| `MCLockScreen` | `LockInv` (no protocol error but for a lock the shell did not wait for, no session without a prompt, every output covered alike, what is typed is the password), no unlock without the password but by a shell stopped while locked, every lock answered | three lock objects so that a second follows an unlock or a refusal while events of the first are under way; two outputs that come and go, down to none, so that a lock is also asked for without outputs; the shell may be stopped in every state; two keys and texts of up to two |

Each of the last conjunctions (`TimerInv`, `CacheInv`, `HistoryInv`, `ServiceInv`,
`ToastInv`, `PlacementInv`, `PipelineInv`, `PanelInv`, `LockInv`) is defined by its
named parts, each stated where it is defined.

`CHECK_DEADLOCK FALSE` is set where the system may really stop: the texture cache
and the template service when their destructor has ended; themes, toasts and
panels when the user and the environment have done as much as the bound allows and
nothing is left to animate; the lock screen when the shell has been stopped.

### 3.1 Findings

* `MCToastHover`: the pointer handlers of a card are set when it is added, but an
  update that changes its layout builds it anew without them
  (`notification_toast.cpp:465`).  If the pointer is on it, the update also pauses
  the countdown (line 549), and nothing resumes it when the pointer leaves.
* `MCPanelPolkit`: the state callback takes a prompt that is closing for an open
  one (`application.cpp:243`), so a request that begins during the close animation
  of the prompt before it only refreshes that prompt, and is cancelled when it is
  destroyed, "by user".  In the trace a first request is shown and completes, its
  prompt closes with motion on, the second request begins before the animation ends,
  and the end of the animation destroys the prompt and with it the request.

Other behaviours met while modelling, which the properties name as exceptions or
the models show:

* `MotionService::setEnabled(false)` drops animations without their end callbacks.
  A fade of the theme then leaves the screen between two palettes until another
  one is resolved (`svc.dropped`), a closing panel keeps `m_closing` and stays
  (`astray = "still"`), and a popup keeps its exit (`lost`).
* A request for templates that replaces another between a write and its hook, and
  renders to the same text, finds the file unchanged and skips the hook.  No property
  covers this: `LastChangeIsHooked` speaks of changes by the last request only.
* A write of the history that is cut short goes unnoticed
  (`notification_history_store.cpp:700`), so the part that was written is renamed over
  the good file and the next session starts with nothing.  `Persist` has this outcome;
  `RestartKeepsHistory` excuses it as a failed save.
* A key typed after Escape, and before the next prepared frame of the lock
  surface, goes to a field that still has the old text, which becomes the password
  again (`lagged`).
* A popup that is queued and updated starts its countdown anew without pausing it
  (`notification_toast.cpp:424`) and may expire unseen; `displayDurationMs` keeps
  its value when an entry without a card is updated; `evictOverlappingEntries` never
  finds anything.
* `finishRemoval` takes cards out output by output, and handlers find cards by the
  position of the entry.  If the removal on a later output puts the pointer on a card,
  the countdown that is paused on the outputs already done is that of the popup after
  it.
* A panel opened over a prompt with a pending request starts with `m_closing` set:
  the prompt's `onClose` cancels the request, whose state callback closes the panel
  being destroyed (`astray = "over"`).  It ignores Escape and clicks outside until
  it is toggled, and without motion the deferred destroy takes it down at once.
* An output that goes leaves the panel manager with a surface that gets no frames:
  what was closing there does not end until something else is opened.
* The right button on the bar closes a control center that is already closing,
  that is, does nothing, where `togglePanel` opens it again.
* `lock()` without outputs sends the lock request and destroys the object at once
  (`lock_screen.cpp:96`), and so does a shell that is stopped while a lock is pending.
  If the compositor grants the lock before it reads the second request, that is a
  protocol error, and the session stays locked.  `hasty` holds these lock objects, and
  `NoProtocolError` excuses no others.
* A shell that ends in an orderly way (SIGTERM, SIGINT, an exception of the main loop)
  while it has the session locked unlocks it without a password: `~LockScreen` calls
  `resetLockState` (`lock_screen.cpp:46`, 363).  Nothing flushes the request
  afterwards, so it may be lost; `Stop` has both outcomes.  `UnlockNeedsPassword` names
  the case (`ended = "locked"`) and allows no other; in particular a shell stopped
  before it has heard of the lock does not unlock the session.
* A request without identities clears the pending one silently, and its prompt
  stays open without one.

## 4. Fairness

* Worker threads are scheduled (`WF` on each worker step), and mutexes are held
  for a bounded time.
* The loop goes on: `WF` on its steps.  In `MainLoop` a `poll` whose timeout has
  passed returns in the end although signals may interrupt it (`SF` on
  `PollTimesOut`: an interruption starts the iteration again with `poll` enabled
  anew); no event is ever promised.
* In `SurfaceFrames` frame callbacks are answered (`SF` on `FrameDone`: the
  dispatch between two drains is possible again and again, but not during a
  drain).  This is what a compositor does for visible surfaces; for hidden ones the
  properties say no more than that the request waits.
* In `NotificationHistory` the poll source is dispatched and deferred calls are
  made on every iteration (`SF`, because a sweep or another handler disables them
  for a while).
* In `PanelManager` a mapped surface whose animation runs gets its frames, and
  deferred calls are made (`WF` on each); nothing is assumed of a surface whose
  output is gone.
* `NotificationToast` has no fairness and no liveness property: that a popup leaves
  is stated as an invariant (`ExitIsDriven`: the animation, the call or the history
  variable that names its loss is there).
* In `ThemeService` a download ends, with success or not: curl has a timeout
  (`net/http_client.cpp`).  In `LockScreen` the compositor answers a lock request,
  both sides read their socket while the shell lives, and after a protocol error the
  main loop finds its connection dead and throws (`ConnectionFails`).
* Nothing makes a user, a client of D-Bus, the configuration or the outputs act.

## 5. Proofs

TLC checks an instance; the theorems hold for every value of the constants that
satisfies the assumptions named in the modules (such as: a texture key is not the
absence of one, delays are natural numbers, an alarm is not the absence of one, at
least one request for templates can be made, which startup does).  Bounds like
`MaxStarts` are arbitrary naturals in them.  Where an invariant that is run is not
inductive, the strengthening was itself checked by TLC on the run's instance before
it was proved.

* `AsyncTextureCache_proofs`: types, `ShownIsResident`, `OneTexturePerReadyEntry` and
  `CacheInv` (`m_inFlight` is exactly the jobs, and a job is canceled exactly when
  nobody wants it).  Inductive invariant `IInv`: to these it adds that the reference
  count of a key is the number of Images that hold it, that an Image that shows
  something has a source, that a key is in at most one place of queue, workers and
  results, and that a key in flight is canceled exactly when its entry is gone.
  Without uniqueness a late result could find its key in flight a second time, and
  removal from `m_inFlight` would forget a job.
* `NotificationHistory_proofs`: of the store, types, `IndexIsExact`, fresh ids, and
  that it implements `NotificationMap` (the refinement maps the deque to the map by
  the ids of its members, which needs them distinct, which follows from the exact
  index); of the whole manager, `HistoryInv`, `RestartKeepsHistory`, and that it too
  implements `NotificationMap`.  `ManagerInv` adds that no file repeats an id, which the
  index of a loaded history needs, and that after a clean end the file says what was
  left in memory, whatever was saved or failed to be before.  The expiry of a poll takes ids from
  the deque by position (`ExpiredIds`); that each of them is a live one is an
  induction over the length, done with a least counterexample.
* `TemplateApplyService_proofs`: `QuiescentIsCurrent`, `ServiceInv` (types, that a
  replaced request renders at most one more output, that the last request leaves no
  changed file without its hook), and that the service implements `LatestWins`.
  `Inv` adds what the worker has still to do to what the files hold: every output of
  the request in hand is done, failed, current or to do (`Covered`), no output is
  ahead of it (`Ordered`), and what it changed and has not hooked is what it is at
  (`Hooked`).
* `ThemePipeline_proofs`: of the theme service, `OnlyLatestIsSent` and `ThemeInv`
  (types, a palette in flight has its callback, a mixed palette on screen has a fade
  that ticks unless motion dropped it).  `IInv` adds `Waits`: whatever is pending, and
  any deferred call whose generation is the current one, carries the theme resolved
  last.  Of the pipeline, `PipelineInv`, the conjunction of `ThemeInv` and
  `IdleAgrees`: when service and worker have nothing to do, the screen and every file
  show the theme resolved last.  `PipelineIInv` adds three things: whatever has not yet
  been passed on is still owed by something that will pass it on, and a fade ends on
  the palette last resolved (`Aims`); the invariant of the template service; and that
  the last request of that service is the last theme that was sent (`Linked`).  The
  service's steps are functions that call each other, so there is a lemma about each
  of them and the actions cite those.
* `MainLoop_proofs`: of the timers, `TimerInv` (types, marks end with their tick, one
  owner per entry), and that they implement `Alarms`; of the surfaces, `FrameInv` and
  `NothingIsForgotten`; of the loop with both, `LoopInv`, `SleepIsShort` and
  `CallsInOrder`.  `TimerIInv` adds `Fresh`: ids only grow, so no mark or entry left of
  an earlier setting is taken for a new one.
  `FrameIInv`: a surface is in a queue, once, exactly if its flag says so, where what a
  drain has still to visit counts as queued (`Queued`); a callback on the stack is of a
  configured surface (`Position`); and a configured surface of which something was asked
  is queued or has a frame out, except the one in a callback, which is seen to when the
  callback returns (`Sound`, `Served`).
  `LoopIInv` adds the invariant of the timers; which phases leave which queues empty
  (`Places`); that the batch, the queue and what has been made are consecutive numbers
  (`Numbers`), from which the order of the calls follows; and that the timeout of a
  `poll` was computed from the votes that still hold (`Sleeps`).
* `PanelManager_proofs`: `PanelInv`, `NoStaleDestroy` and `PromptInv`.  The handlers are
  functions of one state that call each other and call back, so each has a lemma,
  for what `PanelIInv` says of a state: no deferred call is of a generation to come
  (`Timely`); what is set goes with the panel that is open (`Fits`); at most one deferred
  destroy is of the current generation, only while the manager is closing the panel it
  was made for, and none while an animation will end in one (`Ends`); what is open and
  not closing catches the clicks outside, or will (`Caught`); and a request that has
  been shown has its prompt (`Shows`).  The generation is unbounded.
* `LockScreen_proofs`: `LockInv` and `UnlockNeedsPassword`, for any outputs, present or
  not, and every number of lock objects, keys and lengths.  `Screen` says that every
  surface shows the prompt, one for each output while the lock is active, and `Wire`
  puts the two sides of the socket together.  Until a request breaks the protocol
  (`Queues`): what the shell takes its object to be is what the compositor takes it to
  be, or an event that says otherwise is under way (`OwnLock`); a request to destroy an
  object fits the state it will find, or the shell did not wait for the answer
  (`Rightful`, `hasty`), and it is the only one for its object; an `unlock` is for an
  object that was given up, or locked and `Allowed`, which means that the password was
  right for it or that the shell was stopped while locked.  An error can then only be
  for a hasty lock.  After it the compositor reads nothing more, so nothing has to be
  known of the queues.

* `NotificationToast_proofs`: `ToastInv` (types, the cards of every surface run parallel
  to the entries, what is shown is live), `PlacementInv`, `ExitIsDriven` and
  `FrozenIsHeld`, for any outputs, heights, timeouts and numbers of popups and events.
  The handlers are functions of one state (the notes and the toast) that call each
  other up to six deep and go through all outputs or all entries, so there is a lemma
  about each, from the bottom up.  What the pointer sets off (`Hovers`: entering and
  leaving cards, which also happens inside the removal of one) changes hovering and
  countdowns only and stops no popup that is held.  A pass over the outputs is followed
  step by step (`Climb`, `Steps`): `finishRemoval` takes the cards out output by output,
  and `Thins` says what is true between two of them, when positions already differ
  between one output and the next and the pointer may leave a card on either.  `IInv`
  says that the state is in order (`Good`), which is the invariants above with distinct
  ids, a pointer that holds a card of the screen it is on (`Points`) and cards that
  never resume only for a notification that did not expire or has been replaced
  (`Line`, `Lasts`); that nobody waits for a place there is, unless somebody leaves (`Moves`);
  and that no id was given out that is not below the next one (`Below`).  `Points`
  is needed because a handler looks up the entry of the card it leaves, `Apart` (what
  stays lies apart) because with it `revealQueuedEntries` leaves what stays where it
  is (`Settles`), so that who found no place before finds none after, and one pass is
  enough.

Induction over data is out of the provers' reach as a schema (an operator that is a
parameter), so recursive definitions in modules with theorems are recursive
functions, and where one of them matters the proof takes the least counterexample
of a set of naturals.  `SelectSeq` is opaque to them and is not used in these modules.

Only model-checked is every liveness property: TLAPS has no `ENABLED`.

## 6. Abstractions

Palettes, texts, images and keys are opaque values.  Geometry, wording, logging,
profiling and sound are left out.  Errors that end the process (a lost display) are
not modelled but in `LockScreen`.  A shell that is killed there, or started again while
the session is locked, is not modelled: the compositor keeps a session locked whose
client has gone, and a new shell begins without a lock.  Allocation does not fail.  Time is discrete and small.  Addresses
are not modelled, so two objects at one address are out of reach.  PAM is a
comparison with the secret.

## 7. Plan

Written so far, in this order: the texture cache, the notifications, the theme
service with the templates, the lock screen, timers, surfaces and the loop, the
toasts, the panels with the polkit prompt; proofs of every invariant.  Next:

1. *Idle manager* (`idle/`): behaviors, reloads and the inhibitor.  Property: a
   command that ran has its resume command run.
2. *Thumbnail service*: the texture cache's protocol with an upload stage.
3. *Clipboard*, and outputs that come and go in the toasts.
