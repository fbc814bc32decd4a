# Verification of the terminal multiplexer and its browser client

deepwork-terminal keeps shells alive in a per-user daemon (`muxd`), lets one or
more servers attach to them, and shows them to browsers over WebSockets. This
directory holds TLA+ models of that system, from the byte a shell prints to what
a page does with it, the TLC runs that check them, and proofs of the main
results. It covers the Go code under `src/` and the browser client under
`src/frontend/src`; every definition that models code is listed with its source
lines in `PROJECT.json` under `map`.

## 1. The system

```
 shell -PTY-> daemon: ring + subscription queue --unix socket--> server: event channel
                                                                     |
                                                             pump -> ring + screen model
                                                                     |
                                                             viewer queue -> writer -WebSocket-> page

 page: socket -> restore gate -> xterm            tabs <-> workbench list <-> server <-> other pages
       keys, input methods, pastes -> socket      panels: files, previews, uploads, agents, usage, history
```

The daemon is per user, not per server: several servers and several windows may
be attached to one session at once. A server can restart, and the daemon and the
shells survive it; the daemon can die, and every session dies with it. A page is
one thread of callbacks: every `await`, timer and socket event is a point where
everything else may have happened.

### Daemon and server

| component | state | operations | talks to |
|---|---|---|---|
| session (`muxd/session.go`) | ring, screen, subscriptions, declared windows, size, alive | read loop, `Subscribe`, `SetAttachSize`, `Resize`, `finish` | PTY below, one forwarder goroutine per attachment above |
| daemon (`muxd/daemon.go`) | session table, event subscribers, connection count | `create`, `MsgAttach`, `MsgDestroy`, `MsgSetMeta`, `broadcast`, idle watchdog | clients by frames on a unix socket |
| client (`muxd/client.go`) | one control connection, one connection per attached stream, `consumed`, `holed` | `Attach`, `Subscribe`, request/answer with one retry | the server's goroutines by channels |
| pump (`session_mux.go`) | a server's `Session`: ring, grid, stream, status | `attach`, `pumpStream`, `reattach`, `markEnded` | viewers by their queues |
| restore point (`session_screen.go`, `session_seed.go`) | screen model, its ring position, generation | admit, advance, resize, reset, seed | daemon snapshots on the control connection |
| viewer (`session_viewport.go`, `handlers.go`) | queue of 256 frames, stale mark, window size | `fanOutLocked`, `markStaleLocked`, `syncViewer`, writer and reader loops | browser |
| ownership (`session_manager.go`, `session_viewport.go`) | active connection, epoch, owner, declared viewport | `SetActiveConn`, `SetViewerOwner`, `syncViewport`, `ClearActiveConn` | daemon by `MsgResize` |
| registry (`session_mux.go`, `session_manager.go`) | the view `m.sessions`, last event number | `Create`, `Destroy`, `watchOnce`, `applyEvent`, `reconcile` | daemon by events and by `List` |
| shared settings (`settings.go`) | one document per kind, with a rev | guarded PUT of the tab list, PUT of the page's blob | pages by HTTP |

### The page

| component | state | operations | talks to |
|---|---|---|---|
| socket (`useWebSocketClient.ts`) | socket, status, attempts, timers, input queued while down | connect, retry, deadline, preempted, close | the server's connection handler |
| restore gate (`restoreGate.ts`) | epoch, pending restore, writes in xterm | a frame written, parsed, painted; overlay up and down | socket, xterm |
| surface (`CliTerminalSurface.vue`) | connection gate, declared size, activity of tab and window | mount, activate, blur, fit, takeover | socket, gate, xterm |
| screen (`XtermTerminal.vue`, `terminalRenderer.ts`) | renderer and why, GPU context, owed repaint | open, hide, reveal, context lost, redraw asked of tmux | surface |
| input (`typeToCompose.ts`, `useXtermKeyboardFallback.ts`, `useCliPasteResolver.ts`) | box, composition, pending keys, queue of pastes | key, composition, paste, upload, flush | socket |
| tabs (`useCliState.ts`, `reconcileTabs.ts`) | tabs, sessions they name, operations in flight | create, close, exit, reconcile, adopt, reopen | sessions over HTTP |
| workbench list (`useWorkbench.ts`, `workbenchMerge.ts`) | copy, base, rev, timer, request out | edit, debounce, PUT, conflict, three-way merge, reload | settings of the server, other pages |
| order and switching (`useTabReorder.ts`, `useTabQuickSwitch.ts`, `useTabShortcuts.ts`) | drag, moves over a preview; leader, switcher, visits | pointer, keys, timers | tabs |
| files (`FilesPanel.vue`, `useTreeSearch.ts`, `ResourceDrawer.vue`) | directory on show, history, search, deletion, preview tabs | browse, walk, search, delete, open, close | file endpoints |
| readers (`FilePreview.vue`, `PdfPreview.vue`, mermaid) | place in a text, pages and diagrams drawn, load under way | open, lay out, scroll, find, draw, replace | previews |
| uploads (`useTreeUpload.ts`, `uploadTransport.ts`, `useUploadProgress.ts`) | queue of jobs, parts, strip of entries | send, retry, cancel, resume, complete | the server's staging area |
| clipboard (`useRemoteClipboard.ts`) | history, cursor, epoch, whether a control plane is claimed | poll, frame, delete, restart of the store | clipboard endpoints, socket |
| agents (`useAttentionHud.ts`, `useAgentOverview.ts`) | edges, card, acknowledgements kept in storage | frame, dismiss, prune, poll | server's frames, storage shared by tabs |
| history (`useTerminalHistory.ts`, `CopyModeView.vue`) | lines loaded, requests out, selection, match | page in, jump, search, select | history endpoint |
| usage (`usageReportLoader.ts`, `UsageChip.vue`) | report per window, cancellation, retries of a cold one | show, hide, switch, refresh | report endpoints |
| touch (`VirtualTouchball.vue`, `useAnchorStateMachine.ts`) | ball, two anchors, xterm's selection | tap, long press, drag, output scrolls | surface, clipboard |
| drawers (`usePaneDrawers`, surface) | drawer by pane, width published | open, dock, switch pane or tab | tmux state |
| store (`useServerStore.ts`, `useComposeBox.ts`, `useRemotePeers.ts`) | one blob, arrays read from it, debounce | hydrate, edit, save, fail | settings of the server |

### What makes it hard

* *No backpressure on a shell.* Every queue on the path is bounded and lossy:
  the daemon's subscription, the client's event channel, the lifecycle event
  channels, the viewer's queue. Each has its own rule for what to drop and how
  the loss is announced, and the properties are about those rules together.
* *Positions instead of acknowledgements.* A re-attach resumes from a byte count
  kept by the reader goroutine; a restore point is a position in one ring
  compared with an offset in another; a clipboard cursor and a page of history
  are positions too. One element counted and not delivered is a silent seam.
* *Resizes are part of the stream.* Output drawn for one grid and laid out on
  another is garbage, and several clients argue about the grid.
* *Reads followed by acts.* Preemption, the declared viewport, adoption and
  `forgetVanished` on the server; on a page every handler that awaits.
* *Answers out of order.* A page asks again before it was answered: directories,
  searches, reports, pages of history, lists of sessions. Some handlers carry a
  sequence number, some compare what they asked with what is on show, some do
  nothing.
* *Several writers of one document.* The tab list has a rev and a merge, the
  page's blob and the seen-marks of agents have neither.
* *Failure.* Connections drop with frames in flight; the daemon crashes; a
  server restarts; an attach fails and is retried on a finite schedule; uploads
  lose parts and answers.

`PROJECT.json` lists each hazard at its line, with the properties that would
catch it, or the reason none does yet.

### What makes each component correct

* stream: what a server holds of a session is one unbroken stretch of its
  output, or the loss is recorded and the copy thrown away; the exit is last.
* ring: it always holds the last `Cap` bytes, and `ReadFrom` is exact or refuses.
* restore point: model plus window is the whole stretch up to now, on one grid.
* viewer: a browser shows an unbroken stretch and has the rest coming, or has a
  Resync coming.
* ownership: the newest connection sizes the session, and the daemon knows it.
* geometry: the largest grid that fits all windows, known to all clients.
* registry: when nothing is in flight the view is the daemon's list.
* restore gate: the overlay goes when the restore of its own connection is on
  the screen, and it does go.
* socket and surface: a live socket is the one last asked for; a size the page
  believes declared is one the server has.
* input: what is typed, pressed or pasted arrives once, in its order.
* tabs: a tab nobody closed stays, a closed one does not come back, and at rest
  every page shows what is stored and every tab a shell that lives.
* panels: what is on show belongs to what is asked for now; what is loading is
  awaited by somebody.

## 2. Modules

| module | models | implements / uses |
|---|---|---|
| `BoundedQueue` | `muxd/queue.go`: the two admission rules all queues share | used by four modules |
| `MuxStream` | subscription, wire, event channel, pump, re-attach, crash, restart | `BoundedQueue` |
| `MuxStreamProofs` | proofs about `MuxStream` | |
| `RecentBytes` | the abstract buffer: the last `Cap` bytes | |
| `RingBuffer` | `muxd/ring_buffer.go`: the circular array | refines `RecentBytes` |
| `Keyframe` | the restore point and its seeding | the abstract ring `RecentBytes` |
| `KeyframeProofs` | proofs about `Keyframe` | |
| `ViewerSync` | one browser's queue, writer and size declarations | `BoundedQueue` |
| `ViewerSyncProofs` | proofs about `ViewerSync` | |
| `Viewport` | preemption, ownership, declaration of the viewport | |
| `MuxGeometry` | the daemon's size of a shared session | `BoundedQueue` |
| `Registry` | the list of sessions and a server's view of it | `BoundedQueue` |
| `BrowserSocket` | a page's socket: retries, deadline, takeover | |
| `RestoreGate` | the overlay, xterm's write queue, paints | |
| `TerminalSurface` | one terminal tab: gate, declared size, activation | extends `BrowserSocket`, `RestoreGate` |
| `XtermScreen` | renderer, GPU context, owed repaint and redraw | |
| `Diagnostics` | what a terminal measures of itself, and the queue of its events | |
| `KeyFallback` | keys a soft keyboard's terminal swallows | |
| `TypeToCompose` | typing that moves into the compose box, compositions, the prompt tracker | |
| `PasteResolver` | pastes that carry more than text, their uploads | |
| `TerminalProofs` | proofs about the eight above, the tab driving the gate as its specification says | extends `MCTerminal` |
| `Workbench` | the shared tab list: optimistic lock, debounce, three-way merge | server's guarded PUT |
| `TabSessions` | a page's tabs against the shells of its machines | |
| `TabStrip` | ordering by drag and panel; leader key and switcher | |
| `Upload` | parts, retries, cancel, resume against the staging area; the strip | |
| `ClipboardClient` | the clipboard history against a store that restarts | |
| `FileTree`, `FilePreviews`, `Reader` | the file panel, its preview tabs, and what reads a document | |
| `AttentionHud`, `Overview` | which turn interrupts; acknowledged cards and figures | |
| `TerminalHistory` | pages of history, search, selection | |
| `UsageReports`, `UsageBill` | loads of the usage windows; whose quota is headlined and what is owed to whom | |
| `TouchSelection`, `PaneDrawers` | selecting by touch; drawers by pane | |
| `ServerStore` | the page's blob on the server, its lists and registries, a draft | |
| `MCServer` | ring, geometry, restore point, viewport and registry in one run | |
| `ServerProofs` | proofs about `RingBuffer`, the refinement included, `MuxGeometry`, `Viewport`, `Registry`, and the types of all five parts | extends `MCServer`, `KeyframeProofs` |
| `MCTerminal` | surface, typing, pastes, screen, keys and diagnostics in one run | `TerminalSurface` and instances |
| `MCTabs` | the shared list and the sessions of its tabs | `Workbench`, `TabSessions` |
| `TabsProofs` | proofs about `Workbench` and `TabSessions` | extends `MCTabs` |
| `MCPage`, `MCPanels` | the parts of the page, of a tab's panels | instances |
| `PageProofs` | proofs about `UsageReports`, `AttentionHud`, `ClipboardClient`, `TerminalHistory` | extends `MCPage` |
| `PanelsProofs` | proofs about `Reader`, `TouchSelection`, `ServerStore`, `PaneDrawers` | extends `MCPanels` |

*Compositions.* `TerminalSurface` composes the socket, the restore gate and the
surface step by step: a watch of Vue runs before the next event, so the reaction
to a socket's change is part of the step that changed it. `Keyframe` uses the ring
through its abstract promise, which `RingBuffer` is proved to keep. `MCServer`,
`MCTerminal`, `MCTabs`, `MCPage` and `MCPanels` put parts that share no state
into one run: `focus` names the part that moves in a behaviour, so the states of
the run are the sum of those of the parts and not their product. Where `Init` of
a part offers several beginnings, it is pinned while another part is in focus,
because what a part out of focus begins with says nothing.

The seam between two modules is a piece of state one produces and the next takes
as given: `MuxStream` ends where the pump takes a frame and `Keyframe` begins
there, with a link that drops, gaps and re-attaches; `ViewerSync` takes a sync as
the restore point `Keyframe` shows to be whole; `RestoreGate` begins with the
frames `ViewerSync` writes; `MuxGeometry` decides the size that `MuxStream`
carries as resize frames, `Viewport` the one window a server declares there, and
`TerminalSurface` the size the page votes for.

### State and actions against the code

*MuxStream.* A frame is the interval of stream positions it stands for.
`queue` is `subscription.ch`, `wire` the socket, `events` `Stream.Events`,
`consumed` and `holed` the fields of `Stream`, `copy` the server's ring as an
interval. `Output` is one turn of `readLoop`, with its drop and its gap;
`Resize` is `applySizeLocked` and `SetAttachSize`'s answer as this subscription
sees them; `Forward`/`ForwardExit` are the forwarder of `handleConn`;
`Read`/`ReadError` the goroutine of `Client.Attach`; `Pump*` are `pumpStream`;
`Attach`, `AttachGone`, `AttachFails` are `attach` as called by `reattach` and by
adoption. `ReplayStarts` lets a replay begin later than asked when its tail
starts inside an escape sequence (`escSafeTailStart`), by up to everything asked
for: the copy must cope with any such cut. `seam` and `lost` are history.

*RingBuffer.* One action per writing method, with the branches of `Write` as in
the code; reads are operators. The cell of the byte at stream position p holds p.

*Keyframe.* A screen model is the sequence of bytes it has executed and a grid.
`Admit`, `Advance`, `ResizeKf`, `Blank` are the `kf*Locked` methods. The seeder
goroutine is stepped where it releases its lock: generation, snapshot, install; it is
started for a copy that begins anew and a replay that does not reach the first byte,
with the attach where nothing is replayed and once the replay is taken in otherwise
(`Seeds`, `SpawnSeeder`). The link below is reduced to a queue of data, gap and resize frames.

*ViewerSync.* `Output`, `ApplyGrid`, `ResyncAll` happen under `subMu`, as in the
code; the writer takes a frame in one step and writes it in another; a size
declaration is the locked section of `setViewerSize` followed by the answer this
server gives by itself, if any. `shown` is what a faithful terminal would show.

*Viewport.* Each connection's handler is a program counter through
`SetActiveConn`, `Subscribe`, `SetViewerOwner`, resizes and the defers. Each
change of the registry owes one `syncViewport`, which reads and sends under
`geomMu`. The attach to the daemon is a goroutine of its own, in four steps. A window
is one number: `viewportLocked` minimises each axis alone, and `MuxGeometry`
has both axes.

*MuxGeometry.* A client has requests on the way up and notices on the way down,
in channels that give up their oldest element.

*Registry.* A `Session` struct is an object, because several may come to stand
for one session. The event channels of daemon and client are one queue.
`watch` is the program counter of `watchOnce`/`reconcile`; `creator` and
`destroyer` those of the requests. Lifecycle events are sent in any order once
the change that causes them has happened, as `broadcast` runs outside the lock
that made it.

*The browser modules.* One action is one turn of the page's event loop: a user's
event, a timer that fires, a message or an answer that arrives, each with all the
synchronous code it runs, watches included. What a function does after an `await`
is another action, which sees the state as it is then. A request is a record that
carries what the code captured when it was sent (the query, the directory, a
sequence number, the session); answers come in any order and may fail. A text, a
picture or a list is named by what tells it apart: the request that brought it,
the query it answers, the number of the keystroke.

* `BrowserSocket`: `connect` replaces the socket and unbinds the old one's
  callbacks; `Opens`, `Closes`, `Message` are the callbacks of the current one;
  the back-off is a timer that may fire at any time; `stable` is "ten seconds
  since it opened".
* `RestoreGate`: `queue` is xterm's write queue, `paints` the callbacks waiting
  for a frame, each with the epoch it was made in.
* `Diagnostics`: durations are left out, a wait is in time or late; a sample is
  the circumstances it was taken in, and `dark` remembers a hidden page.
* `Workbench`: a browser holds `local`, `base` and `rev`, an edit counter, a
  debounce timer and at most one PUT; the server's handler is part of the step
  that sends. `MergeItems` is `mergeCollection` with its rules for who deleted what.
* `TabSessions`: `calls` are creates, closes and reopenings in flight; `rec` is
  the program counter of `reconcile` with the list it has read.
* `TypeToCompose`: keystrokes are numbered; compositions begin before or after
  their keydown, in either element, as browsers differ. Every numbered stroke is
  in the prompt, in the box (its draft while it is closed), gone as the user wished
  (sent, deleted, cleared) or lost. `usable` is a socket that takes what is sent
  and `covered` a terminal under copy mode or a modal; both change at any time
  (`RoadChanges`), and a stroke sent meanwhile is lost, while box and tracker go on
  as if it were not. An opening socket queues, which is `BrowserSocket`'s.
  `Inject` is the host's prompt, `PickText` a snippet or an old entry; their text
  is nobody's stroke and counts as none. One agent at a time has the prompt:
  the panes of a tmux window are left out.
* `AttentionHud`: a window has a row of panes, each with an agent or a shell, and
  its card is rolled up from them as the server does (`RollUp`): the severest
  status, and the date of the first pane that has one. Dates are counted over all
  windows. `newest` and `backward` remember the dates the frames gave a window.
  An agent waiting too long, which the server then calls idle, is left out. In the
  run one window has two agents and the other none, so cards that speak of several
  windows are the proof's; panes keep their order there, which the proof does not use.
* `ServerStore`: a compose box shows the stored draft when it opens, or the host's
  prompt in its place; what is put there by the host or by a list is not stored.
* `Upload`: the staging area answers `init`, parts, `complete`, `abort`; its
  sweep may remove what is stale; an answer may be lost after it took effect.
* `ClipboardClient`: `c` is the client's record and operators follow its
  functions; the app's log is numbered within a life (`epoch`).
* `FileTree`, `FilePreviews`: what rows, results and previews show is the place,
  the query or the request they came from.
* `Reader`: a place is a line, the layout settles once and moves every line.
* `TerminalHistory`: a line is its number; a page is an interval of lines.
* `UsageBill`: an account is who is billed, how, through which endpoints, and its
  groups of limits with one window each; a row of a report is its vendor, billing
  mode, endpoint, tokens and currency. Hosts with many groups are asked once.

## 3. Runs

| run | module | bounds |
|---|---|---|
| `mux_stream` | `MuxStream` | all queues 2 slots, 3 bytes, chunks to 2, ring 2, one resize, 1 loss, 2 attempts |
| `mux_stream_loss` | `MuxStream` | the same with 4 bytes, 2 losses; violated |
| `viewer_sync` | `ViewerSync` | queue of 3 with 1 reserved, 3 bytes, 3 sizes, one each of resize, answer, re-attach, re-seed |
| `server` | `MCServer` | ring of 4, writes to 6, 14 positions; 2 clients and 2 windows neither of which fits in the other, channels of 1; restore point over a ring of 2 with 3 bytes, one resize, 2 attachments, 2 snapshots each; 2 connections with 1 declaration each and 1 loss; 1 session, event channel of 1, 1 lost subscription, 1 failed attach, 1 failed re-read |
| `terminal` | `MCTerminal` | 2 connections, 2 attempts, 2 epochs, 1 write, 2 sizes; 2 strokes; 1 paste of 2 files, 2 retries; 2 writes queued in xterm; 4 presses of 2 keys; 1 echo followed, 2 sends, 2 connections, 2 changes of visibility; 5 events in a queue of 2 |
| `tabs` | `MCTabs` | 2 browsers, 2 tabs of which 1 stored, 1 edit each, 1 retry, 1 failure; 3 sessions of which 1 remote, 1 operation in flight, 2 events |
| `workbench_first` | `Workbench` | the same list before anything is stored; violated |
| `page` | `MCPage` | 2 jobs of 3 parts, 2 attempts, 2 losses; 3 entries of the strip; clipboard of 2 entries, 2 lives, 1 socket; 2 directories, walks of 4; 2 files; 2 windows, one split between 2 agents and one a shell, 2 turns, 3 frames; 6 lines in pages of 2; 2 usage windows; 3 tabs, 2 moves |
| `clipboard_gap` | `ClipboardClient` | as in `page`; violated |
| `history_hole` | `TerminalHistory` | as in `page`; violated |
| `panels` | `MCPanels` | 2 by 1 cells over 3 lines; 2 surfaces, 2 panes; 2 units with 2 turns; 2 boxes and 1 entry, or 2 machines of which 1 is registered; 2 texts, 1 save, 1 failure; 1 line, 2 diagrams, 2 pages; 2 accounts with 2 groups of limits, 2 rows, 2 requests and 2 changes of accounts |
| `store_wiped` | `ServerStore` | 1 box, 2 entries; violated |

What the properties say (each has its comment in its module):

* **mux_stream** `SeamFlagged`, `ResumePointTruthful`, `ExitAfterLastByte`,
  `OutputOnItsGrid`: however queues overflow and connections break, the server's
  copy never joins bytes that were not adjacent unless the stream has recorded a
  loss or a *queued* frame was pushed out (`mux_stream_loss`); the resume point
  of an unflagged stream is exactly the end of what the server has; a seen exit
  means the copy ends with the last byte; live bytes land on the grid they were
  drawn for. `EveryByteArrives`, `ExitReported`: every byte reaches the copy or a
  loss is recorded or the session is over or given up; a dead session is reported.
* **viewer_sync** `NothingMissed`, `GridAsDrawn`, `OutputReachesViewer`: a browser
  being displayed either has everything or a Resync is on its way that cannot be
  evicted; the writer gets it to the present.
* **server** `ReadFromExact`, `KeepsRecentBytes`: all branches of `Write` against
  the plain buffer. `KnowsItsGrid`, `FitsEveryWindow`, `ObserverMovesNothing`:
  requests and notices cross in lossy channels, and yet a client whose requests
  are served ends on the session's grid. `RestoreIsWhole`: a browser that
  connects at any moment, also while a seeder of an older attachment is at work,
  gets one unbroken stretch on its grid. `NewestWindowRules`: once settled, the
  window the daemon was told is the one being looked at. `ServerSeesDaemon`: with
  lost, reordered and dropped events the view equals the daemon's list once
  nothing is in flight. `TypesHold`: types and bounds of the five parts.
* **terminal** `SettledMeansShown`, `RestoreSettles`: the overlay goes only when
  the restore of its own epoch was parsed, and it goes. `SocketIsKept`: no
  callback or timer of a replaced socket acts, and the page keeps trying until
  its budget is gone. `BelievedVoteHeld`: while the socket is open, a size the page
  believes declared is one this connection's server has, unless the panel watch has
  sent xterm's grid since. `EnteredOnce`: a stroke is in one place, once, and lost only
  where the road was closed to it (`disturbed`); keys and pasted files arrive once, in
  order, where they were meant. `ScreenIsCurrent`: a terminal
  shown is painted with its renderer, a hidden one gives its context back;
  latency and render samples were taken while the page was visible and on the
  connection there is, and the queue of events loses only its oldest.
* **tabs** `ClosedStaysClosed`, `TabsAreKept`, `RestShowsStored`: no interleaving
  of two pages' reads, writes, conflicts and answers loses a tab or brings one
  back, and at rest a page shows what is stored. `QuietReconcileRepairs`: a
  reconcile nothing ran into leaves tabs and sessions in agreement.
* **page** `UploadsEndWhole`, `WholeStaysWhole`, `FilesShowTheirOwn`,
  `TurnInterruptsOnce`, `SelectionHolds`, `UsageIsAwaited`, `TabStripObeys`.
  `TurnInterruptsOnce`: a dated turn interrupts once as long as the dates of its
  window did not go back (section 5).
* **panels** `TouchesHold`, `DrawersRight`, `OverviewHolds`, `StoreHolds`,
  `ReaderHolds`. `OverviewHolds` is about one list of cards and includes the usage chip: every token is under one
  tab, an owed sum is of one currency, the pill speaks by a current reading
  whenever there is one and names a tighter one.

### Why the bounds are enough

The properties compare neighbours (one frame and the next, one answer and the
request after it, one connection and its successor, one writer and another), so
the shortest history that breaks one is short. The bounds were chosen to include
each mechanism at least once *after* the state it can corrupt: queues of 2 slots
overflow with one frame already lost behind another; a loss gives a re-attach
with frames still in the old queue; three sizes show, hide and show a tab; an
event channel of 1 loses any of the three events of one session; two browsers
with one edit each meet every conflict, and one failed request leaves an answer
unknown; a second request is always possible while the first is out. Each
property of each passing run is broken by a mutant of the code
(`PROJECT.json`, `mutants`) within the same bounds. For the stream, the ring, the
restore point, the geometry, a browser's queue, the ownership of the grid, the list
of sessions, the terminal tab, the shared tab list and the parts of a page listed in
section 4 the proofs remove the bounds.

`CHECK_DEADLOCK FALSE` in every configuration: the bounds on output, losses,
requests and edits are guards, so each system stops when they are used up; and a
session that is destroyed, with its browsers gone, really is at rest.

Symmetry is used only where the members are interchangeable (grids, clients,
connections, browsers) and never in a run with a liveness property.

### Fairness

Weak fairness only. In `mux_stream` and `viewer_sync` on goroutines of the code
that loop until their input is closed: the forwarder, the stream reader, the pump
and the bounded retry loop of `reattach`; the restore at connect and the writer
loop, whose socket writes carry a deadline. In `terminal` on xterm's parser, which
works its queue off in timers of its own, and on the paint after it, which
`afterNextPaint` backs with a timer for pages whose frames do not run. A shell
owes no output, a browser no declaration, a user no key, the network no failure
and no recovery; an attach may fail every time, which is why `ExitReported` and
`EveryByteArrives` end in "or given up" (`gaveup`), which is what `reattach` then
logs.

## 4. Proofs

| module | theorem | says |
|---|---|---|
| `MuxStreamProofs` | `TypeCorrect` | types; no queue exceeds its capacity, no retry run its schedule |
| | `CopyIntact` | `[]SeamFlagged` |
| | `ResumePointExact` | `[]ResumePointTruthful` |
| | `ExitIsComplete` | `[]ExitAfterLastByte` |
| | `OutputPaintedRight` | `[]OutputOnItsGrid` |
| `ServerProofs` | `RingTypeCorrect`, `ReadFromIsExact` | types; `[]ReadFromExact` |
| | `RingKeepsRecentBytes` | `RingSpec => Recent!RecentSpec` |
| | `TypeCorrect`, `GridIsKnown`, `EveryWindowFits` | types; the two invariants |
| | `ObserversOnlyLook` | the action property |
| | `ViewportTypeCorrect`, `NewestWindowAlwaysRules` | types; `[]NewestWindowRules` |
| | `RegistryTypeCorrect`, `ServerSeesItsDaemon` | types; `[]ServerSeesDaemon` |
| | `ServerTypesHold` | `[]TypesHold`, of `ServerSpec`: the types of all five parts |
| `KeyframeProofs` | `RestorePointTypeCorrect`, `RestoreAlwaysWhole` | types; `[]RestoreIsWhole` |
| `ViewerSyncProofs` | `ViewerTypeCorrect`, `ViewerMissesNothing` | types; `[]NothingMissed` |
| | `ViewerGridRight` | `[]GridAsDrawn` |
| `TerminalProofs` | `RestoreTypeCorrect`, `RestoreShownFirst` | of the gate by itself: types; `[]SettledMeansShown` |
| | `SocketTypeCorrect`, `TerminalKeepsItsSocket` | types; `[]SocketIsKept` |
| | `DeclarationIsHeld` | `[]BelievedVoteHeld` |
| | `SurfaceDrivesGate`, `SurfaceShownFirst` | `SurfaceSpec => RestoreSpec`, so the tab inherits `[]SettledMeansShown` |
| | `ScreenAlwaysCurrent` | `[]ScreenIsCurrent`, of `TerminalSpec` |
| | `WhatIsEnteredArrivesOnce` | `[]EnteredOnce`, of `TerminalSpec` |
| `TabsProofs` | `ClosedTabsStayClosed` | `[]ClosedStaysClosed`, of `TabsSpec` |
| | `TabsStay` | `TabsAreKept`: two action properties, of the stored list and of each browser's |
| | `RestIsStored` | `[]RestShowsStored` |
| | `ReconcileRepairs` | `[]QuietReconcileRepairs` |
| `PageProofs` | `ChipNeverWaitsForNobody` | `[]UsageIsAwaited`, of `PageSpec` |
| | `DatedTurnInterruptsOnce` | `[]TurnInterruptsOnce` |
| | `ClipboardStaysWhole` | `WholeStaysWhole`, an action property |
| | `SelectionStaysWhatWasMeant` | `[]SelectionHolds` |
| `PanelsProofs` | `ReaderKeepsItsPlace` | `[]ReaderHolds`, of `PanelsSpec` |
| | `CopyTakesWhatIsMarked` | `TouchesHold`: an invariant and two action properties |
| | `RestStoresWhatThePageHas` | `[]StoreHolds` |
| | `DrawersAreRight` | `[]DrawersRight`, of surfaces not shown together |

They hold for every value of the constants that the named assumptions allow:
`StreamAssumption` (positive capacities, a socket that holds two frames, since an
attach of a dead session writes a replay and an exit at once),
`RingAssumption` (a positive capacity), `KeyframeAssumption` (numbers are natural, a
nil model is no screen), `GeometryAssumption` (finitely many
clients and windows, positive sizes), `ViewerAssumption` (a positive capacity of the
browser's queue, some grid), `ViewportAssumption` (finitely many connections, positive
sizes), `RegistryAssumption` (a positive capacity of the event channel),
`SocketAssumption`, `RestoreAssumption`,
`SurfaceAssumption` (numbers are natural, sizes positive) and `TerminalAssumption` (the
caps of the events and of the keys that wait are numbers, zero included, and so is the
bound on what is typed), `WorkbenchAssumption` (the first list is of tabs, finitely many),
`TabsAssumption` (what stands for no session is no session),
`PageAssumption` (the clipboard's log is bounded by a number,
the history has at least one line) and `PanelsAssumption` (counts are
numbers, boxes and surfaces finitely many, and what stands for nothing is no member). The bounds on bytes,
losses, requests, connections and writes are constants too, so the theorems hold
whatever they are. The theorems of `TabsProofs` about the stored list are about a server that has one
(`Stored`): before there is one no write names a revision, and the run
`workbench_first` shows what is then lost (section 5).

*Stream.* `SeamFlagged` is not inductive: it says nothing of frames that are still
under way. `CopyInv` adds that while nothing was flagged, the events tile the
output from the end of the copy to `consumed`, the wire tiles it from there, and
the queue from there to `seq` (`EventsTile`, `WireTiles`), and that between
attachments the resume point is the end of the copy (`ResumeKnown`). Each step
moves a frame across one boundary, appends one, or cuts the tail off together
with the connection. A push that evicts falls out of the premise, because it
records what it evicted. The exit needs `ExitIsLast` besides: it exists only for
a dead session, after its last byte, as the last thing in whichever queue it is in.
`OutputOnItsGrid` is about the head of one queue, so `GridsInOrder` says it of all
three at once: the copy's grid, then the events, the wire and the daemon's queue each
take up the grid at which the one before ends, and the last ends on the session's.

*Viewer.* `NothingMissed` speaks of a browser that displays the session; what a
browser about to display it already holds must be right too, so `OutputFollows` says
of every browser that has missed nothing that the frame in the writer's hand and the
queue continue what is shown up to `seq`. `GridFollows` says of the same frames that
each was drawn for the grid announced last before it (`DrawnFor`). A dropped frame
makes the browser stale, and then `StaleHasResync` carries it: the one Resync that
`sendFrame` queues is never the frame that a full queue gives up.

*Viewport.* Two facts that do not depend on the number of connections. Epochs are
handed out in order and a claim is accepted only if no later one was
(`ClaimsInOrder`), so at rest the owner is the newest connection. And whoever changes
the viewport owes a `syncViewport` until it has read it under `geomMu`
(`NewestOnItsWay`): when nobody owes one, what is declared or about to be is the
present viewport. The attach is one of the debtors.

*Registry.* `ServerSeesDaemon` speaks of rest only, so the invariant says of every
other moment why the view may differ (`MissingExplained`, `GoneExplained`,
`ExitExplained`): the list will be read again (`Reread`: because the subscription is
gone, because events were dropped whose gap the watcher has not met yet, or because a
read is due), or the event that tells it is under way (`Coming`), or the summary is
still among those the watcher goes through, or a request is about to put it right
itself. None of these is left at rest. A re-read that is half done would be no
explanation if what changed meanwhile were not told: `ListTrue` says that whatever has
changed since the list was read is under way or unheard of, which is why the code must
subscribe before it reads. That a gap is never overlooked is arithmetic about numbers
(`ChannelTyped`): the events in the channel carry consecutive numbers that end at the
last one given, so a dropped one shows at the next one taken, and the last event is
never the one dropped. `stale` is in the premise because a failed read is only logged.

*Ring.* `Laps`: cells behind the cursor hold the present lap, the others the
lap before. The lemmas go by the branches of `Write`; the refinement shows that
`ReadAll` is always the run of the last `Held` positions.

*Restore point.* `RestoreIsWhole` looks at the model and the ring only, but what
makes it true is in flight. Everything is compared with one number, `Reached`, the daemon
offset the server's count has reached. `Tiles` lays the frames in flight from there
(or from the start of the replay, while attaching) to the daemon's last byte, so each
chunk the pump takes continues the copy (`CopyFollows`) and the model after it
(`ModelFollows`, by `AdvanceFollows` and `AdmitFollows` about the `kf*Locked`
methods). `GridsInOrder` says that the frames before the next resize were drawn for
the model's grid and those after a resize for its grid, `WindowOn` that the window
was. The seeders run at any distance from all this: `SnapshotsFit` says that a
snapshot under way whose generation is still the keyframe's was taken on a grid that
everything later than its offset, held or in flight, was drawn for, which is why
`installAt` may compare generations and nothing else. After a loss the bytes are no
longer a stretch, and the grids still have to be right: the invariant then keeps only
that no byte is earlier than its place (`NoEarlier`).

*Geometry.* `Settled` (the size is the effective size of the declared windows)
and `Headed` (everything sent to a client ends in the session's size, unless one
of its requests is still on the way). The difficult step is `SetAttachSize`: a
request that moves nothing has to be answered exactly when it was not met.

*Restore gate.* That the overlay was settled by the right paint is about
callbacks made long before, so the invariant orders epochs (`EpochsInOrder`):
nothing queued is of an older epoch than what has been parsed, what waits for a
paint has been parsed, and a paint of this epoch implies that its restore was the
last one parsed.

*Terminal tab.* `SurfaceDrivesGate` is a refinement: each step of the tab is one
of the gate's or leaves the gate's variables alone, so the gate's theorem carries
over. `BelievedVoteHeld` is kept by each declaration, and by each opening because
an opening always changes what is shown and so forgets the belief (`OpensVisibly`); the
panel watch leaves the belief alone and is the property's exception.
`SocketIsKept` needs two facts of its neighbours: a socket that opens is shown as
opening (`Opening`), and before the terminal is attached nothing is under way that
could open one later (`NothingEarly`).

*Screen.* Showing and hiding leave ticks and timers behind that find another state
than the one they were made in, so the invariant says of each what it may find
(`TimersInOrder`): a tick of the mount no terminal yet, one of the watcher an active
tab, a timer that reveals no tick before it. What a shown terminal lacks is then always
under way (`RevealDue`): its renderer by the tick or the timer, unless the browser
denied one; the lines that were parsed without a layout by either of them or by a
repaint that waits in xterm's queue, behind which nothing can go stale again while the
tab has a layout. A wish from a link is kept because the terminal has read it by then
(`LinkRead`).

*Measures.* Only the present epoch of visibility is compared when a wait ends, and that
is enough because a wait begun in this epoch has seen the page hidden only if it still
is (`Honest`), at every stage a wait goes through.

*Events.* That nothing is missing between the events that wait says nothing of those a
request carries, which come back in front of them when it fails. `BatchFollows`: these
are older than all that wait, and either follow on without a hole, or what waits fills
the buffer by itself, and then what comes back is exactly what is trimmed.

*Typing.* `Placed` says that the prompt, what is written (the box while it is open, else
the draft), what is gone and what is lost are disjoint and together all that was typed so
far, each number standing once (`Distinct`); it is proved of the sets of what the texts
hold (`Ran`), for any number of strokes. What the actions need besides is that focus and
composition are with the box only while it is open (`BoxThere`), that a composition on
its way into a box finds it there unless something closed it (`MovesKnown`), that a
tracker which knows how much stands in the prompt counts at least that much unless a key
did not get there (`PromptKnown`), and that the road was undisturbed where nothing is
lost (`RoadKnown`, `NoneLost`).

*Keys.* `SentInOrder` and `WaitInOrder` say of all pairs what `SentAsTyped` says of
neighbours: what waits was pressed after all that was sent. A key the terminal answers is
newer than those that wait, so the queue has to be emptied by that answer.

*Pastes.* A file lands by its batch or by a retry. `FileHolds` keeps them apart: until
it failed nothing of it has landed and no retry is offered, a failed one is told, and
what a retry is offered for has not landed. The batch takes only what was saved.

*Tab list.* The properties compare a page with the server, which is reached by way of
writes, conflicts and reads of any age, so the invariant places each document a page
holds. `Follows`: each is one the server has or had (`Agrees`: of the same rev, the same
tabs), and what the server no longer has was removed by somebody. The merge infers who
closed a tab from its base alone, and two facts keep that right. What was closed here and
is still listed there is in the base (`ClosedHere`), or the merge would take it for a tab
opened by another; this is what needs `resync` to drop an answer the base has overtaken.
What the base has and the server still lists has not gone and come back meanwhile
(`NoReturn`). A tab opened here and not yet stored is nowhere else (`FreshIsNew`, and
between pages the last conjunct of `Kept`), so nobody can be thought to have closed it.
Steps of one page keep this by `LocalStep`, a write the server takes by `WriteStep`, which
also has to answer for every other page. Neither looks at groups and their order: that
merging, placing and replaying moves give a document in which no tab stands twice and whose
tabs are those of the merge of the three sets is `MergedDoc`, with lemmas on the sequences
it is made of. Counting up such recursive functions is the least-number principle for one
set at a time (`CountingUp`), which the provers can do.

`RestIsStored` is about order and names, so it does look at the groups. A page with nothing
to say shows the tabs of its base and remembers no move (`Quiet`), and a write with no edit
since it was sent holds what is shown and every move (`Behind`), so the answer leaves the
page quiet again. A quiet page that reads the list shows exactly what it read
(`MergeShows`), which needs two things: that each tab names the group it is in (`AtHome`),
or merging would put it elsewhere, and that the page has every group of its base, or a
group of the list would be taken for one deleted here (nothing calls `removeGroup`); both
are part of `Carries`.

*Sessions of the tabs.* A reconcile reads the list of shells, then works on it for many
steps while tabs and shells change. `SessionsInv` says what one that nothing ran into has
done so far: with no answer, nothing (`SilentSo`); with one (`HeardSo`), up to the judgement
no shell runs here that the list lacks, and after it each tab names a shell that was listed,
one made since, or none (`Judged`). A tab that waits to be opened again names no session
(`Reopens`), so binding the new one loses none, and until it is bound the session is in the
reconcile's hand (`InHand`). Every step of the user, of a shell or of another page ends the
quiet (`Disturb`), which is why the theorem promises nothing of a reconcile they run into.

*Usage.* A loader that loads has exactly one run that is its own (`Awaited`); cancelling
disowns the run and stops the loader in one step, so an answer that comes after it
touches nothing (`LoadersInv`).

*Attention.* A window whose dates did not go back shows its newest date or none. While some
pane still has it (`Lasts`), that it was said is remembered as raised or as muted
(`SaidIsRemembered`), and a card of the window speaks of it (`CardIsOfLatest`), so to wave
the card away is to mute the newest. Once no pane has it a frame can only show it by going
back, turns being numbered as they come (`TurnsInOrder`). That a rolled-up date is some
pane's, and none only if no pane has one, is `RollUpIsOfAPane`; the theorem is for any
windows and any panes in each.

*Clipboard.* A history is whole when it has everything of its life since its first cursor.
`PollRight` says what an answer may be merged into: one asked with the cursor of this life
reaches back to it, one of another life replaces all. `ClientRight` keeps what was removed
out of the list however old the answer is that still carries it.

*History.* A request carries the lines the page held when it was sent; they are still
there, or the selection and the search have been given up meanwhile (`PageRequest`,
`Selects`).

*Reader.* `PlaceInv`: whatever moves the text between two measurements either is the user,
who thereby ends the restoring, or is answered at the next tick; and marks are those of the
query, about to be made, or gone since the lines were made anew (`Current`, `wiped`). `DrawInv`: passes over
the diagrams overlap, each with the theme it began with; the last pass to ask for a
diagram is the one it will show (`LastAsks`), and behind every pass of an older theme
one of the present theme follows (`ThemeFollows`), so that a late result of an old pass
is written over. `PdfInv`: of the loads only the last counts, and a slot keeps the
sequence number of its load.

*Touch.* Anchors are kept by their row, the properties speak of lines. `AnchorKnown` ties
the two by what the buffer had given up when the anchor was placed.

*Store.* Arrays are held by reference, and that is what the invariant is about:
`ListsKnown` says that before the store was read no box has a list and afterwards each
has the store's own or none, unless a load failed (`parted`); `WritesKnown` that the
server has, or will be sent, whatever the page changed; `RegistryKnown` that a machine on
the server is in the page's registry or was deleted. The last does not hold for a page
that adds a machine before the registry was read (`blind`): the proof failed there, and
the code does overwrite the registry (section 5). `ListsNext` and `MachinesNext` are run
separately; the theorem holds for them together.

*Drawers.* The width the page is told is a variable of its own that every surface
writes from its watch, so the invariant says whose it is (`WidthTold`): the surface
docked on show is its owner, and there is none when none is docked. `PublishTells`
shows that one step may run the watches of all surfaces in any order and end there,
by counting through the order: what was told by a surface that was docked stays until
that surface's own watch has run, and then the other's has or will. It needs that at
most one surface is shown (`OneShown`), hence the hypothesis `~Together`: with two on
show the width is wrong (section 5).

Only model-checked, because the prover cannot do them: the liveness properties
(`EveryByteArrives`, `ExitReported`, `OutputReachesViewer`, `RestoreSettles`) and
anything with `ENABLED`; statements by induction over data. No module declares a
RECURSIVE operator. Only model-checked for now: `TabStripObeys`, `UploadsEndWhole`, `FilesShowTheirOwn` and `OverviewHolds`.

## 5. Disagreements between the code and what it says

Shown by a run whose property is violated:

1. `LossAnnounced` (`mux_stream_loss`): a control frame pushed into a full queue
   evicts the oldest entry, which may be counted output or a gap notice, and
   nothing records it (`muxd/client.go:806`, `muxd/session.go:736`). The next
   re-attach then resumes on top of the hole.
2. `OnlyClosedTabsGo` (`workbench_first`): before anything is stored, pages have
   no rev, two of them write as plain replaces, and the second erases the first's
   tab (`api/workbench.ts:42` against `settings.go:41`).
3. `SnapshotFillsHistory` (`clipboard_gap`): a frame without an entry before the
   first poll is answered raises the cursor past a history that is then never
   fetched (`useRemoteClipboard.ts:371`).
4. `LinesHaveNoHole` (`history_hole`): a match 251 to 500 lines above what is
   loaded brings a page that does not reach it (`useTerminalHistory.ts:237`).
5. `StoredIsKept` (`store_wiped`): a box whose load failed keeps an empty list,
   which a later edit writes over the stored one (`useServerStore.ts:58`).

Met while reading and modelling, contained in the models where noted, without a
run of their own. On the server:

* The writer's `select` may take the session's end before output still queued for
  the browser (`handlers.go:817`), the very hazard `session_mux.go:429-432` avoids one
  hop earlier. `ViewerSync!WriterExit`.
* Output between the restore sent at connect and the browser's first size is
  dropped without marking it stale (`session_viewport.go:353` against
  `session_screen.go:36-37`). `ViewerSync`.
* `setViewerSize` reads the grid and tells the viewer in two critical sections, so
  an older grid can be queued last (`session_viewport.go:265`, `:272`).
  `ViewerSync!ReadGrid`, `TellViewer`; excluded by `GridAsDrawn`.
* A re-attach that finds another grid tells no browser (`session_mux.go:403`
  against `:503-506`). `ViewerSync!AttachGrid`; excluded by `GridAsDrawn`.
* `ClearActiveConn` loads, compares and deletes; the delete may take a
  successor's entry (`session_manager.go:544` against `:511`). `Viewport`.
* `noteDeclared` overwrites what was declared on the new stream meanwhile
  (`session_mux.go:404`). `Viewport!AttachNote`, `crossed`.
* `forgetVanished` ends a session created since the list was read
  (`session_mux.go:952` against `:993-996`). `Registry`.
* A re-read of the list that fails is not repeated while the subscription lives
  (`session_mux.go:740`). `Registry!ListFails`, `stale`.
* Adoption stores unconditionally what `Create` may just have stored
  (`session_mux.go:938`): two pumps on one session, the orphan
  `session_manager.go:292-296` warns of. `Registry!AdoptStore`.
* Adoption whose attach fails leaves a session shown as running that nothing pumps
  (`session_mux.go:943`). `Registry!AdoptAttach`.
* `Destroy` counts `terminalActive` down also when the watcher has already
  dropped the session (`session_manager.go:446`). `Registry!DestroyLocal`.
* The daemon registers a subscriber before acknowledging, so an event can take the
  place of the acknowledgement (`muxd/daemon.go:689-700`, `muxd/client.go:535`).
  `Registry!SubscribeFails`.
* Not modelled: `refreshFromDaemon` writes `sess.pty` without telling viewers
  (`session_mux.go:972`); the attach of a dead session leaves `attachedDone` open,
  so the next attach on that connection waits for the ceiling
  (`muxd/daemon.go:455`, `:498`); a rename and a save of the paste mode each write
  a snapshot of the whole blob (`types.go:201-228`, `paste_mode.go:90-124`);
  `roundTrip` sends a request again when its connection is lost, also a `Create`
  the daemon has carried out (`muxd/client.go:288`); the idle watchdog decides
  under the lock and stops outside it (`muxd/daemon.go:223`); two requests with
  the same part share one temporary file (`files_chunk.go:482`).

In the terminal tab:

* A window's blur takes the page's vote back without telling the server
  (`CliTerminalSurface.vue:1865` against `viewportDeclaration.ts:38`, `:40`); the
  watch on the active mode sends xterm's grid, the server's own where that sizes the
  terminal, past `declareViewport`, also from a hidden tab, which then votes
  (`CliTerminalSurface.vue:1904-1914` against the only place that `:1599` speaks of), and the
  page keeps believing the size it declared before (`PanelChanges`); re-activation reopens a socket the
  server took over although `:1810` calls it a no-op. `TerminalSurface`.
* A restore larger than one slice of `sliceForWrite` is not written together with
  its clear (`restoreGate.ts:134-137`). Input typed while a socket was connecting
  survives its failure into the next connection. `BrowserSocket`.
* A comment of `XtermTerminal.vue` (near `:408`) says that a renderer lost is lost
  for the rest of the session; the next reveal takes a new one. `XtermScreen`.
* Any data of the terminal clears all pending keys, so a key swallowed before is
  lost (`useXtermKeyboardFallback.ts`). `KeyFallback`, whose property says so.
* A box opened by an input method and closed within the armed 600 ms while the next
  composition starts loses that text, and so does a box closed under a composition
  by its button. Sent while no socket takes it, a box's text is cleared, box and
  draft, and dropped without a word (`useComposeBox.ts:396-406`,
  `useWebSocketClient.ts:221-232`; the history of what was sent still has it), and
  so is a pristine key given back by Escape. The host's prompt replaces what is
  written: in an open box the stored draft with it, else the draft when the box
  closes. The prompt tracker claims to err only toward "not empty"
  (`composeIntercept.ts:248-257`), but takes a Return or a deletion that no socket
  took for done, and moving left and deleting says empty. `TypeToCompose`: `lost`,
  `missed`.
* `preventPaste` after `await readClipboardStrings` comes too late
  (`useCliPasteResolver.ts:238`, `:250`). `PasteResolver`.
* Anchors of a touch selection keep their buffer row when a full scrollback is
  trimmed, while xterm's selection moves with its text. `TouchSelection`.
* In a split tab the closing owner publishes width 0 while the other half's
  drawer is docked, although `CliTerminalSurface.vue:1327-1331` says otherwise.
  `PaneDrawers` with `Together = TRUE`.

In tabs:

* `reconcile` works from a list read before (`useCliState.ts:520`, `:797` against
  `reconcileTabs.ts:14`): a create in flight is adopted as an orphan and bound
  again; a live second pane of a split tab is deleted and adopted as a ghost.
  `TabSessions`, where the property speaks of reconciles nothing ran into.
* A PUT that was stored but not answered makes a tab closed before its retry
  doubtful; after a failed load the placeholder group is stored by the next save.
  `Workbench`.
* A keyup lost to another window leaves the switcher's keys dead until the same
  key is pressed again (`TabQuickSwitcher.vue:139`, `:185`). `TabStrip`.

In the panels:

* A resumed upload's id is made of directory, name and size, so a replaced file
  goes on with the old one's parts; cancelling while `init` is out leaves its
  staging to the sweep; cancelling during `complete` still ends as done. `Upload`.
* The delete bar outlives a change of directory and deletes the same path in the
  other one (`FilesPanel.vue:631`, `:640` against `:166`); `refreshDir(null)` has
  no sequence guard (`:378-395`). `FileTree`, `strayed`.
* "A turn interrupts you once" (`useAttentionHud.ts:218-221`) fails in a split
  window: its date is that of the first pane that has one
  (`surface_card.go:129-134`), so it goes back to an older turn when the newer one
  ends or leaves, and only the last one raised or muted is remembered. A prompt
  without a date in another pane hides behind the older date. `AttentionHud`,
  `backward`. An edge of an agent consumed while hidden or cooling is never raised
  later; a frame that loses a window prunes its ledger. Each list of cards
  prunes keys that are not its own and stores the whole map
  (`useAgentOverview.ts:573` against `:463`). `Overview`.
* `runSearch` of the history has no sequence guard; concurrent `fetchPage` calls
  append to one list of styles; answers of the previous session merge after
  `reset()`. `TerminalHistory` models one session.
* `refreshAggregate` drops a request for another window while one is out
  (`UsageChip.vue`). `UsageReports`.
* `findTightestQuota` skips old readings but not those of a family the account has
  left, so a group that its card folds away as history may head the pill; the
  title's remark that this is where you spend compares runtimes with a set of
  vendors (`UsageChip.vue:388` against `:321`). `UsageBill`.
* A machine that is added before the registry was read is written over the registry the
  server has (`useRemotePeers.ts:83-97`): `loadPeers` takes care not to put an empty list
  in its place (`:73-76`), `persist` does not ask. `ServerStore!AddPeer`, `blind`.
* Two pages clobber each other's keys in the store, whose saves carry the whole
  blob; failed saves are not retried; a `set` before hydration is lost when the
  load replaces the data. `ServerStore`.
* A link that names another line of the document makes the lines of its source anew,
  with the search open: the marks are gone, the count stays, and neither watch that
  runs the search is on the line (`FilePreview.vue:162`, `:746` against `:362`,
  `:367`). `Reader!Renamed`.
* On the desktop the host's prompt is never reset (`CliTerminalSurface.vue:2646-2649`),
  so a box opened later shows it again, sent or not, in place of the stored draft, and
  closing stores it over that draft (`useComposeBox.ts:509-510`, `:526`); a snippet or
  an old entry is not stored until the next stroke, so a reload loses it.
  `ServerStore!Opened`, `inserted`.
* A stored place longer than the first layout is clamped and then overwritten
  (`FilePreview.vue:310-312`); a stale pdf load's failure disposes the newer
  load's watchdog (`PdfPreview.vue:98` before the check at `:99`). `Reader`.
* A render sample is said to be taken while visible and laid out throughout
  (`renderSampleGate.ts:54`); the layout is looked at when the frame is written
  only. The event about a failed flush is pushed past the cap
  (`useCliInputDiagnostics.ts:73`), and the flush of a page that hides does nothing
  while another is out (`:40`). `Diagnostics`.
* `useTmuxState.fetchSnapshot` and the loads of `useUsageQuota` have no sequence
  guard; the statistics of an edit header that wraps may be taken for a line
  number (`terminalFileLinks.ts`). Not modelled.

## 6. Not modelled

* Contents of bytes and screens: the terminal emulator, where a replay may be cut
  (`replay_boundary.go`), framing and encoding. They are functions of data; the
  repository compares them with xterm's own output.
* Input on the server (keystrokes go one way through one socket), several
  attachments on one connection, the daemon's start lock and idle watchdog,
  session metadata, the retry of a lost request.
* What transcripts, process tables, quotas and git say: agent intelligence,
  reports, credentials, search index. Their answers are inputs of the page's
  models, late, failing or out of order.
* The notifier's edges and cooldowns on the server.
* Markup, styles, formatting, menus and forms of the page; zoom, keyboard insets
  and the layout of the action bar; the resolution of file links in a terminal's
  text.
* Scripts, generated bundles and CI.
