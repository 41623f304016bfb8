# A verification project for koreader-base

koreader-base is the lower half of KOReader: C libraries and LuaJIT modules that give the reader
its devices (input, framebuffer, clock, processes), its document engines (MuPDF, CREngine, DjVu,
pictures, KOPT reflow) and its services (caches, downloads, the self-updater). This directory
holds TLA+ models of the parts that carry state and control, the TLC configurations that check
them, and TLAPS proofs.

Files: `X.tla` models a component; `MCX.tla` extends it for TLC; `*.cfg` is one run; `*Proofs.tla`
hold the theorems, some of two components (`InputProofs`, `DriverProofs`, `TextProofs`);
`PROJECT.json` lists components, runs, the source lines behind every definition, hazards and
theorems. A definition named `X_Something` next to a definition `X` is a variant of `X` with a bug
a maintainer could introduce: every property is shown to be violated by one of them, so that none
holds by the shape of its model.

## 1. Inventory

| component | state | operations | interacts with | hard behaviour |
|---|---|---|---|---|
| LRU cache (`ffi/lru.lua`) | table, doubly linked list, counters, recycled tuple | get, set, delete, clear, chop, resize | stored objects (`onFree`) | eviction loops on hand-kept counters, freed objects, partial failure of `set` |
| RTC wakeup alarm (`ffi/rtc.lua`) | kernel alarm, scheduled flag and time in Lua | set/unset/toggle/read/validate alarm | `/dev/rtc` ioctls, the clock | two copies of one fact (driver and Lua), ioctl failures between them |
| Input (`input/`) | fd array, generator pid, timer list | open, fdopen, close*, waitForInput, setTimer, clearTimer, fake event generators | kernel devices, forked generators, timerfds | select order, devices that vanish, fds reused, timers outliving the loop |
| Self-updater IPC (`ffi/updater.lua`) | two pipes, shared abort flag, child state | _call, free, child loop, progress | child process, shared memory, pipes | cancellation racing late replies, framing, parent and child interleaved |
| Subprocesses (`ffi/util.lua`, `ffi/posix.lua`) | pids, pipes, process groups | runInSubProcess, isSubProcessDone, terminateSubProcess | kernel, before/after-fork hooks | kill racing setpgid, zombies, leaked fds |
| Framebuffer core (`ffi/framebuffer.lua`) | rotation, viewport, night mode, saved buffer | setRotationMode, setViewport, refresh*, toggle* | blitbuffer, drivers | coordinates through two transformations |
| MXC e-ink refresh (`ffi/framebuffer_mxcfb.lua`) | update marker, flags of the last wait | mech_refresh, mxc_update, wait_for_* | EPDC driver | which update is waited for, marker wrap-around, invalid markers |
| SDL3 input (`ffi/SDL3.lua`, `input_SDL3`) | pointer tables, slots, pen state, a deadline | waitForEvent | SDL | slots shared by mouse, fingers, pen; unpaired events; time in two fields |
| Zsync updater (`ffi/kotasync.lua`, `ffi/downloader.lua`, `kotasync/`) | manifest, etag, missing files, stream state | fetch_manifest, prepare_update, download_update, reorder | files, HTTP server, updater child | crash between two files, stream split over entries, hash failures |
| Blitbuffer (`blitbuffer.c`, `ffi/blitbuffer.lua`) | geometry, rotation, ownership flag | blit*, paint*, rotate, free | every drawing module | bounds clipping under rotation, dithering and blending arithmetic, ownership |
| MuPDF binding (`ffi/mupdf.lua`, `wrap-mupdf.*`) | shared context, its reference count | openDocument, openPage, close, render | MuPDF, finalizers | reference counts under failures and GC |
| Pictures (`ffi/pic.lua`) | document with image buffer or frame decoder | open, page, close | jpeg, png, webp, gif decoders | page used after document closed |
| KOPT reflow (`ffi/koptcontext.lua`, `koptreflow`) | contexts, boxes | reflow, OCR, box queries | leptonica, tesseract | native buffers shared between contexts |
| Font faces (`ffi/freetype.lua`, `xtext.cpp`) | counts of library, faces, sizes; weak cache | newFaceSize, done, getHbFontData, finalizers | FreeType, HarfBuzz, the collector | finalizers in any order, a counter shared by Lua and C |
| Text layout (`xtext.cpp`) | text, character flags and widths | measure, makeLine, shapeLine, getSegmentFromEnd, getSelectedWordIndices | HarfBuzz, libunibreak, fonts | candidates for a line's end, two walks of the fallback fonts, indices |
| CREngine, DjVu, NanoSVG, archiver | engine objects | document operations | vendored engines | mostly delegation |
| Other drivers (`framebuffer_linux/einkfb/ion/sunxi/android/pocketbook/qtfb/blight`, `input_*`) | device handles | refresh, input loops | kernels, vendors' services | per-device variants of the same loops |
| Codecs and crypto (`ffi/jpeg`, `png`, `webp`, `zstd`, `xz`, `crypto`, `sha2`, `qrencode`), bindings `*_h.lua`, build, tests | none that persists | pure calls | libraries | out of scope of a state model |

## 2. Modules, runs and proofs

### LRU cache: `LRUSpec`, `LRUCache`, `LRUCacheProofs`, `MCLRUCache`

`LRUSpec` is the promise: entries ordered by their last use, of which the cache itself gives up
only the least recently used, within limits on slots and bytes. `LRUCache` is `ffi/lru.lua`:
`map` and the fields `VALUE`, `KEY`, `BYTES` of the tuples, the links in the record `list`
(`newest`, `oldest`, `PREV`, `NEXT`), the counters, `removed_tuple`. `get` and `delete` are one
action each. An operation with a loop (`set`, `clear`, `chop`, `resize_slots`, `resize_bytes`)
starts with an action of its name, evicts one entry per `EvictOldest` while `MustEvict` (the loop
condition of that operation) holds, and ends with `SetInserts`, `SetRaises` or `Finishes`; no
other operation starts in between, as in Lua. Two history variables: `freed` (objects whose
`onFree` ran) and `order` (which tuple was used less recently than which). Clients store only
objects that exist and that the cache does not hold; the repository's API leaves that to them.
The four variants of `del` are one definition: without `max_bytes` every entry has 0 bytes, and
`enable_eviction_cb` decides whether `freed` moves.

- Run `lru_bytes`: three keys, objects and tuples (symmetric), entries of 1 or 2 bytes, slot
  limits 0 (by a resize only), 2 and 3, byte limits 1 and 3, so that both limits bind, either
  alone forces evictions, an entry can exceed a whole budget, and limits grow and shrink.
  `CallsEnd` says that each iteration of a loop takes an entry out and that any other step of a
  call ends it; with the absence of deadlock, which TLC checks, every call returns.
  `IInv`, proved below, holds in the same run when it is added to it.
- Proved, for all constants: `Invariance` (`IInv`), `StaysWithinLimits`, `NeverServesFreedValue`,
  `OldestIsLRU`, `EveryCallEnds`, `CountersAreExact`, `RaisesOnlyForTheTooBig` and `Refinement`
  (`Spec => ImplementsLRU`). The argument: `IInv` says that every
  `NEXT` leads to the *immediate* predecessor in the order of use and every `PREV` back
  (`Chain`), and that the ends are the extremes (`Ends`). `CutWellFormed` and
  `SetNewestWellFormed` show that the list surgery keeps this; the rest is per action. Plain
  "oldest is least recently used" is not inductive: after a cut the new oldest is the former
  `PREV` of the old one, and only adjacency says that nothing lies between them.
  Assumptions: sizes and limits are naturals, `Nil` is none of the other values.
  `CountersAreExact` needs what a sum over a set is, which the library defines by recursion:
  `SumExists`, `SumRemoves` (the order of the terms does not matter) and `SumOfTerms` show it for all
  finite sets by taking a smallest set for which it fails. `RaisesOnlyForTheTooBig` follows, as with
  no tuple left both counters are 0.
### Self-updater calls: `UpdaterIPC`, `UpdaterIPCProofs`

`ffi/updater.lua` forks a child that runs the updater's methods. The parent's program counter is
`parent.at`: `CallStart`, `CallDrain` and `CallSend` are the lines of `_call` in their order, the
`Recv*` actions its receive loop, `FreeStart` and `FreeEnd` `free`; `child.at` is the loop of
`_subprocess`. Both pipes are sequences. What the child sends is two writes, a length and a body,
and each is an element of `up`, so that the drain of `_call` may cut between them. The messages of
the model carry the number of their call; the protocol's do not, and `wrong` records that the
parent took one of another call for its own.

- Run `updater_calls`: three calls (the one that is cancelled, the one it might disturb, and one
  more), methods that report twice, errors, cancellations, and a child that dies at any step.
  `OwnAnswers`: an answer is mixed up only if some call began while the child was still busy with
  a cancelled one. That exception is real: `_call` resets `abort_flag` without waiting for the
  child, and the antecedent `overlap` marks just that. `CallsReturn` and `FreeReturns` are the
  liveness of the two blocking operations.
- Fairness: weak, of the parent inside a call and of the child: both are running processes, and
  their reads block only while the pipe is empty. That a method ends is assumed; that a call is
  made, or that the child survives, is not. Deadlock is not checked, the bound on calls stops the
  system.
- A method that reports nothing (an empty manifest) leaves `_call` waiting for a report; the model
  assumes manifests with files (`Total` positive).
- Proved, for any number of calls and of reports: `AnswersAreOwn`. The invariant `Owned` says what
  a call that overlaps none owns from its drain to its end: `up` alternates lengths and bodies, all
  of this call, ending in a length exactly while the child is between its two writes, and the
  requests on their way are of this call. It says nothing of the time between calls, when the pipes
  hold whatever a cancelled call left.
### RTC wakeup alarm: `RTC`, `DriverProofs`

The driver (`rtc`, `alarm`, `aie`) and the Lua object (`_wakeup_scheduled`,
`_wakeup_scheduled_tm`) each know of the alarm. Each of `toggleAlarmInterrupt`, `setWakeupAlarm`
and `unsetWakeupAlarm` is one action with the call that fails, if any, as a parameter (`open`,
`ioctl`, `close`): the object's fields are assigned before or after it as in the source. `Tick` is
the hardware clock and its interrupt, `SetSystemClock` anyone who sets the system clock and
`HCToSys` the function that sets it from the RTC. `validateWakeupAlarmByProximity` is a predicate:
what it would answer now.

- Run `rtc_alarm`: five instants, proximity 3 (so that validation can come before, in and after the
  window), system clock ahead, exact or behind. `ValidatedHasFired` and `AlarmFires` relate the two
  copies after any sequence of failures.
- **The code against its documentation.** `Enabled` is `(enabled ~= nil) and enabled or true`
  (`rtc.lua:60`), which is `true` for `false` as well: a request to disable the interrupt enables
  it, against `rtc.lua:53` ("Whether the call enables or disables the alarm interrupt"), 96 and
  155-156, and an alarm unset before its time still wakes the device. The model does as the code
  does. `AlarmFires` does not count that as right: the history variable `wanted` is what the last
  request the driver took asked for, and the property is about alarms that are wanted. It would hold
  of a code whose `false` works as well.
- Proved for any times and proximity: `AlarmInvariance`, `AlarmsFire` and `ValidatesOnlyFired`. The
  invariant is the type, `AlarmFires`, `NeverDisabled` (the driver's alarm has fired or will, wanted
  or not: what the code does, and what `ValidatesOnlyFired` needs, since a time set with `false` is
  kept as the scheduled one) and `ScheduledHasTime`. It is inductive because an alarm is never
  programmed in the past without firing at once; assumption: times are positive naturals.
- Left out: time zones (`HCToSys`), and that `getWakeupAlarmEpoch` reports the time of a call that
  failed, which the model has (`_wakeup_scheduled_tm` is assigned first) and no document forbids.

### Input event loop and timers: `Input`, `InputProofs`

`input/input.c` for the Kobo build with `timerfd-callbacks.h`. `inputfds`, `fd_idx`, `nfds` and
`fake_ev_generator_pid` are the module's statics, `head`, `tail` and `node` the timer list,
`kind`, `queue`, `due`, `writer` and `generators` what the kernel holds. The functions called from
Lua are atomic; `waitForInput` is not: `WaitStarts`, `SelectReturns` or `SelectEnds`,
`ReadStarts`, `Reads`, and its exits `ReadEnds` (EAGAIN), `ReadFindsNoDevice` (ENODEV, closes the
slot), `ReadFindsEnd` (0 bytes), `ReadFails`, `ReportTimer`. Between them events arrive, devices
vanish, timers expire and generators die.

- Run `input_loop`: two slots (a full array and a repacking), two timers (a list with two ends),
  three descriptors (so that numbers are reused and the highest may be a timer's or an input's), a
  buffer of two events (full, partly full, empty), three events, three opens, failures or deaths.
- `DescriptorsConsistent` is about the array, the timers, `nfds` and the generator's pid together, the
  facts that every function here changes some of; `TimerListIntact` and `EventsKept` are the list
  surgery and the two buffers.
- Fairness: weak, of the steps of `waitForInput`: the interface calls it in a loop; strong, of
  clearing a timer that was reported (`told`): the interface clears each timer `waitForInput` gives
  it, before, after or between other calls. It must: the timer stays ready
  (`input.c:536`, never read) and `waitForInput` reports only the first expired timer of the list,
  so an uncleared one would hide all behind it for ever. Devices, timers and users owe nothing.
  `TimerReported` then says that every expired timer is reported or cleared: neither inputs, which
  are served first, nor the expired timers before it in the list starve it. Events are bounded, so
  this covers finite bursts only: an input that is ready at every `select` would starve timers, as
  the code says nothing against.
- `eof` exempts one case: after the generator ended its pipe is readable for ever, each
  `waitForInput` reads 0 bytes and leaves (`input.c:494`, "Should never happen"), and a timer is
  never looked at.
- `clearTimer` frees the node it is given: the model's caller clears a node once, and not after
  `closeAllInputDevices` freed them all, which the code leaves to the caller
  (`timerfd-callbacks.h:170`).
- Not modelled: reading of the generator's sources (libue, lipc), `fakeTapInput`, event contents.
- Assumption: descriptors are numbers below `FD_SETSIZE` (`FdSetSize`);
  the `fd_set` of `select` has no place for others, and the code does not check.
- Proved, for any slots, descriptors, timers, buffer and bounds: `DescriptorsAreConsistent`,
  `TimerListsAreIntact` and `EventsAreKept`, from `InputInv`, the conjunction of `DescInv` and
  `EventsInv`. `DescInv` adds to the properties how `kind` and the array agree within a call, and that
  `nfds` covers both collections; `DeleteKeepsList` and `GrowKeepsList` are the four cases of the list
  surgery, and `NoLoop` shows that following `next` from the head reaches every node, with the least
  set closed under `next` in the place of an induction over the list. `EventsInv` says which of the
  two buffers holds what part of the batch at each step of `waitForInput`, and that every event is in one
  place only. `TimerReported` is a liveness property and stays with TLC.
### MXC e-ink refresh: `MxcRefresh`, `MCMxcRefresh`, `DriverProofs`

A refresh of any kind becomes `mxc_update`, which chooses waveform and update mode
(`PlanOf`: promotion to colour, night mode, FULL or PARTIAL) and then makes up to five system
calls, each an action: `SubmitBefore`, `CompleteBefore`, `Send`, `CompleteAfter`, `SubmitAfter`.
`DriverStep` lets the EPDC submit and complete updates in any order. Every ioctl may fail and
every wait may time out (`failed`). `MCMxcRefresh` gives the waveforms of five devices as `init`
assigns them: Pearl (waits before), Rex (REAGL night mode), Mark 7 (no waits before), a colour
Kobo on MTK (waits after) and the Kobo_condor, which has neither that wait nor MTK's REAGL.

- Run `mxc_refresh`: three refreshes over four markers, from the first marker or one before the
  wrap-around. Three updates are what the properties need: one waited for, one not, one after them.
  `FullsFenced` and `SentAfterPrevious` speak of the driver's state, `WaitedOnce` of
  `dont_wait_for_marker`. Deadlock is not checked: the bound on refreshes stops the system.
- Assumption: fewer refreshes than markers are in flight (`MaxUpdates < MaxMarker`), as there are
  2^32 - 1 of them.
- Not modelled: the region (that is `Screen`), flags passed through to the driver, power management,
  and the wait of Mark 7 boards with an unreliable ioctl, which first waits for the marker before
  the one asked for (`framebuffer_mxcfb.lua:173`) and so waits for some markers twice on purpose:
  `WaitedOnce` is about the waits that `mxc_update` and `refreshWaitForLastImp` ask for.
- Proved, for any devices (`Devices` and their waveforms are constants), any number of markers and
  any bound on refreshes below it: `FullsAreFenced`, `NoSecondWait`, `SentInOrder`. The properties
  are not inductive: that nothing is waited for twice depends on which markers can be the last one
  handed out and the last one waited for, also just after the wrap-around. `Handed` says so, `Counted`
  that a wait counted for the marker at hand is the one noted in `dont_wait_for_marker`, `Ready`
  what each wait has achieved by the time of the next system call, `Fenced` that a FULL update not
  done is the one of the current call, whose plan is to wait.
### Subprocesses: `SubProcess`, `SubProcessProofs`

`runInSubProcess` is one action per system call: `Pipe`, `Pipe2`, `BeforeFork`, `Fork`,
`AfterFork`, `ReapOuter`, `Close`, each with its early return; the child's side is `ForkInner` (double
fork) and `ChildStarts` (setpgid, closing of the parent's ends). `held` and `inherited` are the
pipe ends open in the parent and in each process: a fork copies them. `FuncSpawns` lets the child
start a program of its own, `isSubProcessDone` and `terminateSubProcess` are the caller's.

- Run `subproc`: two calls with any arguments, as the hazards need a second child that inherits the
  first's pipe, and three processes per call. `EventuallyCollected` assumes that the kernel runs
  forked processes, the parent its own code, and that the caller goes on terminating
  (`Persevering`): nothing is assumed of `func`, which may run for ever.
- `terminateSubProcess` signals the group of the child, and before the child's `setpgid` there is
  none, so that SIGKILL reaches nobody and its failure is not looked at (`util.lua:484`, against the
  comment at `util.lua:479`, "ensures that it is terminated"). `KillsAll` is therefore about children
  that run `func`, and `EventuallyCollected` needs a caller that does not stop at one call.
- Not modelled: pid reuse, `readAllFromFD`, `writeToFD`, leaks of pipe ends after an early return
  (which the code has, and `held` shows).
- Proved, for any number of calls: `AlwaysRestarted`, `PipesEnd`, `KillsReachAll`. The invariant
  adds to the properties that one call at a time is in progress (`Alone`), who may hold a child's
  ends at which time (`EndsPlaced`), that the dead hold nothing, that a call has no process before
  its fork (`Unborn`), and that a child running `func` leads the group of what it started
  (`Grouped`).
### Zsync updater: `KotasyncUpdate`, `MCKotasyncUpdate`, `KotasyncUpdateProofs`

`fetch_manifest` (`FetchStart` to `EtagSave`, one action per file operation), `prepare_update`,
and `download_update` with `merge_ranges` and the downloader (`RangeBegins`, `Chunk`,
`WriteEntry`, `Progress`, `Publish`). A version of the archive is one content per file, a content
stands for what its hash tells apart. `Crash` leaves what is on disk, `Raises` is any assertion,
request or system call that fails, `ServerPublishes` replaces the archive between any two steps.

- Run `kotasync_update`: three files over three versions such that the missing ones make two
  ranges, one range, and differ between versions; entries of two units and chunks of every length,
  so that a chunk ends before, at and after an entry's end.
- Run `kotasync_cancel` (finding): `fetch` looks at the status and at the HTTP library's result, never
  at the length (`downloader.lua:41-52`). A body that ends early without an error counts as success:
  one without a Content-Length whose connection is closed, a range cut by an archive that has become
  shorter, or one that a progress callback declined (`kotasync.lua:608`). The next ranges follow, and
  the archive with holes is renamed to `update.tar.xz`. `BodyEnds` may therefore end a body anywhere,
  and the shortest trace ends the only one at once.
- `PublishedComplete` says what holds nevertheless, in every case: entries are published in order, all
  but the last one begun verified or empty (`InOrder`); and if every body came to the end of its range
  (`whole`, a history field) the update is complete, though the server changed in between. That a
  short body's update may be incomplete is the finding, not a need of the proof.
- Assumptions: versions grow (a server that goes back to a former version with its former ETag is
  not considered), the entries' places in the archive are those of the manifest and all have the
  same size; a body brings no more than the range asked for.
- Not modelled: `TarXz` and the archive format, `reorder`, and `Updater:free`, which calls a method
  `free` that the downloader does not have.
- Proved, for archives of any versions, files and sizes: `ManifestsAreFresh`. What a failure or a
  crash leaves on disk is never newer than the server's version, and the ETag never newer than a
  manifest that can be read (`OnDisk`); hence a 304 to that ETag means that the manifest is the
  server's. `Fetching` carries this through the request and the three writes.
- Proved as well: `UpdatesAreComplete` and `DownloadsAreTyped`, from `DownloadInv`. Its part
  `Verified` holds wherever bodies end: every missing entry before the current one has its hash and
  those after it are empty, since the loop takes the entries in order and raises at a wrong hash. The
  rest is for bodies that end with their ranges: position in the archive and entry in the list of
  missing files advance in different loops, and `Received` says how they meet. The current entry ends
  where the position plus what is left is, and between entries the position is the end of an entry `m`
  that separates the done from the undone (`Between`); so the end of a range is the end of an entry
  (`EndOfRangeEndsEntry`). `RangesCover`, about `merge_ranges`, gives what this needs of a range: it
  holds missing entries only and no missing entry follows its end at once.
### Screen: `Screen`, `MCScreen`, `ScreenProofs`

Three files meet here: `blitbuffer.lua` (rotation, bounds, fills, blits, with `BB_fill_rect` of
`blitbuffer.c`), `framebuffer.lua` (viewport, rotation, night mode, refresh) and the region
`mxc_update` of `framebuffer_mxcfb.lua` computes. A buffer is a place in the panel's memory with a
rotation and an inverse flag; `full` is the panel's, `bb` the working one, `unshown` the pixels
written since they were last sent. `paintRect` and `blitFrom` write, `Refresh` takes the rectangle
through `calculateRealCoordinates`, the bounds with their alignment and the panel's rotation.

- Run `screen`: a panel of 4 by 3 pixels (columns and rows differ, so that a swap shows), 64
  rectangles that lie within, cross or miss each border, also as viewports, in all rotations,
  portrait or not, alignments 1, 2 and 4 (one that does not divide a side), sources with negative
  and excessive offsets, of the target's type and stride or not.
- `RefreshShows`: when a region is sent, everything visible that was painted is in it; when
  `mxc_update` discards the region, as one pixel wide or high, what it leaves unshown lies in one
  row or column.
- A blit goes pixel by pixel or line by line (`Blitted`), or, between unrotated buffers of one type
  and stride whose lines are copied whole, in one run of `width*height` pixels (`InOneStep`, `Run`).
  The Lua blitters take that run without asking that a line fills its stride (`blitbuffer.lua:1233`,
  `:1260`), unlike those of C (`blitbuffer.c:1259`, `:1712`), though their comment speaks of
  "contiguous scanlines". Between two viewports of one panel, or one and its saved copy
  (`framebuffer.lua:552`), with the C blitter off, the last lines are then not copied, and pixels
  beside the viewport are. `BlitExact` demands exactness of every other blit, and of this one that
  it writes nothing visible and reads nothing of the source's pixels but what was asked for; in the
  run both halves occur. A blit of a single line or over the full width of the panel stays exact.
- Rows as wide as the buffer are filled in one run of `pixel_stride*h` pixels
  (`blitbuffer.lua:1728`, `SingleFill`), and a viewport's stride is the panel's: such a fill also
  writes beside a narrower viewport and below it, although a viewport is "a rectangular subset"
  (`blitbuffer.lua:2368`). The properties are about what is visible in the viewport.
- Proved for any panel, rectangles, sources and alignments: `Invariance`, `PaintedIsShown`,
  `RegionsStayInPanel`, `BlitsExactly`, `BuffersTurnTogether`. The invariant adds to `TypeOK`
  where the viewport's buffer lies, in terms of the upright screen, and that what is visible and
  unshown is within the physical rectangle of what is pending. The lemmas are about one axis at a
  time (bounds, alignment, clamping) and then about rectangles under each rotation.
- Assumptions: the interface refreshes what it painted, and all of the screen after a rotation or
  night mode, before anything else; a viewport is set while the screen is upright, which
  `setViewport`'s own checks presume.
- Not modelled: colours, blending, padding, the saved buffer, rotation by the hardware
  (`forced_rotation`), DPI.

### Font faces: `FontFaces`, `TextProofs`

Three counters of references keep a font: FreeType's of the library and of each face, and one made
by `freetype.lua` for each size (`size.generic.data`). `newFaceSize` makes or finds the face and
makes a size; `getHbFontData` of `xtext.cpp`, at the first text measured with the font, shares the
size and its face with HarfBuzz. They are given back by `done_size`, called by the font's owner
(`Done`) or by the collector (`FinalizeSize`), by `xtext_hb_font_data_destroy`, which frees the size
in C when it is the last, and by `done_face`. `Drop` is a font that the front end just forgets,
`CollectFace` the collector's finding a face that only the weak `faces_cache` refers to, so that the
next font of that file opens it anew beside the old one; `Exit` closes the Lua state, in which all
finalizers run in any order.

- Run `font_faces`: two files and three faces (a file can be open twice while another one is), two
  sizes, at most six references of the library when a font is made (a bound). `CountsExact`: every
  count is the number of its holders, so none is freed twice or kept. `NothingFreedInUse`: what a
  finalizer still to run will touch exists. `FontsReleased`: what is given up is freed.
- Fairness: weak, of the finalizers: a collector that runs finishes its cycle, and `lua_close` runs
  what is left. That the front end closes a font, or exits, is not assumed. Deadlock is not
  checked: after an exit nothing is left to do.
- The count of the library is not exact, and no property says so: `new_size` and `getHbFontData`
  take one reference each, and `xtext_hb_font_data_destroy`, when it is the last holder and frees
  the size too, gives back only its own (`xtext.cpp:2309`). All that is lost is the library's
  release at exit.
- Proved, for any files, faces and sizes and any bound: `CountsAreExact` and `NothingIsFreedInUse`
  (`FontInvariance`). `CountsExact` alone is not inductive: a count falls to zero, and frees, only
  where the last holder leaves. `FacesCounted` and `SizesCounted` therefore name each counter's holders as a
  set, `LibraryCounted` bounds the library's count from below by its faces, and `CacheIsLive` says
  that a face the cache leads to has not been freed.
### Text layout: `XTextLine`, `XTextWords`, `XText`, `MCXText`, `TextProofs`

An `XText` object is measured once, when a method first needs it: `measure` cuts the text into
segments of one script, asks libunibreak where lines may end (`Breaks`) and lets `measureSegment`
sum the advances of HarfBuzz's glyphs (`Glyph`), sending what a font lacks to its fallback
(`Fallback`) while it goes. The caller then makes lines one after the other: `XTextLine` is
`makeLine`, one step for each turn of its loop, with the line's candidates in variables named as in
the source; `Return` appends the line and the caller goes on from its `next`. `shapeLine` gives the
glyphs that are drawn, with a loop of its own that looks ahead for the next cluster the font has
whole (`NextWhole`, `ShapeCluster`). `getSegmentFromEnd` (in `XTextLine`) and
`getSelectedWordIndices` (`XTextWords`) are operators of a measured text.

The source calls `measureSegment` and `shapeSegment` from within themselves, for a font's fallback
and a range that turns up on the way. In `XText` what a font finds is therefore a function of the
range (`MeasureRange`), each font's is built from the one of the font after it (`Measured`,
`Shaped`), and each loop is a recursive function of how far it has come (`Measuring`, `Shaping`,
`MeasuringText`, `ShapingLine`): no operator is RECURSIVE, so that all of it can be proved about.

- Run `xtext`: every text of up to four characters out of two scripts, a mark, an ideograph, space,
  tab, newline and soft hyphen, in any order, and four longer ones; one font with what it lacks, and
  two fallbacks that each have what another lacks, with different widths; four requests (narrow,
  wider, breaking anywhere, with tab stops and expansion). Four characters suffice for each pair of
  neighbours inside a line, at its start and at its end; the longer texts have several lines.
  A text that is all laid out is at its end, so deadlock is not checked.
  `LinesTile`, `LinesFit` and `LongestLine` are about `makeLine`. `DrawnAsMeasured` relates its
  widths, found by one walk of the fallback fonts, to the glyphs found by the other.
  `EndSegmentLongest` and `SelectsWholeWords` are the two questions.
- Proved for any text, any widths and flags that `measure` can leave (`WellMeasured`), any request:
  `LinesFollow` (`LinesTile`) and `LinesAreNotWider` (`LinesFit`). The invariant `Scanning` says
  what holds inside the loop: no hard break so far, a width that fits, and a candidate that is
  itself a line that fits (`CandidateFits`), ending just before `next` or one skipped character
  earlier; `LoopEnd` says why the loop ended, which is why a line that takes no character starts
  with one too wide.
- Proved for the same texts: `LinesAreLongest` (`LongestLine`). `LongestSoFar` adds to `Scanning`
  that the width so far is the sum of the characters' and that the candidate is the last place found
  up to the character at hand; that no place follows where the loop ended needs sums of widths to
  grow. `EndSegmentIsLongest` (`EndSegmentLongest`) goes by induction over the walk back, and
  `SelectionsAreWhole` (`SelectsWholeWords`) relates the word ends found in the window to the
  boundaries of the whole text next to the selection.
  They rest on `Induct` and `Recursion`: induction up to a number as a fact about a set, and that a
  recursive function exists.
- Proved for an object, any text of any characters and marks, any list of fonts:
  `LinesAreDrawnAsMeasured` (`DrawnAsMeasured`). The argument has one idea, the font of a cluster:
  `Cuts` are the places where a cluster of the text starts, `FontOf` is the first font that has all
  of the cluster at such a place, or the last one, and `Best` the width of each character in the
  font of its cluster. Neither loop computes it; each is shown to come to its sum.
  - `RangeMeasures` goes along `measureSegment`'s loop. In `Measures`, its invariant, what comes
    before the pending characters has the width of the cluster's font, the pending ones that of the
    font at hand, and `notdef_width` is the sum of these, so that the correction at
    `xtext.cpp:1007` takes out what it should. `FontsMeasure` is the induction over the fonts, the
    last one first, and `SegmentIsMeasured` and `TextIsMeasured` what it comes to. Parts passed to
    the fallback cut no cluster (`WholeRange`): a cluster that was cut there could get another font.
  - `RangeDraws` and `FontsDraw` do the same for `shapeSegment`'s look ahead, and `LineIsDrawn` for
    the segments of a line: glyphs drawn are as wide as `Best` summed over the line.
  - `HyphenatedIs` to `HyphenIsAdded` are about the hyphen that `shapeLine` puts in the place of a
    soft one: it changes no cluster and no segment, and makes the line wider by
    `getHyphenWidth`, which finds the hyphen in the font that will draw it.
  - `TextInv` is the inductive invariant of the object: `measure` leaves a `WellMeasured` text
    (`MeasuredWell`), lines start and end between clusters (`StartsAt`), and the width so far and
    the candidate's are those of what will be drawn (`DrawnSoFar`). TLC has checked it on the
    instance of the run.
  `FontsAssumption` says that a soft hyphen has no width in a font, as `xtext.cpp:1056` and `1176`
  rely on; `TextsAssumption` that newline, spaces, tab and hyphens are no marks and the hyphens
  belong to no script.
- `ObjectLinesHold`: as `measure` leaves a `WellMeasured` text, what is proved about lines, the end
  of a text and selections holds of an object that has measured its text itself, and not only of a
  text that is measured by assumption.
- What the properties leave aside is what the code does. A soft hyphen that does not fit ends the
  search, although a later space could fit when the hyphen is the wide part (`Over` in
  `LongestLine`). A soft hyphen at the end of a line that was not cut there, before a newline, a
  space or the end, is drawn as a hyphen but was not counted, and where no font has a hyphen a
  missing glyph is drawn that was not (`KeptHyphen`; the comment at `xtext.cpp:1398` presumes a
  cut). Marks after a tab are a cluster with it, in which a line may be cut (`LooseMarks`). A space that is a line of its own is drawn but not counted
  (`LoneSpace`). `getSegmentFromEnd` answers the first character with no width when nothing fits. A
  word selected from the text's first character can be lost, as the search starts at that
  character and not before it (`WordStart`, `xtext.cpp:2120`), although the segment is to include
  "the full words that may be cut" (`xtext.cpp:2078`). A selection whose word starts before the
  context, or with it, starts at the character before the context, which was not inspected
  (`xtext.cpp:2121`). `SelectsWholeWords` allows these two and nothing else. A selection that ends
  with a word goes on to the end of what follows, as the comment at `xtext.cpp:2115` admits. Unlike
  `XText_getText`, the binding does not ask that the end is after the start; the model does.
- Not modelled: bidirectional text, the ellipsis with its joiner, ligatures (clusters here are a
  character and its marks), hints on paragraph ends, `MAX_LINE_GLYPHS`, `MAX_LINE_CHARS`, decoding of UTF-8, the
  coverage tables of `harfbuzz_coverage.lua`.

### SDL3 pointers: `SDLInput`, `InputProofs`

`S.waitForEvent` of `ffi/SDL3.lua` turns mouse, touch and pen events into contacts in numbered
slots. An action is what a device does and what `waitForEvent` does with its event: SDL's queue
keeps their order and the function reads its own tables only. `pointers`, `finger_pointers`,
`pen_pointers`, `suppress_until`, `pen_button_state` and `pen_tool_state` are those tables; `held`,
`touching` and `pen` are the devices, `contact` and `tool_type` what the front end has been told.
Every pen event first releases the mouse's contacts and keeps the mouse away for 350 ms.
Some pens announce that they come near and go (`PenIn`, `PenOut`), others only touch; for those
`PenUp` ends their proximity (`EndsProximity`).

- Run `sdl_pointers`: two pens of either kind, near one at a time, each with two buttons and two ends, and with them a mouse of
  three buttons or three fingers; a clock of three ticks to the second and a suppression of two, over
  two turns of the second. The clock is a bound; deadlock is checked, as devices can always act.
- `ContactsFollow`: contacts are those of the devices that touch, each in its slot, and none stays
  behind. `MouseYieldsToPen`: the deadline in seconds and microseconds is the instant it stands for.
  `PenKeysFollow`: while a pen is near, the keys that are down are those of the tool its last event
  named (`pen[p].tool`, what the device said, not what the code's `pointer.tool` holds) and of the
  buttons it holds; when no pen is near, none is, with one exception the code has.
- **A key the code leaves down.** A pen that only touches and is lifted with a button held leaves
  that button's key down: `endImplicitPenProximity` (`SDL3.lua:384-390`) clears the tool keys only,
  while `SDL_EVENT_PEN_PROXIMITY_OUT` also clears the buttons (`syncPenButtons(0)`, line 602). The key
  goes with the next event of a pen. `PenKeysFollow` names the case: no button key stays but those
  of such a pen, and none where pens tell that they go.
- Assumptions, which the code makes silently: mouse buttons and fingers are not used at once (both
  start at slot 0), at most four fingers touch (the fifth would have the pen's slot 4), one pen is
  used at a time (its slot and keys are shared), the real-time clock does not step back (a mouse
  button released before it catches up would stay down), and fingers are lifted, not cancelled
  (`SDL_EVENT_FINGER_CANCELED` is not handled).
- Two habits are modelled as they are: the release of a middle button ends the left one's contact
  (`else -- SDL_BUTTON_LEFT`, `SDL3.lua:636`), and a pen that only touches leaves `tool_type` at its
  tool when it is lifted.
- Not modelled: coordinates and pressure, keys, gamepads, the window, the clipboard, textures.
- Proved, for any pens, up to four fingers, any desks, clock and suppression of at most a second:
  `ContactsAlwaysFollow`, `MouseAlwaysYieldsToPen`, `PenKeysAlwaysFollow`, from `PointersInv`. What
  the properties lack to be inductive: `FingersApart` (two fingers never have one slot, and a fifth slot
  is never looked for, which `FiveElements` counts), `DeadlineKept` (the two fields of the deadline are
  the instant `last_pen + Suppression`, which `Lexicographic` turns into the comparison of the code)
  and `PensFollow` (what the tables say of a pen is what SDL told of it, one pen at a time).
## 3. Findings

| run | where | what |
|---|---|---|
| `kotasync_cancel` | `ffi/downloader.lua:47` | a download whose last body ends early, or is cancelled, is published with holes |

More disagreements with a comment are part of the models without a run of their own, as their
sections say, and the properties state what the code does instead: disabling the RTC's alarm
interrupt (`rtc.lua:60`), terminating a child before its `setpgid` (`util.lua:484`), a full-width
fill of a viewport (`blitbuffer.lua:1728`, `blitbuffer.c:398`), a blit in one step between lines
narrower than their stride (`blitbuffer.lua:1233`), and the words at the edges of a selection
(`xtext.cpp:2078`).

## 4. Proved, checked, left out

Proved by TLAPS for all values of the constants: the theorems of `LRUCacheProofs`, `InputProofs`
(the event loop and the SDL pointers), `DriverProofs` (the RTC and the e-ink driver),
`UpdaterIPCProofs`, `SubProcessProofs`, `KotasyncUpdateProofs`, `ScreenProofs` and `TextProofs` (font
faces, lines, words, and measuring against drawing), as the sections above say. Each rests on the named ASSUMEs of its modules
and on nothing else. Type invariants are conjuncts of the inductive invariants and are seldom
repeated in the runs.

Every safety invariant and action property of the passing runs is stated by a theorem. Induction is
out of reach as a rule of the provers but not as a fact: a set of numbers, or of finite sets, that is
not empty has a smallest member, and a property that first fails at that one leads to a
contradiction there (`Induct`, `MinOfNats`, `SmallestSet`). That is how sums of bytes and of widths
are reasoned about, and, in `TextProofs`, loops and the walk of the fallback fonts, stated as
recursive functions whose existence is itself a lemma (`Recursion`).

Only model-checked, on the instances above: all liveness (`CallsReturn`, `FreeReturns`,
`TimerReported`, `EventuallyCollected`, `FontsReleased`), since ENABLED and fairness are beyond the
provers.

Not modelled, and why, is the `note` of each component in `PROJECT.json`. In one sentence each:
engines and codecs delegate to libraries; pixel arithmetic and bidirectional ordering are sequential
functions of data larger than a model checker enumerates; bindings, declarations, build and tests
keep no state. Known exposures that no property covers: a walk of `pairs()` over the LRU cache whose
body calls `get` or `delete` (`lru.lua:211`; the walk follows links that the body moves), and the
pipe ends that stay open when a later step of `runInSubProcess` fails (`util.lua:361`).

Every property of a passing run has a variant of the code (`X_...` or `..._Something`) that violates
it under the same configuration.

## 5. Plan

1. Refine `SDLInput` to an abstract multitouch protocol that the other platforms' input modules can
   be held to as well, and let mouse and fingers meet in it.
2. Model the MuPDF binding's shared context and the documents and pages that hold it, and the
   ownership of buffers in `pic.lua` and `blitbuffer.lua`, in the manner of `FontFaces`.
3. Add bidirectional segments and the ellipsis to `XText`, iteration (`pairs`) to `LRUCache`, and the
   sunxi and ion drivers to the refresh model as further devices.
4. An abstract specification of a remote call that `UpdaterIPC` implements while calls do not
   overlap, and one of an atomic file for `fetch_manifest`.
