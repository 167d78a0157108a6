# Verification of the DRIVEBOT firmware (ESP32-S3 camera robot)

The repository is the firmware of a small robot: an ESP32-S3 (two cores,
FreeRTOS) that opens a WiFi access point, streams MJPEG from an OV2640 camera
over HTTP, takes commands over UDP and BLE, plays a horn over I2S and can keep a
WebSocket to a server.  Its own code is `src/main` (about 2200 lines of C);
`src/managed_components` is vendored, and of it the camera driver and the
WebSocket client carry concurrency the firmware depends on.  `README.md`,
`tutorial/` and `Kconfig` of the repository belong to an unrelated ESP-IDF
example and are no reference for anything here.

This directory holds TLA+ modules of the firmware, TLC configurations and TLAPS
proofs.  `tlc -config X.cfg M` checks a run, `tlapm M.tla` a proof module.

## 1. Inventory

| Part | State | Operations | Talks to |
|---|---|---|---|
| Camera driver: `cam_hal.c`, `ll_cam.c`, `esp_camera.c` (vendored) | `frames[]` (`en`, `fb.len`), `event_queue`, `frame_buffer_queue`, `state`, DMA, locals `cnt`, `frame_pos` of `cam_task` | VSYNC and DMA interrupt handlers, `cam_task`, `cam_take`, `cam_give`, `esp_camera_init` | sensor (interrupts), caller of `esp_camera_fb_get` |
| The same driver's bring-up, with `sccb-ng.c` | `cam_obj` and its parts, `s_state`, the I2C bus and its table of devices | `esp_camera_init`, `esp_camera_deinit`, `SCCB_Init`, `SCCB_Probe`, `SCCB_Deinit` | I2C, GDMA and interrupt allocators |
| JPEG marker search in `cam_hal.c` | none (a pure function on a buffer) | `cam_verify_jpeg_soi`, `cam_verify_jpeg_eoi`, `eoi_probe_window` | `cam_task`, `cam_take` |
| `camera_ov2640.c` | `camera_active`, parameters | init, start, stop, capture, return, settings | driver |
| `camera_server.c` | its own `camera_started` | init with three warm-up frames | `camera_ov2640.c` |
| HTTP server, `main.c` 40-113 | `http_server`, main.c's `camera_started` | `/start`, `/stream` | `camera_server.c`, clients |
| UDP command task, `main.c` 115-190 | socket, mailbox of lwIP | receive, dispatch | horn, BLE |
| Horn, `audio_transport.c` | `tx_chan`, `tx_enabled`, `i2s_is_initialized` | init, enable, play | UDP task |
| BLE, `ble_manager.c` | `is_connected`, `conn_handle` | GAP events, characteristic access, `send_command` | host task, UDP task |
| WiFi, `wifi_manager.c` | `connected_clients`, `client_connected` | start AP, association events | event loop |
| WebSocket link: `server_manager.c`, `websocket_client.c`, vendored client | `is_started`, `monitor_task_handle`, client pointer, `is_connected`, client task | start, stop, monitor, connect, disconnect, send, events | event task, mode |
| Mode, `mode_switch.c` | `current_mode`, NVS | init, get, set | WebSocket link |
| Drive and lights: `command_handler.c`, `led_controller.c` | GPIO outputs | parse, execute, blink | UDP/BLE callers |
| `wifi_stream.c` | socket, `frame_seq` | start, fragment and send | UDP broadcasts (no caller yet) |
| `app_main` | start order | initialises everything | all |

What is hard in it:

* **Interleaving without locks.** Frame buffers, the driver's state and the
  "camera started" flags are plain variables shared by interrupt handlers, a
  driver task, the HTTP task and `app_main` on two cores.  The WebSocket client
  pointer is shared by a monitor task, its callers and the client's own task.
* **Limits.** One frame buffer (`fb_count = 1`), a bounded event queue whose
  overflow rewrites another task's state, a frame queue that drops the oldest
  entry, a UDP mailbox of six datagrams, 8-bit fragment numbers.
* **Partial failure.** Most results are ignored: of `camera_server_init`,
  `audio_i2s_init`, NVS writes, `ble_gap_adv_start`.
* **Clean-up.** A bring-up of the camera makes about twenty calls that can fail,
  and `cam_init`, `ll_cam_dma_init`, `cam_config`, `esp_camera_init` and
  `SCCB_Deinit` share the clean-up.
* **Restarts.** The mode is kept in NVS; the power may go at any time.
* **Timeouts and retries.** `cam_take` (4 s, with frames thrown back under the
  same deadline), the stream loop, the monitor's 5 s poll, reconnects.

`PROJECT.json` lists each hazard at its line with the properties that cover it.

Correctness per part: the driver never writes to or loses a buffer somebody else
has; a failed bring-up leaves nothing behind; the marker search finds what a plain
search would; the video path returns every frame, initialises the camera once and
gives the server task back; the UDP task comes back from every command and the
horn restores the speaker; BLE stays reachable; the link has at most one client
and none after stop, as long as its two tasks keep out of each other's way, and
follows the mode; a mode survives a reboot; the drive
executes commands whole and never keeps both directions on; the counters count.

## 2. Plan

The order the modules were built in, the most important behaviour first.

1. `FrameOwner`, `FramePool`, `VideoStream`: the shared frame buffers and the
   HTTP path, with proofs.
2. `ModeSwitch`, `ServerLink` against `ClientLife`: the link to the server with
   reboots, with proofs.
3. `JpegScan`: a pure algorithm against its reference, with proofs.
4. `WifiAp`, `BleLink`, `UdpControl`: the control tasks, composed, with proofs.
5. `CameraBringUp`: partial failure and retry of the camera, with proofs.
6. `Drive`, `LedController`: the commands against an abstract drive, with proofs.
7. `WifiStream`: frames in datagrams, with proofs.

What is left, and why, is section 8.

## 3. Modules

| Module | Content |
|---|---|
| `FrameOwner` | abstract: each buffer has one owner (driver, queue, app); DMA writes only to a buffer of the driver |
| `FramePool` | the camera driver |
| `VideoStream` | EXTENDS `FramePool`: `app_main`'s tail, HTTP task and handlers, camera start and capture |
| `MCFramePool`, `MCVideoStream` | instances for TLC |
| `MCServerLink` | `ServerLink` for TLC: after a race only a reboot is explored |
| `MCSequential` | `CameraBringUp`, `JpegScan`, `WifiStream` and `LedController`, each executed by one task, in one run: they share no variable, and each behaviour is one of one of them |
| `ClientLife` | abstract: one client at a time, created, started, asked to end, ended, freed, in this order |
| `ModeSwitch` | `mode_switch.c` and power cycles |
| `ServerLink` | EXTENDS `ModeSwitch`: `server_manager.c`, `websocket_client.c`, the library's client and its task |
| `JpegScan` | marker search of `cam_hal.c` |
| `WifiAp` | station counters of `wifi_manager.c` |
| `BleLink` | GAP events, advertising and `is_connected` of `ble_manager.c` |
| `UdpControl` | EXTENDS `WifiAp`, `BleLink`: UDP task of `main.c`, horn of `audio_transport.c`, sending over BLE |
| `CameraBringUp` | `esp_camera_init` and its clean-up |
| `Drive` | abstract: a command changes the outputs at once |
| `LedController` | `led_controller.c` and `command_handler.c`, output by output |
| `WifiStream` | `wifi_stream.c`: fragments with wrapping header fields on a lossy network |
| `FramePoolProofs`, `VideoStreamProofs`, `JpegScanProofs`, `UdpControlProofs`, `CameraBringUpProofs`, `LedControllerProofs`, `ServerLinkProofs`, `WifiStreamProofs` | TLAPS proofs |

Modules without an `MC` module take all their constants from the `.cfg`.

### FramePool

The mode is the one `sdkconfig` and `camera_ov2640.c` select: JPEG, PSRAM DMA,
`CAMERA_GRAB_LATEST`, ESP32-S3.

* `en`, `len`, `fbq`, `ev`, `camState`, `framePos`, `cnt` are the code's
  variables.  `len` and `cnt` count half buffers: `fb.len` is `cnt` times the
  half buffer size (cam_hal.c:393).  `held` is the set of buffers
  `esp_camera_fb_get` returned; `dma` says whether DMA is running (`ll_cam_start`
  to `ll_cam_stop`); what it writes is not modelled.
* `cam_task` is cut (`camPc`) wherever another core can see or change something
  in between: taking an event, starting DMA, setting the state, sending, popping,
  re-sending, giving back, restarting, clearing the length.  The state is read
  together with the step that acts on it; the only other writer of it sets
  `idle`, and none of these steps reads it twice.
* Interrupt handlers run on another core, one at a time (`irq`): entry, the send,
  and on a full queue the stop of the DMA and the write of `CAM_STATE_IDLE` are
  separate steps.  An end-of-buffer event may therefore reach the queue after
  `cam_task` has stopped the DMA, and the state may be forced to IDLE with a new
  DMA running.
* `NextFrame` is `cam_get_next_frame`: the current buffer if it is free, else the
  lowest free one.
* `Faults` names what hardware and network may do wrong in an instance:
  `overflow`, `oversize` (more data than the buffer holds), `badStart` (no JPEG
  start marker in the first half buffer), `noEoi`, `noSoi`, `timeout`,
  `initFail`, `stall`.  Without `oversize`, the guard of `DmaIsr` keeps the half
  buffers counted or on their way below `frame_copy_cnt`.
* The NULL entries `cam_take` guards against (cam_hal.c:713) are never sent by
  this driver and are left out.

### VideoStream

* `hpc` is the HTTP server's single task.  `Serve` is a handler up to its test of
  main.c's `camera_started` (`mainStarted`), `ServerInit` the test of
  camera_server.c's (`srvStarted`), `DriverOk`/`DriverFail` is
  `camera_init_with_params` with `camera_start`, `Mark` the assignment of
  main.c's flag, whatever the result.  `warm` is the warm-up loop's counter.
* The three chunks of a frame (main.c:81-83) are one step, `SendOk` or
  `SendFail`: they differ in nothing but bytes.  A send may succeed after the
  client left (the TCP stack buffers), and may fail with a client that is there
  only under the fault `stall`.
* `boot` is `app_main`: it starts the server, then clears `camera_started`
  (main.c:214).  The server may already have served a request by then.
* Left out: OPTIONS (only GET handlers are registered), `lru_purge_enable`, and
  the inner re-checks of length and start marker in `stream_handler`, which
  repeat those of `camera_capture`.

### ModeSwitch and ServerLink

* `mode` is `current_mode`, `saved` the key in NVS; `mode_switch_set` is cut at
  RAM write, `nvs_open` and `nvs_set_i8` with commit.  `PowerCycle` is a loss of
  power followed by `mode_switch_init`.  `ModeFaults` `nvs`: any NVS call may
  fail, at boot too.
* Two tasks run the wrapper's code, `app` (start, stop, send, mode) and `mon`
  (the monitor); `pc` says where each is, `arg` which client it passed to the
  library, `job` what the running connect or disconnect is for.  `ws` is
  `websocket_client`, `flag` is `is_connected`.  Nothing in the firmware calls
  the manager yet: `app` stands for its future caller, one task.
* A client `c` has its memory (`mem`), `state`, `run`, the bits `stopped` and
  `sent`, and its own task at `wpc[c]`.  Events are handled in the task that
  posts them: a failed send runs the handler in the sender.  Handing out freed
  memory again (`Reclaim`) waits until nobody refers to it, so that a use after
  free stays visible.
* `ClientLife` is the promise of the wrapper: its `client` is `ws`, its `up` is
  `flag`, and how far a client is, is `Life(c)`: "made" until its task is created,
  "running", "asked" once the task cannot but leave its loop, "ended" until the memory
  is freed.  Until both tasks are inside the wrapper, every step of the two tasks, of the
  client's task and of the library maps to one step of `ClientLife` or a stutter.
* `Calls` says what `app` calls of the manager, `Env` what the surroundings do:
  `close` (the server closes properly), `memory` (init, registration or start
  fails).  Start is called in every mode: the mode persists, so it may be
  AUTO_SERVER at boot.  Modes are changed by `app` (`LinkAssumption`).
* A client's task still touches the client after it has set STOPPED_BIT
  (esp_websocket_client.c:1377-1381); `NoUseAfterFree` excepts those lines.

**No timing is assumed.**  Neither server_manager.c nor websocket_client.c has a
lock, and durations order nothing: the monitor sleeps 5 s
(server_manager.c:56) while one connect may take the network timeout of 10 s.  So
the monitor's delay may end, and `app` may start, stop or send, while anything else
is under way, and the bits of a new client are cleared when its starter gets to it
(esp_websocket_client.c:1408).  Under these steps the plain promises fail
(findings `link_leak`, `link_send`, `link_stop`).  What can be said for every order is
*where* they fail.  The history variable `races` remembers which of four races has
happened since the last boot; no step reads it:

| Race | Both sides |
|---|---|
| `wrapper` | `app` and the monitor are both inside connect, disconnect, send or the end of stop, past their first test (`Inside`) |
| `early` | a client's task is asked to stop before its first line, which sets `run` again (esp_websocket_client.c:1084-1087): the request is lost |
| `late` | a client's task has ended before its starter clears STOPPED_BIT (line 1408): nobody sets it again |
| `handle` | the monitor has cleared its handle between the test and the `vTaskDelete` of stop (server_manager.c:118-119), which then deletes its caller |

The properties of the link promise what the code does promise: whatever the timing,
a freed client in use, a lost one, a wrong flag or something left after stop is
preceded by the race `wrapper`, and a caller that waits in vain by one of the four.
The bound of `MCServerLink`, that after a race only a reboot is explored, cuts off
states in which those properties that speak of all four races promise nothing; that
the others hold beyond `early`, `late` and `handle` too is proved.

### JpegScan

One step per position looked at: `SoiStep` forward by bytes, `WordStep` computes
the candidates of four bytes with the borrow of `x - 0x01010101` byte by byte
modulo 256 (`X`, `Borrow`, `Candidate`), `MaskStep` handles one candidate,
`TailStep` the last bytes, `BackwardStep` the search from the end.  `FirstPos` is
where the search starts, which for the end marker in PSRAM mode is the window of
`eoi_probe_window`.  `frame` is any sequence of up to `MaxLen` bytes.

### WifiAp, BleLink, UdpControl

* `stations` are associated, `wifiEvents` are on their way to the handler.
* `hci` holds controller events the host has not seen; `conn` is the host's entry
  for the connection; the listener runs at `hostPc`.  `BleFaults`: `reset` (the
  host loses sync, drops events and reports a lost connection), `adv`
  (`ble_gap_adv_start` fails).  The firmware passes no callback to
  `ble_manager_init`, so what a central writes is ignored.
* `pc` is the UDP task: receive, dispatch, horn, send over BLE, pause.  Datagrams
  are of four kinds: horn, only logged (movement, lights and radio are), for BLE,
  and empty.  `channel` is what the I2S driver knows of `tx_chan`, `txEnabled` is
  `tx_enabled`; each I2S call fails at will if `I2sFaults` names it.

### CameraBringUp

`pc` is the next call of `esp_camera_init`; `held` what is allocated, `bufs` and
`descs` the frames that have a buffer and descriptors, `slots` the table of SCCB
devices with whether each handle is live, `vsync` the interrupt enable.  Each call
may fail while `faults` is positive.  `CleanCam` is the clean-up inside
`ll_cam_dma_init` and `cam_config`, `Fail` and `SccbDeinit` that of
`esp_camera_init`.  `LateFaults` names failures the code does not look at:
`remove` (a device is not removed) and `task` (`xTaskCreate` of `cam_task`).  Two
camera models have this sensor's address, so up to two devices are entered.
`Call` may follow a failure: the caller tries again.  The firmware's own flag
mostly keeps it from doing so (finding `video_forced`); a request served before
app_main clears the flag makes it happen.

### LedController and Drive

`out` holds the outputs at level 1, `states` the true state variables.  A call
puts its steps in `script`; `Begin` starts one, `Write` is one `gpio_set_level`,
in the order of the code.  `Drive` is the abstract drive: a command changes motion
and extras at once.  The mapping takes the outputs as they will be when the
running step has written everything (`Settled`).  Only `led_controller_init` is
called by the firmware today; the parsers of `command_handler.c` have no caller.

### WifiStream

`call` holds the locals of `wifi_stream_send_frame`; one action is one round of its
loop, one `sendto`.  `air` is the set of datagrams that can still arrive; each carries,
besides its header, what the header does not tell: how many frames ago it was sent
(`age`), its offset and the true length.  Loss, duplication, reordering and a failing
`sendto` need no actions of their own: what a receiver has is some subset of `air`, and
the properties speak of every subset.  Assumed: frames need less than 256 fragments
(255 KB; beyond it the 8-bit count wraps and no receiver could tell), datagrams are less
than 65536 frames late, and there is one sender, because `frame_seq` has no lock.  From
64 KB on the length field holds the length modulo 65536 only.  A repeated
`wifi_stream_start` forgets the old socket without closing it, and a failing one leaves
`active` set, but sends then return ESP_FAIL.

## 4. Runs

| Run | Instance | Shows |
|---|---|---|
| `frame_pool` | 3 buffers, event queue 2, 3 half buffers per frame, overflow, oversize, badStart; 904808 states | DMA is exclusive, buffers are neither lost nor in two places, lengths fit, held frames are stable, `FrameOwner` is implemented |
| `video_safety` | 2 clients (symmetric), 1 buffer, event queue 1, 2 half buffers, all faults; 569908 states | no frame leaks, flags agree, the driver is used as it may be |
| `video_live` | 1 client, 1 buffer, event queue 2, noSoi, noEoi, timeout, stall; 36518 states | the loop has a camera, streams move, a client that leaves frees the server |
| `video_forced` | 1 client, initFail | **violated**: see findings |
| `link` | 1 caller that starts, stops, sends and changes the mode at any time, modes MANUAL and AUTO_SERVER, 2 clients, close and memory; 100237 states | before the first race: one client, none after stop, none used after free, stops answered, flag right, `ClientLife` is implemented, calls return; the link follows the mode, the mode survives reboots |
| `link_leak` | the same, only start | **violated**: see findings |
| `link_closed` | the same, only start, with close | **violated**: see findings |
| `link_send` | the same, start and send | **violated**: see findings |
| `link_stop` | the same, start and stop | **violated**: see findings |
| `mode_lost` | 3 modes, NVS faults | **violated**: see findings |
| `sequential` | bring-up: 3 frames, 5 failing calls, unremovable devices; scans: up to 8 bytes from {D8, D9, FE, FF}, block of 7; datagrams: payload 2, 4 indices, 4 sequence numbers, 3 frames of delay; drive: 1 caller, patterns of up to 2 rounds; 1871911 states | nothing leaks, nothing is overwritten, a retry succeeds; results equal the reference, the last block is covered; headers identify fragments, a collected frame is a frame; commands are whole, one direction, states agree |
| `control` | 2 stations, 2 events, mailbox of 2, 2 repeats, BLE resets, every I2S failure; 431470 states | horn, speaker, BLE and counters right; mailbox drains |

Why these bounds are enough.  With three buffers and `GRAB_LATEST` the queue has
two places: one buffer can be in DMA, one queued and one held, the queue can be
full with the application holding nothing, and `cam_task` may find a free buffer
other than the current one; with two buffers the last case is rare and with one
impossible.  `EvQLen` 2 gives queues that are empty, partly filled and full, so
an overflow meets every place of `cam_task`; the real queue has about 90 places.
`CopyCnt` 3 lets the count reach the limit with and without stale events.
`video_safety` uses the firmware's own `fb_count = 1`; two clients are what it
takes for one to wait or leave while the other is served.  All safety properties
are also proved for every value of the constants, so a bound hides nothing there.
`video_live` uses one client: leads-to properties are about one stream, and the
server task serves nobody else during it.  Its instance has no `initFail`, for
which both properties about a running camera say nothing, and no `overflow`.

`link` needs two clients for one to exist while another is created or freed; a
third would only be a second leak.  Scans: eight bytes have two whole words
and, for the lengths below, every tail; of the byte values only the marker's bytes, FE
(whose difference is 1, the false candidate after a borrow) and D8 matter; the block of
7 puts the window's start before, at and after the frame's.  The datagrams keep the
order of the real widths: the length field wraps first (after 2 fragments), then the
index (4); the sequence number wraps with four frames in the air at once, the most that
four numbers can tell apart.  `control` uses a mailbox of two for six: empty, between
and full is what the task can tell apart.  Bring-up: five failures are more than one
attempt and its clean-up can use, so several failed attempts in a row are covered.
The drive has one caller, as every board command has today; with two, two commands'
writes would interleave and its three properties fail.

The type invariants `PoolTypeOK`, `TypeOK`, `ScanTypeOK`, `LinkTypeOK`, `StreamTypeOK`,
`ControlTypeOK`, `BringUpTypeOK` and `DriveTypeOK` are proved and not repeated in the
runs; neither are `ReadsInside` and `ScanEnds`, which hold in the instance of
the scans too.

`CHECK_DEADLOCK FALSE` in the link runs: `vTaskDelete(NULL)` ends `app` after the race
`handle`, and there may be nothing left to do then.  In the video runs: `httpd_start` may fail
(its result is ignored), and then there is no server and the system stops.

### Fairness

`FairSpec` assumes weak fairness of `app_main`'s two steps, of the handler as a
whole, of `cam_task`, of the interrupt handlers, and of the sensor's VSYNC:
FreeRTOS runs every ready task, `cam_task` runs at the second highest priority,
and every round of the handlers' loops sleeps.  Two strong assumptions are about
the world: a camera that keeps sending pictures is captured with an intact one
again and again (`CaptureFrame("got")`), and a send to a client that has left
fails in the end (`SendFail`: TCP resets or the send times out).  Weak fairness
is not enough for them because each round of the loop passes through other steps.
Nothing is assumed about clients or about how often app_main's window is hit.

`link`: weak fairness of the steps of `app` within a call, of the monitor, its delay
included, and of the clients' tasks with the answer to a connect: they are ready tasks
of equal priority, and calls of the library return.  Strong fairness where a step is
possible only now and then and other tasks can take the chance away: a send gets the
client's lock, memory is found for `ClientInit` and `ClientStart`, a client's task gets
from its first lines to its connect and the server answers before the monitor takes
the client down again (`TaskInit`, `BeginConnect`, `Connected`); a server that never
answers is a server that is not there.  Nothing is assumed of callers, of the network
breaking, of closes or of reboots.
`control`: weak fairness of boot, UDP task and NimBLE host; I2S calls return
whatever they return.  `sequential`: for the bring-up every call returns, and its caller
goes on calling; the bound on failures says that they stop.  Its other parts check no
liveness.

## 5. Properties

`FramePool`

* `DmaExclusive`: DMA never runs on a buffer that is queued or held.
* `NoFrameLost`, `OnePlace`: each buffer is in exactly one place.
* `LenFits`: the published length fits, stale events included.
* `HeldFrameStable`: no step changes the length of a frame the application holds.
* `FrameOwnerSpec`: refinement of `FrameOwner`; a buffer is `app` if held,
  `queue` if queued, else `driver`, and `writing` is the current buffer while DMA
  runs.

`VideoStream`

* `NoFrameLeak`: the handler holds exactly the frame in its variable, and none
  outside of its loop.
* `FlagsAgree`, `LoopHasCamera`: the three flags.  The second says that app_main's
  late `camera_started = false` is harmless, thanks to camera_server.c's guard.
* `DriverContract`: every step is one `FramePool` allows; in particular
  `esp_camera_init` runs once and only handed-out frames are returned.
* `GoneClientFreesServer`, `StreamMoves`: liveness.
* `ForcedStart`: what the log line of `/start` says; violated.

`ModeSwitch`, `ServerLink`

* `ModeRemembered`: between calls, the mode in force is the one a reboot restores.
* `UseAfterFreeNeedsRace`: nobody follows a pointer to a freed client before the race
  `wrapper` (`NoUseAfterFree`).
* `LeakNeedsRace`: every client that exists can be destroyed (`NoClientLost`), likewise.
* `StaleFlagNeedsRace`: `is_connected` is right whenever no event is in delivery
  (`FlagFollowsEvents`), likewise; also after an early stop or late bits.
* `LeftoverNeedsRace`: after stop there is no monitor, no client, no client's task
  (`StopLeavesNothing`), likewise, wherever outside the wrapper the stop finds the
  monitor.
* `UnheardNeedsRace`: who waits in `esp_websocket_client_stop` waits for a task that has
  ended or that has begun and will find `run` cleared (`StopAnswered`), before any race.
* `LifeUntilRace`: refinement of `ClientLife` until the race `wrapper`.
* `ComesOnline`: in AUTO_SERVER mode the robot is online again and again, except
  after a proper close (finding `link_closed`).
* `GoesOffline`: out of that mode the link goes down for good.  It needs that
  connections do not break for ever: the monitor disconnects only when it happens
  to find the link up, and between break and reconnect it does not.
* `CallsReturn`: no call waits for ever for the client's task or deletes its caller.
  These three are about behaviours whose races end with a reboot (`NoMoreRaces`).
* `NoClientLost`, `StopLeavesNothing`, `SendKeepsClient` (a client is not destroyed
  while a send works on it): violated when races are allowed.
* `FlagIsStatus`: violated.

`JpegScan`

* `ScanCorrect`: the result is the first (start marker, end marker forward) or last
  (backward) position of the marker, or none.
* `LastBlockCovered`: the window contains every end marker that touches the last
  block.
* `ReadsInside`, `ScanEnds` (proved): no byte outside the frame is read, every step
  brings the end nearer.

`UdpControl`

* `HornSafe`: the flag tells the channel's state, writes go to a running channel,
  the buffer is freed on every way out.
* `SpeakerRestored`: a horn leaves the speaker as it found it.
* `MailboxDrains`: a full mailbox does not stay full.
* `FlagFollowsLink`, `Reachable`, `StaysReachable`: BLE.
* `CountsStations`: the events on their way bring the counter to the number of stations
  and never out of 0..MaxStations, so the handler's test for zero
  (wifi_manager.c:32) never hides a miscount; the flag says whether it is zero.

`CameraBringUp`

* `NothingLeft`, `NoHandleLost`, `UpIsComplete`, and `ComesUp` (checked as
  `BringUpComesUp`): after failures stop a retry succeeds, unless a device was removed
  and the next was not.

`LedController`

* `Implements`: refinement of `Drive`.  `OneDirection`, `StatesAgree`: between calls.

`WifiStream`

* `HeadersIdentify`: of the datagrams that can still arrive, no two share sequence
  number and index.
* `Reassembles`: fragments that carry all indices the count announces, under one
  sequence number, are one whole frame; the mark of the last one is right, and the
  length in the header is the frame's, modulo its width.

## 6. Findings

`video_forced`: `start_handler` and `stream_handler` ignore the result of
`camera_server_init` and set `camera_started` (main.c:50-51, 66-67).  After one
failed `esp_camera_init`, `/start` answers "OK" for ever without trying again,
although it logs a forced start of the camera (main.c:48), and `/stream` enters
its endless loop with no camera.  There nothing is sent, so the end of the
connection is never noticed, and the only server task is gone until a reset; this
is why `GoneClientFreesServer` speaks of a running camera.

`link_leak`: `server_manager_start` in AUTO_SERVER mode creates the monitor and
then connects itself (server_manager.c:95-103).  The monitor connects at once,
since the link is still down.  Both find no client, both create one, and
`websocket_client` keeps the second.  The first can never be destroyed, as
`esp_websocket_client.h:156` demands; its task stays connected and goes on setting
`is_connected`.

`link_stop`: `server_manager_stop` disconnects first and deletes the monitor afterwards
(server_manager.c:114-120).  A monitor that has passed its test of `is_started`
connects in between, or is stopped in the middle of a connect: a client is left that
goes on connecting to the server with nobody to watch it.

`link_send`: `websocket_client_send_text` tests `is_connected` and the pointer, then
passes the pointer to the library (websocket_client.c:149-155), where it waits for the
client's lock.  The monitor destroys the client meanwhile: out of AUTO_SERVER mode
because the link is up, in it because it found the link down a moment before.

`link_closed`: a CLOSE from the server ends in the events CLOSED and FINISH and the
end of the client's task.  The wrapper's handler knows only DISCONNECTED
(websocket_client.c:31-68), so `is_connected` ("connection status", line 15) stays
true, and the monitor never connects again.

`mode_lost`: the mode "to remember after a reboot" (mode_switch.c:18) changes in RAM
first, NVS errors are dropped, and ESP_OK is returned.  A second call with the same
mode returns early and does not save either.

Disagreements that need no run: the horn's comments promise about 400 Hz (period 40)
and six seconds (audio_transport.c:125, 135); the index runs over both channels, so
the tone is 800 Hz, and 100 buffers of 512 frames at 16 kHz are 3.2 s.
`wifi_manager.h:12` and the log (wifi_manager.c:87) say one client, the
configuration four (line 67).  "Speaker off" is logged after a failed disable too
(audio_transport.c:151-152), and from then on `was_enabled` is true for every horn
and the speaker is never switched off.  `esp_camera.h` promises
ESP_ERR_INVALID_STATE from `esp_camera_deinit` without a driver; it returns
ESP_FAIL.  The drive's outputs share pins with the camera: LEFT and RIGHT with SCCB
(4, 5), HORN, LIGHTS and RADIO with D7, D6 and D5 (16, 17, 18); these outputs are
dead after the camera's first bring-up, even a failed one, because
`esp_camera_deinit` does not give pins back.

Not a finding, but worth knowing: with one buffer DMA stops when a frame has been
queued, so the first frame of a new stream is the one left from the end of the
last one, however old.  `CAMERA_GRAB_LATEST` has no effect for `fb_count = 1`.

## 7. Proofs

`FramePoolProofs` and `VideoStreamProofs` assume `FramePoolAssumption` (positive sizes,
faults from the list) and `VideoStreamAssumption` (`NoClient` is no client) and nothing
else: the number of buffers, queue capacity, buffer size, clients and faults are
arbitrary.

`FramePoolProofs`.  None of the four invariants is inductive alone.  `PoolInv`
adds: what holds before `esp_camera_init` (`DownInv`); while `cam_task` reads, or
is about to, the current buffer is marked free (`ReadInv`), which is what makes
the write of `en` at VSYNC meet `DmaExclusive`; the buffer being published and
the one popped to make room are nowhere else (`PublishInv`, `PoppedInv`); the
count stays below the buffer wherever it can still grow (`CntInv`).  One lemma
per action proves that `PoolInv` is kept; `QueueTail` and `QueueAppend` say what
the two queue operations do to membership and distinctness.  From it follow
`PoolTyped`, `PoolDmaExclusive`, `PoolNoFrameLost`, `PoolLenFits`,
`PoolHeldFrameStable`, and, mapping each action to a step or a stutter,
`PoolRefinesFrameOwner`.

`VideoStreamProofs`.  `VideoInv` says which places of the handler hold a frame
(`FbInv`), how driver, flags and warm-up are ordered (`InitInv`) and that a
running handler serves somebody (`CurInv`).  `PoolStep` proves that under
`PoolInv` and `VideoInv` each step of the firmware is a step of the driver or
leaves it alone, so the driver's induction is reused and not repeated.  Hence
`VideoInvariant`, `VideoDriverContract`, `VideoNoFrameLeak`, `VideoFlagsAgree`,
`VideoTyped`; with the driver's theorems `VideoDmaExclusive` and
`VideoRefinesFrameOwner`; and with `LoopInv` the theorem `VideoLoopHasCamera`.

`JpegScanProofs`.  For any length, bytes and block size.  The invariant says
that no marker lies before the position reached (after it, going backward), that
the mask contains every byte of the word that is still to be tried and could be a
marker, and that positions stay inside the buffer.  The crux is one lemma on the
word trick: a byte equal to FF is always a candidate, borrow or not; false
candidates are harmless because each is compared.  The same invariant gives
`ScanReadsInside`: the window, cut or not, starts inside the frame, a word is read only
if four bytes are left, and a candidate in the last byte only if one follows.
`ScanTerminates` is a termination proof by the measure `Left`, in which a word counts
twice its bytes and so pays for its at most four candidates.  (That the scan goes on to
step at all is fairness, and not needed: one C function runs it.)

`UdpControlProofs`.  Assumed: `ControlAssumption`, `BleAssumption`,
`WifiAssumption`.  `FlagFollowsLink`, `Reachable` and `HornSafe` are part of the
invariant as they stand.  `ListenerInv` says that while the listener of a connect runs
the host has an entry for the link, and none while that of a disconnect runs;
`HornPlaceInv` that no channel exists before the boot ends, that the horn enables the
channel only when it found the speaker off, and that it writes only while repeats are
left.  `ControlCountsStations` rests on lemmas about `Occurrences`, the cardinality of a
set of indices: what appending an event and taking the first do to it.  Its invariant is
the property itself with the types: since a way to the present count never leaves
0..MaxStations, the handler's guard and its decrement agree with the stations.

`CameraBringUpProofs`.  Assumed: `BringUpAssumption`.  The invariant lists for each
place what is held (`HeldInv`, by the set `Got` of parts acquired before it), that the
frames get buffer and descriptors one after another (`FrameInv`), and what the table of
devices may hold (`SlotInv`: only after an unremovable device is it not empty at the
start).

`LedControllerProofs`.  Assumed: `DriveAssumption` and, in each theorem,
`Tasks = {t}`.  Over the steps still in the script, `PairInv` says that each step of a
pattern that drives opposite directions is followed by the one that ends it,
`MotionInv` that what the step in force leaves on is one direction at most, `StateInv`
that the flags of the extra functions agree with what it leaves on; the refinement maps
`Begin` to the abstract command and `Write` to a stutter.

`ServerLinkProofs`.  Assumed: `LinkAssumption`, `ModeAssumption` (`NULL` is no client,
`app` alone changes modes) and nothing of timing: every order of steps, every subset of
calls, closes, failing init or start and failing NVS calls are allowed, and the number of
clients is arbitrary.  The heart is `CodeKeeps`: a step of the code that does not lead
both tasks into the wrapper (`OneInside`) keeps `LinkInv`.  `PlaceInv` says where each task
can be and that the handle tells whether there is a monitor, `StopInv` how far
`server_manager_stop` is, `WrapperInv` what the task inside knows of the client at each
place (where it is alive, where its task has stopped, where `arg` is still
`websocket_client`), `HandleInv` that the pointer points to the only client alive, and
`ClientInv` what holds at each place of the client's task: STOPPED_BIT of a running client
is set only while its starter has not cleared it yet.  `WrapperRaceInv` is `LinkInv` or the
race `wrapper`; it is inductive because `races` sees every state, and it gives
`LinkInvariant` and from it `LinkUseAfterFreeNeedsRace`, `LinkLeakNeedsRace`,
`LinkStaleFlagNeedsRace` and `LinkLeftoverNeedsRace`.  Nothing is assumed of `early`,
`late` and `handle` here: a task that waits for ever or is deleted does no other harm.

`LinkUnheardNeedsRace` adds `HeardInv`, which holds before any race: a task that has ended
has said so, and one that was asked to end will.  The runs
`link_leak`, `link_stop` and `link_send` show that the race `wrapper` cannot be left out.

`LinkLifeUntilRace` takes `LinkInv`.  `CodeIsLife` maps the actions that matter one by one
(init is `Create`, creating the task `Begin`, the stop and the server's farewell `Ask`, the
end of the task `End`, the library's destroy `Free`, the assignment of NULL `Forget`, the
events `ReportUp` and `ReportDown`), and the rest is a stutter.

`LinkModeRemembered` assumes a working NVS besides: `SaveInv` follows `mode_switch_set`
from RAM to the commit and needs nothing of the link.  The run `mode_lost` shows that a
failing NVS cannot be let in.

`WifiStreamProofs`.  Assumed: `StreamAssumption` (positive widths, frames of less than
`IndexMod` fragments, a delay of less than `SeqMod` frames), and nothing about what the
widths are.  The invariant says that all fields of a datagram follow from its age, its
index and its frame's length (`DatagramInv`), that one age is one frame (`AgeInv`), and
that the running call's offset follows from its index (`CallInv`), which is where the
bound on lengths keeps the index from wrapping.  Since ages are fewer than sequence
numbers, the number tells the age (`SameSeqSameFrame`).  `StreamReassembles` adds
arithmetic on quotients for any payload: `FragmentCount` says that the last fragment
begins inside the frame and ends with it, and `DatagramPlace` that offset and size of a
datagram follow from its index, so all indices below the count cover the frame without
gap or overlap.

Model-checked only: liveness under fairness, which this prover does not do:
`GoneClientFreesServer`, `StreamMoves`, `ComesOnline`, `GoesOffline`, `CallsReturn`,
`MailboxDrains`, `StaysReachable`, `BringUpComesUp`.  The violated properties of section 6 are
refuted by their runs.

## 8. Not modelled

* `wifi_stream_init` (a constant destination) and the statistics of `wifi_stream.c`,
  of which most are never written.
* `camera_set_quality` and its siblings, `camera_stop`, `cam_give_all`,
  `websocket_client_deinit`: no caller, no interaction.
* BLE characteristic access: the command callback is NULL in this firmware.
* Failing creation of the monitor task and of the UDP socket, failing deletion of
  the I2C bus, the LEDC clock of the sensor: results the code ignores, with no
  other state than "it does not work".
* Vendored libraries the firmware does not call (littlefs, cJSON, esp_jpeg, the
  drivers of other sensors) or only for data (register tables).  They are the bulk
  of the tree's C code; what is modelled is the firmware's own `src/main` nearly
  complete, and of the vendored code the parts with state the firmware depends on.
* GPIO and sensor registers, the contents of pictures, log output, the build tree.
