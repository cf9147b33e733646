# filmkit-daemon in TLA+

filmkit-daemon is a Go daemon on a router. It serves a REST API and drives one
Fujifilm camera over PTP/USB: open a session, upload a RAW file (RAF), let the
camera convert it, hand the JPEG back; scan and write the camera's presets; list
the files on its cards. These modules model all of this, TLC checks them on small
instances, and TLAPS proves every safety property of the passing runs for every value
of the constants. All paths below are relative to `src/`.

## The system

| Component | State | Operations | Talks to |
|---|---|---|---|
| HTTP handlers (`internal/api/server.go`) | one mutex, the RAF cache file | one goroutine per request | Camera, under the mutex; the cache file partly outside it |
| PTP session (`internal/ptp/session.go`) | `Camera`: sessionOpen, SupportedProperties, BaseProfile, RAFLoaded | Connect, Disconnect, LoadRAFStream, Reconvert, presets, listing | Transport |
| USB transport (`internal/ptp/transport.go`, `container.go`) | device, interface, endpoints, transaction ID | Connect, Close, Reset, SendCommand, SendDataCommand, SendDataCommandFromReader | the camera |
| Listing (`session.go`) | handles marked as seen, files found, the recursion; for one call | ListRAFFiles | Transport |
| Property codec (`session.go`, `internal/util/binary.go`) | none | decodePropValue, PTP strings, GetDeviceInfo | session, presets |
| Profile (`internal/profile/`) | none | PatchProfile, translation to and from UI values | |
| Process (`cmd/`, `openwrt/`) | none | start; procd respawns it after a crash | |
| Camera, cable | session, USB mode, workspace, D185 register, object store, running conversions | answers commands in its own time, converts in the background, is unplugged | |

What is hard here:

- **Late answers.** A call that times out leaves its answer on the way. Nothing
  compares transaction IDs, so the next call may read it as its own.
- **A camera with a life of its own.** It keeps its session, its objects and its
  running conversions while the daemon restarts, and it loses them when it is
  unplugged while the daemon believes it is connected.
- **Results found by difference.** The JPEG of a conversion is whatever object
  was not listed before; failed listings, failed deletes and late conversions
  all bear on that.
- **Uploads in parallel.** Requests write one shared cache file before they take
  the mutex.
- **One slot at a time.** Scans and writes select a preset slot first; a selection that
  fails, or a reading that is another's answer, files values under the wrong slot.
- **Guessing by length.** A property value is a string or a number by the look of its
  bytes; some lengths make the reader run off the slice, and the handler panics.
- **Folders as the camera has them.** Handles shared by folders and storages, folders
  inside themselves, answers that fail.
- **Waiting.** Loads hold the mutex for minutes; some writes have no timeout.

`PROJECT.json` lists each hazard at its line, with the properties that cover it or the reason why none does.

What makes each component correct:

- session: the `Camera` fields agree with each other and, while the answers are
  true, with the camera; the object that is downloaded *and deleted* is a result,
  is new, and is that of the call's own conversion; the RAF that is converted is the one
  whose profile is cached; every operation ends;
- transport: a call returns its own answer with its own data, whole, or an error;
  every call returns;
- upload: the camera is sent the bytes of the request that is answered; the file
  outlives them only after a kill or a panic; no request is kept from the mutex for ever;
- presets: the selected slot is put back; what is reported written is written;
- codec: what is encoded is what is decoded, or it is known where it is not;
- profile: a patch changes the requested words and no others; a preset survives the
  way to the UI and back;
- listing: every RAF is listed once, and the walk ends.

## The modules

### CameraSession

The `Camera` struct and the handlers that change it. The mutex admits one camera
operation at a time, so the operation is one program counter `pc` and its locals
(`call`, `skip`, `polls`, `target`, `jpeg`). One action is one PTP command with
the Go code up to the next; an unplug, a restart or the end of a conversion can
fall between any two.

| Model | Code |
|---|---|
| `link` | `Transport.dev`: `"none"` is nil, `"dead"` is an open handle whose camera is gone (`Connected()` is still true) |
| `supported` | `SupportedProperties`, cut down to D185, the only one these handlers ask for |
| `baseProfile`, `rafLoaded`, `sessionOpen` | the fields of those names |
| `OpenSession` … `GetDeviceInfo` | `Connect`, `openSession` with its stale-session recovery |
| `SendObjectInfo`, `SendObject2`, `GetProfile` | `SendRAFStream` and the first half of `LoadRAFStream` |
| `SetProfile`, `Snapshot`, `Trigger` | the conversion, common to `LoadRAFStream` and `Reconvert` |
| `Poll`, `Sleep`, `Deadline`, `GetObject`, `DeleteObject` | `waitForResult` |
| `Restart` | a kill, then procd's `respawn` |
| `cam`, `obj`, `running`, `Uploaded`, `Started`, `FinishConversion`, `Unplug`, `Plug` | the camera and the cable: external, from what the code expects of them |
| `nconv`, `own`, `snapOK`, `late`, `delivered`, `unread`, `synced` | history and channel state; no action of the daemon's code reads them to decide |

`Exchange(o, did, able)` is one whole transport call: outcome `o`, and whether the
camera carried it out. `synced` turns false when a call is given up with its answer
on the way; from then on an outcome says nothing about its command. Only reopening
the interface may, but need not, put that right. This is `EndsAs` of module PTPCall, the
contract that PTPTransport is proved to keep.

A count in an answer that is another command's can make `GetDeviceInfo` and the two listings of
`snapshotHandles` and `waitForResult` run off the slice: such a panic is an outcome of
`GetDeviceInfo`, `Snapshot` and `Poll`. `unread` says that the camera has taken a RAF whose
profile no call has read since.

Data is abstracted: a RAF is a model value, a profile is the RAF it was computed
for and at most one edit, a JPEG is the job (number, RAF, profile) that made it.
Requests that change nothing (connect on an open handle or without a camera, 503 and
409 refusals, the read-only handlers) are left out, and so are the wording of errors and the log.

### PTPCall, PTPChannel and PTPTransport

PTPCall is the contract of one command, `EndsAs`: `ok` only if the camera carried it out,
`code` only if it did not, `err` leaves it open; all of this while the channel is
synced, which only a given-up call ends; and a camera that is gone gives `err`. CameraSession
and Presets extend it and take each command of the code as one such end.
PTPChannel is the abstract transport whose calls end so, one at a time, over a handle
that is opened, closed and lost; a call whose cable is pulled after the camera carried it out is
one that failed before the cable was pulled.

PTPTransport is the code: an action is one USB transfer. `out` and `in` are the two
pipes, `ans` is what the camera has yet to send. A container of several reads is a
sequence of fragments; `recv` reassembles it (`FirstRead`, `Continuation`), a read
that is cancelled may lose the part that had come (`Torn`), and the rest of such a
container is later read as if it began one (`GotJunk`). Writes wait for room in the
endpoint; `SendDataPhase` covers a reader that ends early, which the code does not
notice, and a chunk that is not taken in time. `WriteFails` is a write that fails or is
short with the camera still there, with none, part or all of the container written. A failed Reset is followed by Close.
Transaction IDs are written into containers and never compared, so they are left out.

`ImplementsChannel` is the refinement `PTPTransport => PTPChannel`, with
`live <- link = "live"`, `busy <- pc # "idle"` and `synced <- clean`.

### RafUpload

`POST /api/raf/load` as concurrent requests over the one cache file. `path` is the
inode behind the name, `fd` and `off` each request's open file; create truncates,
remove unlinks and whoever has the file open goes on. `LoadRAFStream` is what it does
with the file (`SendChunk`, `SendEnds`) and its end, in success or failure (`Finish`) or in a
panic (`Panics`), which releases the mutex and leaves the file, since only the unlock is deferred;
its commands are CameraSession's. `stale` is history: the file under the name was left by a
killed daemon or a panic. Taking the mutex, looking at `Connected()` and
opening the file are one action: between them nothing the request sees can be told
apart from having happened before. Close, remove and unlock are one action likewise.

### Presets

`GET /api/presets` and `PUT /api/presets/{slot}` over an open session. As in
CameraSession, one call at a time, one action per command, and `Exchange` is the contract
of PTPCall: `WriteProp` is `WritePropU16`, `WritePropRaw` and `WritePropString`,
`ReadProp` is `ReadProp`, whose nil (an error, another response code, no data) is `<<>>`.

| Model | Code |
|---|---|
| `listed` | the guard on `SupportedProperties` |
| `ReadSlot` (`origSlot`), `Select`, `ReadName`, `ReadSetting`, `Restore` | `ScanPresets`, with `at` the loop's slot, `k` its property, `reading` and `presets` what has been read |
| `WriteSelect`, `WriteName`, `WriteSetting`, `VerifyName`, `VerifySetting` | `WritePreset`, with `written` and `warnings` |
| `Overrun` | `decodePropValue` panics, the deferred unlock runs, the call is over |
| `cam`, `Shown`, `TakesSlot`, `TakesName`, `TakesSetting`, `Adjusts` | the camera: external. A setting may change another one (`Adjusts`) |
| `Stray` | the bytes of an answer that is another command's, once the channel is not synced |
| `start`, `failed` | history |

Slots and settings are as many as the constants say; the bytes are decoded by PropCodec.
A client's list of settings may name the slot property D18C itself (`PresetSlot`), which no
code forbids; a list that names other properties, such as the name D18D, is left out. Nobody
touches the presets at the camera during a call; between calls the selected slot may
change (`Reconnect`).

### RafListing

`GET /api/files`. The recursion of `listRAFsInDir` is `stack`, one set of handles per call
that is open: those it has left. `GetObjectHandles` and `GetObjectInfo` are its two
commands, `Resume` the loops going on, `Enter` the recursive call with its depth limit.
Nothing outlives a call, so a behaviour is one call. The camera may answer anything to any
command; a folder's answer is a set (its order is the choice of the next handle).
`cards`, `kids` and `kind` keep what it answered, and the properties compare the list with
that. A storage the camera names stands for its root; one named twice is walked
twice, over handles that are by then seen. `ShortName` is the panic of `Str` on an ObjectInfo that is
cut short, `Return("panic")` in `GetStorageIDs` the allocation of a count that is not one.

### PropCodec, PresetTranslate, ProfilePatch

The pure functions, over bytes: `decodePropValue`, PTP strings with the surrogates of
UTF-16, the integers with their widths, the DeviceInfo dataset (`FieldAt` is where
each of its fourteen fields begins), `PatchProfile` and `CameraProfileToUIValues` on the words of the
native profile, `TranslatePresetToUI` and `TranslateUIToPresetProps`. A read past the end
of a slice is `Panic`. The UI's floats move in tenths and are kept as whole tenths, on which the
code's scaling and rounding is exact. `TranslateUIToPresetProps` and
`CameraProfileToUIValues` have no caller in the program; they are modelled as
the inverses that `TranslatePresetToUI` and `PatchProfile` are checked against.
`PresetParts` lists what becomes of each property of a preset, and `TranslateUIToPresetProps`
appends these parts.

### Codec

Each function as a one-step system: `Init` chooses a job, one input of one function,
and the step computes its result. `PackInfo` is the dataset as a camera packs it
(external). The constants are the sets of inputs; MCCodec enumerates small ones for TLC.
`CodecAssumption` says which inputs the program can meet: bytes, texts of runes that
are valid UTF-8 (`json` replaces others), 16-bit numbers, datasets whose strings and arrays fit their
counts, edits of known fields, and scanned presets whose bytes `decodePropValue` got
through, since a scan that panics returns none.

### How they compose

CameraSession and Presets use the transport through `EndsAs` of PTPCall, by which PTPChannel
ends its calls and which PTPTransport implements; RafListing uses it
through "every command ends"; Presets decodes bytes by PropCodec. RafUpload uses the
session through "a camera operation ends" (`OperationEnds`, `PresetCallEnds`,
`ListingEnds`); the session's mutex is RafUpload's. Each contract is a property some
run checks.

## What the runs check

| Run | Bounds | Shows |
|---|---|---|
| `session_safety` | 2 RAFs, 3 handles, 2 conversions, 1 poll, no edits, symmetry | `SessionAgrees`, `SessionTruth`, `TargetIsAResult`, `NeverRedelivered`, `OwnResult`, `ConvertsLoadedRaf` |
| `session_live` | 1 RAF, 1 edit, 2 handles, 1 conversion, 2 polls | types, `OwnResult` with edited profiles, `OperationEnds` |
| `transport` | 3 calls, DATA of up to 2 reads, 2 containers ahead | types, `OnlyOwnInFlight`, `OwnAnswerWhileClean`, `ImplementsChannel`, `CallEnds` |
| `upload` | 3 clients with files of 2, 1 and 1 chunks, 4 inodes | types, `OwnBytesAlone`, `NoFileLeft`, `SavedRequestEnds` |
| `presets` | 2 slots, 2 settings, 3 values, 2 calls, 6 presets to write | types, `SlotRestored`, `ScanTrue`, `ScanWhole`, `VerifiedWrite`, `OtherPresetsKept`, `PresetCallEnds` |
| `listing` | 4 handles, 1 storage, depth 2, up to 2 storages or handles in an answer | types, `ListedOnce`, `EveryRafListed`, `AskedOnce`, `ListingEnds` |
| `codec` | all values of up to 6 bytes out of 6; names of up to 3 runes and of 126 to 511; 16 DeviceInfo datasets cut anywhere; 5 profiles by pairs of edits; 444 UI presets over 2 bases | `PanicsOneShort`, `NamesComeBack`, `NumbersComeBack`, `InfoComesBack`, `PatchKeepsRest`, `PatchReadsBack`, `UIComesBack`, `BaseKept` |

The bounds are enough for what each property tells apart. Two conversions give an
earlier result left in the store (a failed delete) or still running (a timed-out
call) next to the call's own, and a third handle leaves room for the RAF. Two polls
are one that finds nothing and one that does, or the deadline. Three calls are one
given up, one that takes its answer, one that takes the answer after. Two chunks are
a file truncated between them; the third client is one that removes or recreates the
file two others use. Two slots are one that is scanned first and one that may fail and is
passed over (the first cannot); two settings are one that changes another, before or after
it was written; two calls are one that leaves its mark on the next. Among the values is
one that makes the reader panic. Four handles and a depth of two hold a cycle, a folder
shared by two, one at the depth limit, and a file next to it; two storages in an answer
of one kind are the same storage named twice. The codec's bytes hold the lengths that
count as strings and a surrogate's high byte; the names end just below, at and above the 254
units the length byte can count, and where it wraps to a legal count again.

Some properties name what they do not promise. `SlotRestored`, `ScanTrue`, `ScanWhole` and `VerifiedWrite`
hold while answers are true (`synced`). `SlotRestored` has slot 1 where the slot could
not be read, as the code does. `VerifiedWrite` leaves out what the code cannot compare:
settings that were not read back or came back in another length, and a name that reads as a number.
`VerifiedWrite` and `OtherPresetsKept` assume that the client's list does not name D18C
(`StaysInSlot`): with it the rest of a preset goes to another slot, unnoticed. `EveryRafListed` is
about calls that end with a list, and counts failed and too deep folders as accounted
for, the code's own rule; a folder first met at the depth limit is not walked when a
shorter path leads to it later. `PanicsOneShort` and `NamesComeBack` say exactly which
inputs go wrong. `PatchReadsBack` is about profiles that `CameraProfileToUIValues` gets
through and whose words begin after their count (`FirstWord`: a count that is too
large by little would make a field overlap it), and of a request it speaks of the fields
whose encoded value fits 32 bits. `UIComesBack` is about values that fit their properties
(`Fits`), a film simulation among them, since 0 is written as 1.

The properties on results carry their assumptions in the open: `TargetIsAResult` and
`NeverRedelivered` need a snapshot that succeeded and true answers (`Informed`),
`OwnResult` also that no earlier conversion was running (`~late`). `ConvertsLoadedRaf` is about
more than one call: whatever loads, reconverts, failures and reconnects came before, the JPEG is of the
RAF whose profile is cached, unless an upload went through whose profile was never read
(`unread`): when a second load fails after the camera took its RAF, `RAFLoaded` and `BaseProfile`
stay those of the first, and a reconvert then converts the second. `NoFileLeft` excepts the file of a killed daemon or of a panic (`stale`).
The violation runs show what happens without:

| Run | What the source says | What TLC finds |
|---|---|---|
| `session_returns_raf` | `session.go:648-649`: waitForResult skips the uploaded RAF | a failed `GetObjectHandles` is an empty snapshot (`session.go:511`): the RAF is returned as the JPEG and deleted |
| `session_other_conversion` | `session.go:727-728`: only the JPEG "from THIS conversion" | a conversion of an earlier call ends after the snapshot and is returned |
| `session_mode_flag` | `README.md:57-58`: `rawConversion` is the camera's mode | `SupportedProperties` only grows: the flag outlives a disconnect, a change of mode and a reconnect. `TrueSpec` restricts this run to answers that are the commands' own |
| `transport_late_answer` | `transport.go:258`: SendCommand "returns the response" | after a timeout, the response of the call before |
| `upload_length` | `session.go:592`: "size must be the exact byte length" | a second upload truncates the file a first one is about to stream |

Deadlock is not checked in these runs: all of these systems really come to rest (bounded
numbers of calls or conversions, an idle daemon, one call of the listing, one input of the codec). Each
passing property has in `PROJECT.json` a deviation, a plausible bug of the code,
that breaks it; the operators marked "Deviation" in the modules are these.

## Fairness

- `CameraSession!FairSpec`: weak fairness of the operation in progress. The goroutine
  runs on; every read has a timeout, so each command ends. That a *write* ends is an
  assumption on the camera: see the next item. The handlers, the camera's conversions
  and the cable are not fair.
- `PTPTransport!FairSpec`: weak fairness of the host, and of the camera taking
  containers and sending its answers. The first cannot be dropped: `epOut.Write` in
  `send` has no timeout, and a camera that stops reading holds the call for ever. That a
  write fails (`WriteFails`) may happen and is never counted on.
- `Presets!FairSpec`, `RafListing!FairSpec`: weak fairness of the steps of the call in
  progress, each of which is one command that ends (`CallEnds`, with its assumption on
  the camera). New calls, the cable and the camera's user are not fair.
- `RafUpload!FairSpec`: strong fairness of taking the mutex (Go's `sync.Mutex` hands
  over to a waiter that starves) and weak fairness of the camera operation. Nothing
  is assumed of a client's body: an upload may stall before the mutex for ever, which is
  less than the server's `ReadTimeout` of 30 minutes (`server.go:64`) allows, and
  `SavedRequestEnds` starts after it.

## What is proved

`CameraSessionProofs` and `CameraResultProofs` prove, from `SessionAssumption` alone
(distinct nil values, natural bounds), for any sets of RAFs, edits and handles and any bounds:

- `TypeCorrect`: `Spec => []TypeOK`, one lemma per action over three groups of types;
- `SessionAgreement`: `Spec => []SessionAgrees`. It is not inductive alone: it needs
  the shape of the locals by program counter (`ShapeInvariant`), for instance that a
  call past the guard of Reconvert has its profile;
- `SessionTruthfulness`: `Spec => []SessionTruth`;
- `ResultInvariant`: `Spec => []ResultInv`, the inductive invariant behind the results:
  - `StoreInv`: conversions are numbered as they start (`Numbered`); one that still
    runs has left no object and was not delivered (`RunningApart`); nor does the JPEG
    in hand still run (`JpegDone`);
  - `CallInv`: after the snapshot, an object outside the skip set is an undelivered
    result (`Skipping`) and the target is such a one (`TargetChosen`); register and
    workspace are what the call set (`Requested`); with nothing running at the
    snapshot, every new job is the call's own (`OnlyMine`), so the JPEG is (`JpegMine`);
  - `LoadedInv`: a conversion has `RAFLoaded` set (`RafThere`); unless an upload's profile is
    unread, the workspace holds the cached profile's RAF or none (`Workspace`), and with nothing
    running at the snapshot every result that is new is of this RAF (`OnlyLoaded`);
- `ResultsOnly`, `NoRedelivery`, `ResultIsOwn`, `LoadedRafOnly`: the four properties of results, from it.

The shape of the argument: a handle skipped at the snapshot stays skipped; an object
that appears later was running at the snapshot or started by this call's Trigger.
Both facts survive an unplug and a restart because `Kept` (live link, true answers)
is lost there for good within the call.

`PTPTransportProofs`, from `TransportAssumption` alone (natural bounds, room for a container), for any number of
calls, lengths of answers and sizes of the endpoint:

- `TransportInvariant`: the locals fit the program counter (`Locals`), and a call on a
  clean channel is in one of three situations (`CleanChannel`): the cable was pulled
  and nothing is left (`Gone`), the camera has yet to take its last container
  (`Asked`), or it has taken all and what lies in the pipe with what the camera still has to
  send is exactly what is left of the one answer (`Answering`, `Remains`). Without the exact shape
  of the remains a DATA container could be taken for complete too early;
- `TypeCorrect`, `OnlyOwnUnderWay`, `AnswersAreOwn` from it;
- `TransportImplementsChannel`: the refinement. Visible to the channel are the steps that begin or end a call,
  the one in which the camera carries it out, and those that open or lose the handle; every other one is a stutter.
  That a camera that is gone answers nothing needs one more invariant, `Silent`: nothing is on
  its way over a dead handle. With this theorem the step that CameraSession and Presets take
  for a command is one the transport's calls take, for any fragments, buffers and numbers of calls.

`RafUploadProofs`, from `UploadAssumption` (finitely many clients, more inodes than clients):

- `UploadInvariant`: a request that is alone has the named file open, and file, offset and
  bytes sent are the prefixes its step says (`LoneFile`); requests at rest have nothing open
  (`Descriptors`); a named file that is not `stale` has an owner, a request under way that
  has yet to remove it (`Owned`), from which `FileRemoved` follows when there is none. That `os.Create` always finds an inode takes a lemma on cardinalities;
- `TypeCorrect`, `AloneOwnBytes`, `FileRemoved`.

`PresetsProofs`, from `PresetsAssumption` (slots that fit an `int16`, values that are bytes):

- `PresetsInvariant`: the selected slot is the one the step works on (`Selected`), the
  slot to restore is the one found or 1 (`Chosen`), what is collected is in order (`Ordered`)
  and lacks nothing as long as nothing failed (`SoFar`, `AllFound`), settings before `k`
  are accepted or warned of, later verified (`Verifying`). `Verifying` outlives the writes
  because verification only starts after the last of them and reads change nothing;
  that a slot number comes back from its bytes unchanged is a lemma on the codec;
- `TypeCorrect`, `SlotGivenBack`, `ScanIsTrue`, `ScanIsWhole`, `WriteIsVerified`, `OthersKept`.

`RafListingProofs`, from `ListingAssumption` (storages, handles and nowhere are distinct),
for any handles, storages, depth and bounds on an answer:

- `ListingInvariant`: every handle that was named is seen or held by a call that is still
  open, every named storage is walked, asked for or left, every folder found is walked,
  skipped or asked for (`Remembered`); marks and list say what the camera said (`Marked`,
  `FilesExact`); the calls hold unseen handles (`Standing`). Completeness at the end is
  `Remembered` with an empty stack;
- `TypeCorrect`, `NoneTwice`, `NoneForgotten`, `NoneAskedTwice`.

`CodecProofs` and `ProfileProofs`, from `CodecAssumption`, for bytes, texts, datasets, profiles, requests, UI
values and presets of any size:

- that the result is what the job's function returns of its input is a lemma
  (`CodecInvariance`), by the definition of the actions; the theorems are what follows for each function;
- `ValuesRead`, `NumbersRead`: the guess of a string and the reader's bounds, length by length;
- `NamesRead`: `TextRoundTrip` shows that every text comes back from UTF-16, appending a rune at
  a time; what closes the induction is that encoded units never end in a high surrogate
  (`Closed`), so that more units leave the earlier ones' decoding alone (`PiecesPrefix`). The
  count byte then decides (`NameRoundTrip`);
- `InfoRead`: each field of the dataset has a place in the concatenation (`FlattenPlaces`); the
  reader walks from place to place (`Walk`), or leaves a dataset that was cut, even where
  the cut falls into a count (`FieldStep`);
- `RestSurvives`, `EditsShow`: the patched profile byte by byte (`PatchIs`), then word by word
  (`PatchedWords`: fields have words of their own, four bytes make their word again, signs
  included), then field by field through the tables (`ShownWords`, `SeenWords`);
- `PresetsKept`, `PresetsComeBack`: what is written is made of 24 parts of distinct properties, each
  of which is one setting or none (`PartsOnce`, `WrittenParts`); so `propVal` finds for each
  property the number of its part (`PutValue`) or nothing (`NoValueOf`), and the tables of
  the two directions are inverses (`Tables`, `GrainTable`).

The library states induction with an operator as its parameter, which the provers cannot
instantiate. The codec needs it for `FlattenSeq`, the texts and the fields; `Induction` states it
of a *set* of naturals, and rests on the finite cardinality of initial segments (`LeastNatural`).
`Iteration` solves a recursion over `1..N` the same way, which is what gives a recursive
function such as `FieldAt` its values.

Only model-checked: every liveness property (`OperationEnds`, `CallEnds`, `SavedRequestEnds`, `PresetCallEnds`,
`ListingEnds`: fairness and ENABLED are outside the prover's reach), and the violation runs.

## Not modelled

- `drainResults`, `SendRAF`, `LoadRAF`, `WaitForResult`: no handler calls them.
- Download and thumbnail: one command each that changes nothing in the daemon or the
  camera. The thumbnail's ETag is its handle, which a camera may reuse; what goes stale is
  the browser's cache, so `PROJECT.json` lists the hazard without a property.
- `Connected()` of an unplugged camera: it is true until Close, in every model that has a
  link; that nothing notices is listed as a hazard, and no property can say otherwise.
- Status, `GET /api/raf/profile` and the other handlers that only read under the mutex.
- The static frontend with its SPA fallback, CORS, JSON and logging: stateless I/O. The tables of
  names and labels. Flag parsing. The build.

## Order of the work

CameraSession came first, for the object that is deleted at its end; then the transport
with the contract it rests on, then the uploads that run beside it; then presets, the
encodings they use, and the listing.
