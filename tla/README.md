# Gwion-plug: a TLA+ verification project

Gwion-plug is the collection of plug-ins of the Gwion language, a strongly timed
audio language. Each directory of `src/` is one plug-in: a shared library that adds
classes, unit generators, MIDI and network input, or an audio driver to the virtual
machine (VM). The VM, its compiler and its shreduler are *not* in this repository;
they are modelled from how the plug-ins use them.

This directory holds the models of the plug-ins whose state outlives a call, the
TLC configurations that check them, and the proofs TLAPS checks. `PROJECT.json` is
the index: components, runs, mutants, theorems, hazards, and for every definition
that models code the lines it models.

    tlc -workers 2 -config MCInputs.cfg MCInputs    # a run
    tlapm UnitsProofs.tla                           # a proof module

## 1. Inventory

### 1.1 The world the plug-ins live in

* The **VM** runs *shreds* (user-level threads) one at a time on one thread. A method
  of a plug-in runs inside the shred that calls it and cannot be preempted by another
  shred: a method that blocks on a mutex or on a join blocks every shred.
* A shred *waits* for an object with `obj => now`. `broadcast(obj)` puts every waiting
  shred back on the shreduler; nobody remembers a broadcast that found no one waiting.
* Objects are reference counted. The destructor runs in the shred that drops the last
  reference; the destructors of a class and of those it extends run one after the other.
* A unit generator's `tick` runs on the audio thread, which is the VM's, once per sample,
  and reads fields that methods write between ticks.
* A driver module owns the main loop: it asks the VM for samples while
  `bbq->is_running`.

Every plug-in that listens to something has a *second thread* (its own pthread, or the
library's) and that is where the hard behaviours are. In the unit generators what is hard
is the *order of calls*: a second `init`, a destroyed table, a class derived from theirs.

### 1.2 Components

`S` state, `O` operations, `I` interaction, `H` hard behaviour, `P` what makes it correct.

**Evdev** (`Evdev/evdev.c`). S: the event array `args`, the read index `idx`, mutex,
reader thread, descriptor. O: constructor, reader loop, `recv`, destructor. I: the
reader thread appends and broadcasts, shreds read; the destructor cancels and joins.
H: append against drain; the array is only emptied when `recv` finds nothing left;
teardown of a thread that may hold the mutex. P: exactly-once delivery in order, no use
after destroy, no method blocks for good.

**PortMidi** (`PortMidi/portmidi.c`). S: vector of messages, a mutex, the shreduler's mutex,
a detached thread. O: open, receive, `read`, destructor; `MidiOut.send`. H: two
mutexes taken in sequence from both sides; the result of `Pm_Read` is not looked at; the
destructor releases the vector, then cancels without joining. P: as Evdev.

**RtMidi** (`RtMidi/rtmidi.cc`). S: vector of 3-byte groups, mutex, the library's thread. O:
constructors, callback, `read`, `connect`, destructor. H: framing of messages of any length;
the destructor keeps the mutex while it deletes the library's object; wakeups. P: groups
are whole messages padded with zeros; a loop that waits and reads misses nothing.

**Lo** (`Lo/lo.c`, OSC). S: a map of servers by port, counted; per server methods, each with
its client list; per OscIn the queue of argument vectors and the one being read; counts
of shared arguments; per OscOut the arguments to be sent. O: `new`, `add`, `recv`, the
getters, destructors, the handler of the server thread; the `=>` operators and `send`. I: an
OscOut reaches the OscIns through a network that loses, repeats and delays. H: sharing of servers,
of methods and of arguments between objects; counts that two threads change without a lock; handler against
destructor; operators that add to a copy of a structure. P: the server lives exactly as long
as its objects; arguments live while someone can get them; messages in order, of what was added.

**LiSa** (`LiSa/lisa.c`). S: sample buffer, per voice position/rate/loop/fade, record head,
sync mode. O: tick and some twenty setters. H: any setter between any two ticks; loops
moved under a playing voice; fades turned round in the middle. P: voices keep to
their loops, nothing but the one sample of section 6 lies outside the buffer; ticks return; gains in range.

**WebSocket** (`WebSocket/server.c`). S: queue of strings, mutex, `run`, the library's client
list. O: `send`, service thread and its callbacks, destructor; a driver variant. H: queue
walked by one thread, grown by another; a destructor that must wake an event loop; a
write request that has to keep itself alive. P: each string to one client, freed once.

**FileIO** (`FileIO/fileio.c`). S: a stream; per call a detached thread that *owns a shred*
while it blocks. O: `new`, `read`, `write`, destructor. I: with Machine, which removes
shreds by number. H: the thread pushes on the stack of a shred that is off the shreduler. P: never both
at once; every shred comes back.

**Machine** (`Machine/machine.c`). S: none of its own; it edits the VM's shred list and the
compiler's pass list. O: `add`, `remove`, `replace`, `check`, `compile`, `pass`. H: `replace` goes
on after a failed remove; `check` must restore the pass list on every path. P: no
command has a half effect, a number belongs to one shred.

**Repl** (`Repl/repl.c`). S: contexts by name, the one that is loaded, file-scope flags set by
keys, the environment's stack. O: seven keys, four commands, compile. H: flags that
outlive their line; a nested prompt in which the same keys work. P: names unique, stack
balanced, cancelled means cancelled.

**Drivers** (`Alsa`, `Jack`, `Pipewire`, `PortAudio`, `Pulseaudio`, `Sndfile`, and the driver half of
`WebSocket`). S: device handles, blocks. O: ini, run, the callbacks, del. H: the place of (frame,
channel) in each layout; blocks sized by outputs and filled by inputs; del after a failed ini;
a loop that only its own callback can end. P: the sample of (frame, channel) goes to its place,
nowhere else; what is opened is closed, once; run returns.

**Nuklear** (`Nuklear/nuklear.c`). S: panels, each with a thread; the tree of widgets, its lists,
the widget being built into. O: constructors, `begin`, `end`, `add`, destructors, the walk of a
thread. H: the walk against the building, with no lock; one display for all windows and
threads that are cancelled with it. P: no thread meets a freed widget; windows stay drawn.

**Soundpipe** (`Soundpipe/soundpipe.c`, generated, 119 units). S: per unit the library's
oscillator, `is_init` and the tables it keeps; per table a pointer to the library's memory.
O: constructor, `init`, tick, fields, destructor; some thirty generators of tables. H: `init` twice,
`init` that fails, tables destroyed while units tick on them; references counted in one
function and given back in another. P: nothing freed or null is touched, every reference is given back.

**STK** (`STK/stk.cc`, generated, 75 classes). S: per object a pointer to the library's and the
tick's; the voices of a Voicer. O: constructors, static constructors, methods, ticks, destructors. H: one
pointer, and a chain of destructors; classes derived by the program; a Voicer that keeps
what it does not count; arguments declared in one place and read in another. P: deleted
exactly once; a tick computes its own object.

**Lsys** (`Lsys/*.c`). S: parser position, mode and entries; the list of symbols and its cursor.
O: `parse`, `reset`, `get`, tick. H: indices into the text, entries computed from characters,
parser state that outlives a text. P: what is played is the generation asked for.

**Analys** (`Analys/analys.c`). S: per FFT a ring of samples and a spectrum; per ANA the FFT it
counts and a pointer to its spectrum; per FC its features. O: `init`, `compute`, tick, `fft(...)`.
H: a pointer into what another object frees; references released in the wrong branch. P: a transform is
of the last samples; counts balance.

**FMSynth** (`FMSynth/fmsynth.c`): a synthesizer replaced by `init` and `load`, which frees it
before the file is known to open. **TinySR** (`TinySR/tinysr.c`): a block of samples that is
only emptied when a model is loaded in time.

**Modules, K, Sporth, TinySF, Faust, Fann, Vecx, Cytosol, Pd, LeBiniou, LinuxSampler, PortSmf,
BMI, FFI, SimdJSON, CoreUtil, Std, Math, Term, TermColor, Emoji, TinyRegex, Tuple, faust2gw**:
bindings and small units. Most are one library call per method. Those with state across
calls (K's loaders, Cytosol's runners, LinuxSampler's and Pd's patches) are in the plan.

### 1.3 Hazards

The list with lines and covering properties is `PROJECT.json` "hazards". Others met in the
survey, that no property covers:

| where | what |
|---|---|
| `Evdev/evdev.c:52` | the reader broadcasts without the shreduler's mutex, which PortMidi takes |
| `Evdev/evdev.c:94` | `args` only shrinks when a reader catches up; a slow reader grows it for ever |
| `LiSa/lisa.c:249` | the search for a free voice looks at the voice before it looks at the bound |
| `LiSa/lisa.c:295` | several channels: output samples are indexed by channel |
| `LiSa/lisa.c:325` | the destructor frees channels and output samples, not the buffer nor the gains |
| `WebSocket/server.c:165` | a context the library could not create is used |
| `WebSocket/server.c:116`, `:132` | `send` asks nobody for a writable callback: until a client speaks strings pile up; the library wants room before the text it writes |
| `Lo/lo.c:213` | the methods' clients are released before the server's thread is stopped |
| `RtMidi/rtmidi.cc:96` | the callback walks the connected outputs without the mutex |
| `Repl/repl.c:275` | the end of the module joins a thread that is in `readline` until the user types |
| `Repl/repl.c:147`, `:173` | `fork` reads a tick that may not be there; the nested prompt uses what `readline` returned without a test for NULL (both modelled: the prompt crashes) |
| `Sporth/sporth.c:100` | the bound of a table's index lets its size through |
| `Pd/pd.c:42` | a patch can be closed twice |
| `LinuxSampler/LinuxSampler.cc:60` | a second load starts a second thread without waiting for the first |

Three hazards of the list have no property: Evdev's thread ends silently on an error, PortMidi's destructor
pulls the vector from under its thread, and a destroyed OscIn stays on its methods' lists. The
models have these steps, and properties except what follows from them; nothing in the
repository promises anything about them that a run could refute.

## 2. Modules

| module | models | checked by |
|---|---|---|
| `EventFifo` | abstract: items are accepted, handed out once and in order, dropped at close | refined by `Evdev`, `PortMidi`, `RtMidi` |
| `Evdev` | object, reader thread, shreds | `inputs`; proofs in `InputsProofs` |
| `PortMidi` | MidiIn, thread, two mutexes, shreds | `inputs`; proofs in `InputsProofs` |
| `RtMidi` | MidiIn, callback, framing, shreds | `inputs`, `rtmidi_reads`; proofs in `InputsProofs` |
| `Inputs` | a program with one of the three | `inputs` |
| `Lo` | server, methods, OscIn objects, handler | through `Osc`; proofs in `OscProofs` |
| `Osc` | `Lo` with an OscOut and the network between | `osc`, `osc_get`; proofs in `OscProofs` |
| `LiSa` | voices, record head, tick, setters | `lisa`, `lisa_ticks`; proofs in `LiSaProofs` |
| `WebSocket` | queue, service thread, clients, VM side | `ws`; proofs in `WebSocketProofs` |
| `FileIO` | shreds, their threads, the stream, the file | through `Machine` |
| `Machine` | `FileIO` with shreds that are added, removed, replaced; passes | `machine`; proofs in `MachineProofs` |
| `Repl` | keys, prompts, commands, contexts | `repl`, `repl_cancel`; proofs in `ReplProofs` |
| `Drivers` | ini, run, callbacks, del and blocks of each audio driver | through `Outputs`; proofs in `OutputsProofs` |
| `Nuklear` | panels, their threads, the tree of widgets | through `Outputs`; proofs in `OutputsProofs` |
| `Outputs` | a driver, or the windows | `outputs`; proofs in `OutputsProofs` |
| `SoundpipeUnits`, `SoundpipeClasses` | what each of the 119 units does that the next does not: as the functions have it, and as the compiler is told | through `Soundpipe` |
| `Soundpipe` | the steps the units share, tables and their generators | through `Units`; proofs in `UnitsProofs` |
| `StkUnits`, `StkClasses` | the same of the 75 classes of STK | through `Stk` |
| `Stk` | the steps the classes share, and the Voicer | through `Units`; proofs in `UnitsProofs` |
| `Lsys`, `Analys`, `FMSynth`, `TinySR` | these units | through `Units`; proofs in `UnitsProofs` |
| `Units` | a program with one of the plug-ins of unit generators | `units` |

The plug-ins do not call each other: what they share is the VM. Each module therefore
contains the part of the VM it meets (which shred is inside a method, who waits). Where
plug-ins do meet, the modules are composed: a shred that Machine removes while a thread of FileIO
holds it (`Machine` extends `FileIO`); a message of OscOut that OscIn receives (`Osc` extends `Lo`).
`Inputs`, `Outputs` and `Units` put plug-ins that share nothing side by side: `plug` is
the one imported, chosen once, and the state of the others stays as it is. One run so
answers one question (what is heard from a device, what does the machine show, what do
unit generators do to memory) of all plug-ins it is a question about.

### 2.1 How state and actions correspond to the code

*Variables* carry the names of the fields (`args`, `idx`, `msgs`, `pindex`, `loop_end_rec`,
`client`, `ptr`, `kept`, ...). Additional ones are program counters of a thread (`rpc`, `cb`, `hpc`,
`th`, `spc`), the owner of a mutex, and *history* variables (`sent`, `log`, `got`,
`wire`, `freed`, `added`, `played`, `meant`, `recent`, `misuse`, ...), which the code does not have and
no guard reads except as the bound of the run.

*Threads.* A critical section is one action from lock to unlock where nothing else can see
inside; where something can (an append while another thread reads the length), it is
split. `mp_vector_add` is two actions, length then store, in `Evdev`, `PortMidi` and Nuklear's `Added`:
that is what makes a missing lock visible. For the same reason a count of OSC arguments, which liblo's thread takes up
(`lo.c:271`) and the VM's down (`lo.c:28`), is read in one step and written in the next, on both sides. `Machine.check`
sets the passes in one step and restores them in another, between which the threads of FileIO go on.

*The VM.* `vm` holds the shred inside a method. An action of another shred needs `vm`
free. A destructor is entered by `Release` of the last shred that holds a reference.

*Ticks and calls.* A tick is one action, as is a setter: the VM runs both on one
thread. LiSa's two `while` loops that wrap a position are their closed form, a
modulo; when the loop's ends are in the wrong order they do not end, which is the action
`TickHangs`. Lsys' recursive functions are a fold (the parser) and a recursive function of the
order (the expansion).

*Faults.* A read of freed, null or unset memory is not followed: it sets `fault` (or `crashed`), from
where nothing is promised. What a program must do for it to happen is named by `misuse`, at the
action where it does; the safety properties say that nothing else leads there. Undefined
values are a choice: the message PortMidi did not read, the passes Machine did not
initialise, the name or code `replace` reads after it raised an exception, the arguments in a block that was freed,
the pointer FMSynth saves to. An exception ends the shred it is raised in or is handled there: both are steps.

*Generated code.* Soundpipe and STK are one file each in which every unit has the same four to six
functions. A definition of `SoundpipeUnits` (`StkUnits`) is the unit's record of what these
functions do *differently*: the arguments they read, whether the oscillator is made late,
which tables they count, the channels they ask for and those they touch, and so on; its lines in the
map are that unit's functions. `SoundpipeClasses` (`StkClasses`) are the import functions: what the
compiler is told. The two were written down separately, from separate parts of the file, and `UnitsAgree`
compares them.

*Blocks of sound* (`Drivers`). A sample is the pair (tick, channel), a block a function from its
locations in memory. `OutAt` is where the code puts a sample, `DeviceAt` where the device looks for it.

*Numbers.* Floating point positions and fades are fixed point, `1/Grain` of a sample and
`1/Unit` of a tick; truncation is `\div`. The unsigned subtraction of the record head keeps
its width (`Word`), and an OSC integer its own (`Half`). Byte *n* received has value *n*, so that two
groups differ. Characters of an L-system are their codes.

### 2.2 What is external

Modelled from its use in `src/` and marked `external` in the map: `broadcast` (one
step, except in PortMidi, where its lock is separate), `pthread_cancel` (deferred: it acts
at `poll`, `read` and Xlib's waits), liblo's server thread (stops only between handlers), libwebsockets'
event loop (accepts, drops, hears, finds writable; `lws_cancel_service` makes one call
return), readline, `getline` and `fwrite` (they lock the stream), `load_context` and
`unload_context` (push and pop), `vm_remove` and the compiler (it compiles or it does not), the
audio libraries (a call succeeds or fails; callbacks come until the stream is closed), the libraries of
unit generators (a function succeeds or fails and keeps the pointers it is given).

## 3. Runs

Every run that passes also fires every action of its next-state relation. Every property
has at least one *mutant*: a plausible bug, written beside the definition it replaces, under
which TLC finds that property violated.

### inputs
`MCInputs`: one object of Evdev, PortMidi or RtMidi; two shreds, one of which runs the loop of
`test_loop.gw` (wait; then `recv` until it returns false), the other calling anything at any
moment; three events, or five bytes in messages of one to four.
`ExactlyOnce`: what Evdev handed out, then what is queued, is what the thread accepted.
`FifosSpec`: each module implements `EventFifo`. `TeardownSafe`: Evdev's destructor destroys
nothing the thread can still touch. `DrainsDeliver`: a looper that was woken leaves
nothing that was there. `VMsNeverStuck`: neither `recv` nor the join blocks for good; of PortMidi it excepts
the state in which the thread died of the vector the destructor took from it
(`portmidi.c:117`), which the model has as `crashed`. `Framed`: what RtMidi queued and read
is the frames of the messages received; `WokenForWholeMessage`: nobody is woken in
the middle of one. `VMStuckOnlyInDtor` states its exception precisely: the destructor waits for
a callback that waits for the mutex the destructor holds (`rtmidi.cc:59`). A `MidiIn` of RtMidi that could not be opened may
kill the process: its destructor takes a mutex that was not made when the library's constructor threw (`rtmidi.cc:102`).

Three events give an append before, during and after the reset of `idx`; a second shred
gives a `recv` in the middle of a drain, and a destructor that runs in either. Five bytes give an
incomplete group, a full one, one of each, and a second message while the first is read. Garbage after
a failed `Pm_Read` is an item like another: it is delivered as what was received.

### rtmidi_reads (violation)
The loop of `RtMidi/in.gw` alone, with fair threads, against that file's own comment
("read incoming messages"): a broadcast between the last `read` and the wait is lost, and the groups
stay until another message comes. Evdev has the same gap: `DrainsDeliver` therefore
starts from a looper that was woken, and says nothing of an event that comes between.

### osc, osc_get (violation)
`MCOsc`: either an OscOut that sends to one OscIn, or two OscIns on one port and one method that get their
messages from elsewhere: two objects are the least that share a server, a method and an
argument, and sending to both at once would not tell the two halves' properties more. Three arguments are
added to a message, of which the second does not fit an OSC integer; the block of the vector holds two, so that
the third makes it grow, where it is or elsewhere. Two messages, two calls of `add` (three in `osc_get`), one message in
the network at a time (two), each lost, repeated or late.
`ServerCounted`: a server is in the map, and its thread alive, as long as an object on its port is; an object that
could not get one (`lo.c:449`) is not counted.
`InOrderOnce`: an object gets each message it was subscribed for once and in order, though `add` may grow the list the
handler walks (`AddRaces`: the process may die of it, or the handler goes on). `StopEnds`: stopping the
server never waits for something the VM holds.

`LaterArgsHeld`: arguments after the first are counted for each client, but the count is a word that two threads read and
write without a lock. However their steps interleave the count is short by at most the clients after the
second: with one client or two nothing is freed that can still be got. With three that is not so: the handler counts up for the third what the machine
counts down for the first two, an update is lost, and the third gets what was freed. `osc_get` needs neither: the
loop at `lo.c:269` counts arguments for each client from the second, so the first one is freed by the first
client that gets it, and `GetsFromTheMessage` is violated.

`SentAsAdded`: a message is made of what was added since the last send, in order, unless the block moved. Then the object still
points to the freed block, and what it sends is any arguments, or the process dies: not
what `lo.c:176` says of the operator, "Add an `name` to the message". A destroyed object stays on its methods' lists (`lo.c:347`); the
model lets the handler that meets it crash or go on, and the properties about live objects hold in both cases.

### lisa, lisa_ticks (violation)
`MCLiSa`: one voice and the record head, buffer of 3 (and one sample more), half samples, loop ends 0, 1, 3 and 4 (past the end
included), positions and rates outside the buffer in both directions, ramps 0 to 2, three sync
modes, any four calls at any moments. Four calls are enough to set two loop ends, a
direction and a position, or a whole fade with its turn. One voice is enough because voices
share nothing but the loop of voice 0, where the record head restarts: the proofs
are for any number.
`VoicesReadInside`: a looping voice reads inside its loop, any other inside the buffer; in the sync modes, where the input says where,
between the ends of the loop in whatever order they are, and the sample after them.
`TicksInBuffer`: as long as no call gives a loop start or a record end past the buffer, neither a voice nor the record
head touches memory outside it, with one exception: the second of the two samples that are interpolated in a sync mode, for
a voice with an end of its loop at that of the buffer. The bounds past the buffer are accepted by the code, and then
recording does write outside. As for the exception, the "extra sample for safety" (`lisa.c:67`) is not enough:
a voice with the loop it was made with, driven by a full-scale input, reads one after it.
`RecordNotAmplified`: no sample is scaled up while recorded, if the loop the record head goes back to is not empty. `BiContinuous` is for
positions inside the loop; `FadeTurnsSmoothly` excepts fades of length 0, for which the code stores the reciprocal of 1. `VoicesEnd` is
liveness: a voice that fades out, or plays through without looping, stops.
`lisa_ticks` checks the comment at `lisa.c:91`: the guard catches equal loop ends and not
reversed ones, which `set_lend` accepts.

### ws
Two clients that come and go, three strings. `OneClientEach` is what the code does: the first
client that is writable gets the whole queue, the others nothing (the comment in the
property says so; nothing in the repository promises a broadcast). `FreedOnce`: no string goes back to the pool twice.
`Drains`: while a client that was heard stays, every string reaches the wire. `DtorEnds`: the wake up cannot be lost,
since the library keeps it until a service call takes it. Three strings: one written, one
queued behind it, one whose `send` waits while the thread holds the queue.

### machine
`MCMachine`: three shreds with two numbers, one file of two lines, one write of the empty string or of another.
`ThreadsSafe`: a shred is off the shreduler exactly while a thread of FileIO holds it, and no thread or call
works on a shred that is gone or a file that is closed, unless Machine removed or replaced a
shred that was parked, a shred replaced itself or a number nobody has (the exception ends it, and `replace` reads the
name or the code in its memory after that, `machine.c:79`), or the passes were set to garbage: what the run shows
is that *these are all the ways* to do so. `LinesOnceInOrder`: no line is lost or read twice by shreds that
share a file, though two shreds may resume out of order. `NumbersUnique`: no two live shreds have one number,
though `replace` goes on when there is no such shred; and a check that is over, failed or not, has not left the compiler
with its own passes. `ComesBack`: every blocking call
ends, the end of the file and a write that fails, of any string, included. An empty string raises a write exception although
nothing failed (`fileio.c:56`). Three shreds: one that removes, one that is parked, one made
meanwhile under its number.

### repl, repl_cancel (violation)
Three lines, three names, any keys at any prompt. `NamesUnique` and `StackBalanced` hold
although `repl_cmd` changes only its own copy of the context pointer (`repl.c:202`), which is why
they are worth checking. `CancelCancels` (`Repl/README.md:19`) does not: the flag of a command
pressed on a cancelled line survives and the command runs after the next one.

### outputs
`MCOutputs`: any of the seven drivers (Alsa in its two accesses) with 0 to 3 inputs and 0 to 3 outputs, blocks of
two frames, three blocks, any step failing; or the windows of Nuklear.
`SamplesPlaced`: with numbers of channels the driver fits, no location outside a block is written and every
frame the device gets is one tick's, every channel in its place, ticks in order. `Fits` is part of what the run
shows; outside of it the property fails:

| driver | fits |
|---|---|
| alsa with planar access | as many inputs as outputs (`alsa.c:134`) |
| pulseaudio | no more inputs than outputs (`pulseaudio.c:56`) |
| sndfile, portaudio, websocket | two outputs (`sndfile.c:39`, `portaudio.c:47`, `server.c:14`) |
| alsa, jack, pipewire | any |

`DelIsSafe`: the machine does not run after `del`, which closes nothing twice and nothing that was not opened, whatever failed, but in three
cases: PortAudio after a failed ini, Pipewire when run never ran, and Alsa when its capture could not be
opened after its playback was. That failure is a negative number, `alsa.c:43` tests for a positive one or for no handle, and the handle is
static: it is playback's, and closed twice. And all that was opened is closed, but for what the property lists. `Stops`: once the machine has stopped,
run returns. Three channels are the least that tell a stride of two from the number of channels; two frames
and three blocks the least that show order within and between blocks.

Windows: one panel with three widgets, or two with one each, two calls (`begin`, `end`, `add`, a variable that ends),
lists of two. `WidgetsSafe`: no thread meets a widget or a list that was freed, but for the uses it
lists; every reference is accounted for. `WindowsDrawn`: a window that waits for the display is drawn again, unless
a panel was closed (its thread may be cancelled with the display); and closing one ends. Three widgets are a group, one in it,
one beside it; two panels are the least that compete for the display.

### units
`MCUnits`: a program that imports one of six plug-ins.

* Soundpipe: each of the 119 units with two tables and an array of them; three tables of the library.
  After the first step classes of one *kind* (the view of `MCUnits`: whether they are made late, what they count,
  which tables they take, whether they have fields) are followed once: the steps depend on nothing else. The program is
  followed up to its second questionable use.
* STK: two objects of each of the 75 classes, or a Voicer and each instrument; four of the library's objects, so that
  each object can be overwritten once.
* Lsys: 112 grammars of two symbols (an empty word, a growing one, two rules for a symbol, none), orders 0 to 3, eight texts
  that are written of none, a second text.
* Analys: two FFTs of size 2, or one of size 4, an ANA, two initialisations.
* FMSynth: four synthesizers. TinySR: blocks of three samples, seven samples, two words.

`UnitsSafe`: no null, destroyed, freed or misread memory is used but by one of the *questionable uses* each module
names: an accessor before `init`; an `init` that fails after one that succeeded; a generator called on a table in
use; an object of a derived class; an instrument dropped while a Voicer has it; a second text; an FFT initialised again under an ANA;
a load that fails, a look at FMSynth's name or author after one that did not (`fmsynth.c:121`), a Rolloff of a hundred percent or
more (`analys.c:256`); and, of any of them, a null argument, which most functions look into unasked. `UnitsCompute`: an L-system plays the generation its text means (against `Generation`, the
textbook rewriting), a transform is of the last samples in order, the recogniser gets every sample once.
`TablesAccounted`: every reference Soundpipe takes is given back but by `nsmp_init` and `gen_padsynth`, and the
library's memory is freed. `DeletedOnce`, `TicksItself`: STK's objects are deleted exactly once, and a tick
computes the object it belongs to. `UnitsAgree`: functions read the arguments the compiler was told of, but for STK's
misdeclared ones, fields exist on both sides with one type, and no tick of Soundpipe touches a channel its
constructor did not ask for.

### Deadlock
Every configuration sets `CHECK_DEADLOCK FALSE`: each of these systems may stop (the
device is unplugged, the object destroyed, the prompt ended, every shred waiting for a
silent network, the process dead). That nothing blocks *inside* a method is stated as liveness instead.

## 4. Fairness

* Weak fairness of a thread's own steps: the system schedules it.
* Evdev, PortMidi: *strong* fairness of `recv`/`read` for the loopers only. `Running(s)` is
  disabled while another shred is inside a method and enabled again after it; the
  shreduler is a queue, so a shred that is ready gets its turn. The other shred is under
  no fairness: it may stop calling, or call for ever.
* `Inputs` assumes the fairness of all three; of an object that is not constructed nothing is
  enabled, so that it asks for nothing.
* WebSocket: strong fairness of taking a mutex that is repeatedly free, of the event
  loop noticing its wake up, and of each descriptor that stays writable.
* LiSa: weak fairness of `Tick`: the driver keeps asking for samples.
* Machine: weak fairness of each detached thread of FileIO: its blocking call returns.
* Lo, Osc: weak fairness of the handler and of the destructors; none of the network.
* RtMidi: weak fairness of the callback and of the destructor; `LoopSpec` adds the steps of the shreds
  that run in.gw.
* Drivers: weak fairness of the sound (the device takes blocks, or calls back) and of `Return`.
* Nuklear: weak fairness of each thread, strong fairness of taking the display, which is free again and again,
  and of a cancelled thread noticing it.
* Nothing is assumed of devices, clients, users or networks: they may be silent, and
  `poll` may never return unless cancelled.
* `Repl` and `Units` check safety only and assume nothing.

## 5. Proofs

All theorems are for every value of the constants allowed by the module's `ASSUME`
(`EvdevAssumption`, `LiSaAssumption`, `WebSocketAssumption`, `StkAssumption`, `StkTables`, `UnitsAssumption` with `AnalysAssumption`,
`FMSynthAssumption`, `TinySRAssumption` and `SoundpipeAssumption`, `LoAssumption` and `OscAssumption`,
`MachineAssumption`, `FileIOAssumption`, `ReplAssumption`, `DriversAssumption`: names distinct, bounds natural, sets of objects finite where they
are counted). They use no fairness and are about the `Spec` of the component's module. Each invariant was checked by
TLC on the run's constants before it was proved.

**InputsProofs.** One invariant for each of the three event sources, and a composition.
*Evdev*: `IInv == TypeOK /\ Position /\ Locking /\ Holding /\ Teardown`.
`Position` is `ExactlyOnce` by index: `Len(sent) = Len(log) + Len(args) - idx`, and each
element of `log`, and of `args` after `idx`, is the element of `sent` at its place; stated with indices
because provers do arithmetic better than concatenation. `Locking`: who is inside
the critical section owns the mutex; `Holding`: the reader's remembered length is still the
length; these two are why `AddStore` writes at the right slot. `Teardown`: after the join
the reader is done, and stays so.
*PortMidi*: `PInv` has the same parts without `Position`; that the vector is empty once the object is not open
(`PTeardown`) is what a late store of the thread needs.
*RtMidi*: `RInv == RTypeOK /\ RLocking /\ RTeardown /\ ROnce /\ RFraming`. `ROnce`: what was read and what is queued is
what the callback queued. `RFraming`: what it queued is an initial part of the groups the messages amount to and, while a message is
being cut (`Cutting`), the groups to come are that message's, the one in the buffer has exactly the bytes copied so far, and the
two counters agree with both. The arithmetic of groups of three is in `FramesOf`, `GroupFull` and `GroupsLeft`.
*The refinement*: the queue of `EventFifo` is what follows `idx` in Evdev's array, PortMidi's vector, RtMidi's groups. `Stored` appends to it
(`StoredIsAppend`), advancing `idx` takes its head (`PartShrinks`), clearing the array empties what is empty. Each step of the
three is then `Arrive`, `Take`, `Close` or a stutter (`FifoStep`, `PFifoStep`, `RFifoStep`). *The composition*: a
program that imports one of them leaves the others as they are, so `InputsSpec` implies each one's own specification
(`EachObject`). *Theorems*: `TypeCorrect`, `EventsExactlyOnce`, `SafeTeardown`, `EvdevIsFifo`, `PortMidiIsFifo` and, of the program,
`InputsAreFifos`, `MessagesFramed`, `WakesForWholeMessage`, `ImportedEvdevSafe`; for any number of shreds, events and messages, and
messages of any length.

**LiSaProofs.** `IInv == TypeOK /\ \A v : Good(chan[v])`, where `Good` says of a voice that
its loop ends in the buffer and that a fade that runs has a length. Without the first a position
wrapped into the loop could still be outside the buffer; every setter keeps it. The argument: `Placed` puts the position inside the loop
(`ModRange`), or `Over` stops the voice; so `trunc` is inside (`DivLower`, `DivUpper`), and
the next sample either is or is replaced by the start; in the sync modes the input decides, between the two ends
(`SyncReadsInside`). That this is in the buffer takes more, as `set_lstart` compares the start it replaces with the length and not the
new one: `Near` says that no start and no record end is past it until a call gives one that is, and with
it go the voices (`ReadsInBuffer`) and the record head, which goes back to the start of voice 0 (`WritesInBuffer`). For its gain the record head needs a third
invariant, `RecordFade` (the reciprocal belongs to the length), because the fade is only
bounded if `rec_ramplen` and its inverse change together. `BiContinuous` needs no
invariant but the types: a voice that left its loop is put back where it was, which is inside the loop, and wrapping leaves what is inside
alone (`ModSmall`, `WrappedInside`). Fades have an invariant of their own, `Fadings`: a voice fades one way at a time, its counter is
within the fade (`ReversedRange` when it turns round), and the fade is no longer than what it is scaled by. `FadeStep` says what each step can do to
a fade (leave it, take it on by a tick, begin one), so that the actions are looked at once and not again for each
property. *Theorems*: `TypeCorrect`,
`ReadsStayInside` (all three sync modes), `TicksStayInBuffer`, `RecordingNotAmplified`, `BiIsContinuous`, `FadesInRange`,
`FadesDoNotJump`: any buffer
length, resolution, number of voices, arguments and calls. `RecordingNotAmplified` has the
hypothesis of the property: the loop the record head goes back to is not empty. `FadesInRange` is the first half of
`FadeTurnsSmoothly`. Its second half, equality of the gains, is only true of lengths that divide the counters, because the model's counters
are integers and `Reversed` takes a quotient; the run's do. `FadesDoNotJump` says what is so for all: the gains differ by less than
one unit of the new fade's counter.

**WebSocketProofs.** `IInv == TypeOK /\ Locking /\ Numbered`. `Numbered` says that the wire
is messages 1, 2, 3, ... in order, that the queue continues where the walk of the thread
began, and that as many were freed as written; `Locking` that the VM cannot add while the thread
walks. `FreedOnce` (injectivity) is a consequence and is not inductive by itself.
*Theorems*: `TypeCorrect`, `StringsToOneClient`, `StringsFreedOnce`.

**UnitsProofs.** *Stk*: `IInv == Typed /\ Owned /\ Kept /\ Fresh /\ TicksItself /\ LostByStatic /\ fault # "twice"`.
`DeletedOnce` speaks of the set of objects that hold a pointer; the invariant says it by pointers: one
that is not null is alive and nobody else's (`Owned`), and what is alive has an owner (`Kept`). It is not
inductive without `Fresh`: an object that was not constructed has no pointer the constructor
could lose, and no tick. `LostByStatic` carries the exception: only a static constructor of a class that
has a constructor as well overwrites a pointer. There is one lemma per action that changes pointers (`CtorIInv`,
`StaticIInv`, `DtorIInv`) and one for all that do not (`OtherIInv`); a destructor that runs twice on
one pointer is where `fault # "twice"` is used, as the first clears it. `SafeWithoutMisuse` is about the Voicer, which keeps pointers
it does not count: `Safe` says that each is a live object's and that only a Voicer not yet past its own destructor
(`Playing`) keeps any; so an object that is dropped while it is kept is marked, and nothing else can make a tick read what is gone. It uses three
facts of the declarations (`StkTables`): a class that can be constructed makes its object, no class extends Voicer, and only the
misdeclared functions have nothing behind them that reads what the call gives. They have no parameters and TLC computes them; they are
not proved. *Theorems*: `SpecDeletedOnce`, `SpecTicksItself`, `SpecSafeWithoutMisuse`, for any number of objects of any of the 75
classes, derived ones included, and `ImportedStk`, the same of a program that may import any of the plug-ins of `Units`.
*Soundpipe*, through the instance of `Units`: `SpInv == SpTyped /\ SpStages /\ SpBalance /\ SpPlaced /\ SpClean`. `RefsBalanced` is not
inductive: an object that counts no reference may still have its table, which a generator or a later release would
destroy again. `SpBalance` says the count by what refers to an object (`Own`, `Elements`); `SpPlaced` where each table of
the library is: in one object, destroyed, or spilled; `SpStages` ties what is kept to `is_init`; `SpClean`, which only a program
that did nothing questionable keeps, that what is counted has its table and what the library was given is kept for it
by the unit itself, through the array, or for ever. A release is the same everywhere: `ReleaseBalances` (the elements of the
array go with its last reference), `ReleaseSafe`, `ReleasePlaces`; so is a generator (`Generates`, with `RefusedPlaces`,
`NewPlaces`, `ScramblerPlaces`). How often an object is in a list is a cardinality: `TimesType`, `TimesFew`,
`TimesReplaced`. *Theorems*: `TablesAreAccounted`, `SoundpipeIsSafe`, for any finite set of tables, any bounds and all units. Of the
tables of units they use two facts, that `init`'s arguments are sequences and that the one unit which
counts and never gives back takes no array; `SoundpipeAssumption` states them and TLC evaluates them on the tables.
*Analys*: `Follows` says of a ring, by index, that it holds the last samples (`Place` is where the i-th oldest is); a tick
overwrites the oldest (`AddFollows`) and `sp_buffer_get` unrolls it (`GetsLast`). `ModTwice` is the remainder when one
subtraction is enough. For safety it must be known that no two FFTs have one spectrum (`SpectraApart`), so that what a release or
an `init` frees is nobody else's (`Recounted`, `FftInitAnaInv`). *Lsys*: `Playhead` says that the item expected is the one after `at`; it
makes the second half of `PlaysGeneration` follow from the first (`ParsedAsMeant`), which is a fold over the text and left to
TLC. *FMSynth*: `FmInv`, exactly one synthesizer of those made is not freed while the object lives. *TinySR*: `SrBlock`, the block
continues what was recognised. *Theorems*: `AnalysTransformsLast`, `AnalysIsSafe`, `LsysPlaysInOrder`, `FMSynthIsSafe`,
`TinySRIsRight`; and of the composition `UnitsAreSafe` (`UnitsSafe` with any plug-in but Lsys) and `UnitsComputeRight` (`UnitsCompute`, of
an L-system under `ParsedAsMeant`).

**OscProofs.** `IInv == LoInv /\ Sent`, `LoInv == Typed /\ Referred /\ Listed /\ Walking /\ Known /\ Sorted /\
Queued /\ Held`. `ServerCounted` only needs that nothing has a reference while the server stops (`Referred`), and that
the live objects are finitely many. `InOrderOnce` is far from inductive: a message could be pushed twice on one
object, by a list with repeats or because the object is added while the handler walks. `Listed` excludes the
first; `Walking` says that whoever has the message already stands before the handler's place in the list, so an object
added now comes after it (`PushedIsNew`). It also needs that a method is freed under its handler only while the server
stops, when the VM adds nothing. `LaterArgsHeld` compares a count with a number of objects while the count has up to three copies: the word, what the
handler has read of it and what the VM has. `Held` says that each of the three would be `Enough`, as either thread may write its
own next: a release that is lost keeps an argument too long, and a count that is lost is made up for by the client it was
counted for, of whom the bound has one more (`IncrementHeld`, `PutHeld`, `GetHeld`). `Due` is the reference the handler has counted and not yet
pushed. `CountsChange` says how two cardinalities change when a vector is dropped, taken in hand or queued. A vector that is taken in hand leaves the
queue for good only if the queue has it once (`QueueDistinct`), which comes from `Sorted` and `Queued`. `Sent`: what is in the block
is what was added, until it moves; `Int32Exact` is the arithmetic. *Theorems*: `SpecServerCounted`, `SpecInOrderOnce`,
`SpecLaterArgsHeld`, `SpecSentAsAdded`, for any finite set of objects, any methods, integers and messages, over the network of
`Osc` (lost, repeated and reordered messages).

**MachineProofs.** `ThreadsSafe` and `NumbersUnique` are inductive with the types (`Typed`) and `Copied`, that the
passes a check puts back are never its own; the former because a
thread's shred is `parked` from the call to the broadcast (`Busy`). `LinesOnceInOrder` counts (one
read *or* one holder for each line); the invariant says it by places: a line below `pos` is got at some place or held by some
shred, no two places have one line, nobody holds what was got, and what a shred holds is newer than all it got. `HeldIsOnce`
turns the places back into the two cardinalities. *Theorems*: `SpecThreadsSafe`, `SpecLinesOnceInOrder`,
`SpecNumbersUnique`, for any number of shreds and lines.

**ReplProofs.** `IInv == Typed /\ NamesUnique /\ OncePerLine /\ OnePushed`: that no line is compiled twice needs to be
known to be not yet compiled while it is typed and read. *Theorems*: `SpecNamesUnique`, `SpecStackBalanced`.

**OutputsProofs.** *Drivers*: `IInv` says of the block that is being filled what `SamplesPlaced` says of what was played: the
frames before `frame` hold their tick's samples where the driver's layout puts them (`Placed`), and all that was played is from
before the block (`Played`, `Before`). The arithmetic is in lemmas of its own: two places `i * w + c` of frames and channels that
are equal have the same frame and channel (`PlaceUnique`), and a place of a frame in the block is inside it
(`Placement`). For `DelIsSafe`, which is about the step of `del`, the invariant knows what each driver may have open at all (`held \subseteq
Openable`), what it has for certain when it runs (`Kept`) and that nothing runs after `del`. *Theorems*: `SpecSamplesPlaced`, `SpecDelIsSafe`, for every
driver, any numbers of channels and any length of a block.
*Windows*: `WindowsInv` is the types of the tree and of the threads (`TreeTyped`, `ThreadsTyped`) with two parts that hold
until something bad is read, `Counted` and `Walked`, and one, `Rooted`, that holds until a shred does one of the things `WidgetsSafe` excepts. `Counted`: the references of a widget are its variable, its places in lists
of widgets and its places in panels' lists. The sums are cardinalities of finite sets of places, and the lemmas on them say what a
place more (`OneMorePlace`, `PutAtEnd`, `NewList`) and the places of one list less (`FewerPlaces`, `Emptied`) do to the count. It is not
inductive alone: a thread walks lists that shreds add to and drop from without a lock. `Walked` says that a walk
is in its panel's list or in the list of a group that was put in some list; that list counts it, and what a dropped group held
stays counted for ever (`group_dtor` releases the vector and not the widgets, `Nuklear/nuklear.c:412`), so a list under a thread is not freed (`CountedIsThere`,
`MetIsThere`). `Rooted` is about the two pointers nobody counts: the last group of `begin` and a group's parent
are there, until they are misused. A new widget is in no list (`NewIsNowhere`), so the three ways `New` can put it
somewhere only lengthen lists (`Grown`); what is released goes in one way for `begin`, a variable that ends and a
joined thread (`Released`). *Theorems*: `OutputsWidgetsSafe`, for any panels, widgets, calls and lengths of lists;
`OutputsAreBoth`, that the program with a driver beside the windows behaves as each alone, and with it `OutputsSamplesPlaced` and
`OutputsDelIsSafe` of the specification the run checks.

**Only model-checked.** Liveness (`DrainsDeliver`, `VMsNeverStuck`, `VMStuckOnlyInDtor`, `StopEnds`,
`VoicesEnd`, `Drains`, `DtorEnds`, `ComesBack`, `Stops`, `WindowsDrawn`, and `ReadsIncoming`, which fails): fairness and
`ENABLED` are out of the prover's reach, as is induction over data (what Lsys makes of a text: `ParsedAsMeant`, and
the conjunct of `UnitsSafe` that says the parser and the expansion stay inside the text and the table). `FadeTurnsSmoothly` as an
equality depends on the constants (above). `UnitsAgree` compares tables that are no parameters: once its first states are looked at there is nothing
more to prove. No module declares a `RECURSIVE` operator.

## 6. Where the code and its words differ

With a run: `lisa_ticks`, `rtmidi_reads`, `osc_get`, `repl_cancel` (section 3).

Modelled as the code has it, without a run of its own:

| where | what |
|---|---|
| `LiSa/lisa.c:400` | a record position other than 0 raises an exception: its bits are taken for a voice number |
| `LiSa/lisa.c:417` | `set_lstart` compares the old start with the length |
| `LiSa/lisa.c:170` | in the sync modes a voice at the end of the buffer reads the sample after the extra one |
| `LiSa/lisa.c:476` | a record end past the buffer is accepted, and recording then writes there |
| `RtMidi/rtmidi.cc:132` | `connect` adds to a vector before the test that would make it |
| `PortMidi/portmidi.c:117` | the vector is released before the thread is asked to stop, and nobody joins |
| `Lo/lo.c:347` | a destroyed object stays on the methods' client lists |
| `Lo/lo.c:78` | the `=>` operators add to a copy of the structure: once the block moved, what is sent is not what was added |
| `Lo/lo.c:271`, `:28` | two threads count an argument's references without a lock: with three clients one can be freed too early |
| `Repl/repl.c:202` | the prompt keeps the context that was unloaded |
| `Repl/repl.c:205` | the remove key ends a line and removes nothing |
| `FileIO/fileio.c:38` | the last character of a line is cut, newline or not (abstracted) |
| `FileIO/fileio.c:56` | writing the empty string is an error |
| `Machine/machine.c:79` | `replace` raises an exception when there is no such shred, reads the name or the code in the shred that raised it and compiles all the same |
| `RtMidi/rtmidi.cc:102` | the destructor of an object whose library object could not be made takes a mutex that was not |
| `Alsa/alsa.c:43` | a capture that could not be opened is taken to be open, with the handle of playback |
| `PortAudio/portaudio.c:88` | `del` stops a stream that may never have been opened |
| `Soundpipe/soundpipe.c:2803` | `gen_padsynth` and `nsmp_init` count references nobody gives back |
| `STK/stk.cc:557` | an object of a derived class is wired with a null pointer |
| `Analys/analys.c:450` | an FFT that is not initialised is released though it was not counted |
| `Analys/analys.c:256` | Rolloff looks through twice the spectrum, and past it with a percent of a hundred or more |
| `FMSynth/fmsynth.c:121` | `load` leaves name and author pointing into its own frame |
| `Soundpipe/soundpipe.c:2110` | null tables, arrays and names are looked into unasked, as in `Lsys/plug.c:72`, `FMSynth/fmsynth.c:101`, `TinySR/tinysr.c:101` |
| `FMSynth/fmsynth.c:133` | `save` writes where an uninitialised pointer points to |
| `Lsys/lsys.c:176` | a symbol without a rule becomes nothing, `:` and upper case letters are other symbols' entries |

Met, and outside what is modelled: `Machine/machine.c:43` reads values at an offset its sibling
does not have; the portaudio driver sets its sample format twice; `gw_nk_shutdown` reads the panel's
context after it was freed (`Nuklear/nuklear.c:287`); `end` of a panel with no `begin` takes the last of an empty vector; the
tests of Soundpipe call `gen_sine`, which `Soundpipe/soundpipe.c:7508` imports as `_gen_sine`; `K/gwk.c:70`
copies the data where the labels are meant, and `kmeans_refine` is declared with six parameters in `K/k.h` and defined with five
(`K/k.c:66`).

## 7. Not modelled

*The VM and the compiler* are not in the repository. *Stateless bindings* (Std, Math, Term,
Vecx, Emoji, ...) are one call of a library. *Floating point* (what units compute, Analys'
features, K's clusters) is arithmetic TLC and TLAPS do not have. *Compile-time
typing* (Tuple, FFI) depends on the compiler. *Generators of code and templates* (faust2gw and what it
leaves behind) are text. Inside modelled plug-ins: getters that read one field, the panning and gain of
LiSa, MidiOut and RtMidiOut, FC of Analys, the values Nuklear's widgets show and the broadcasts of a
change. `PROJECT.json` gives the reason for each component.

## 8. Plan

1. **Done.** What several actors share: `Inputs`, `Osc`, `WebSocket`, `Machine` with `FileIO`, `Outputs` (`Drivers`,
   `Nuklear`). Protocols of one actor: `Repl`, `Units` (`Soundpipe`, `Stk`, `FMSynth`, `TinySR`). Algorithms: `LiSa`, `Lsys`,
   `Analys`. Proofs for the event sources (with their refinement), LiSa, WebSocket, Lo and Osc, Machine, Repl, the
   drivers, the windows and the plug-ins of `Units`: every safety property a run checks and that is not about data (section 5).
2. **Theorems**: that Lsys' parser and its expansion stay inside the text and the table, which needs induction over the text.
3. **Others**: FC of Analys (features counted, and released with the collector), SinOsc of Modules, Sporth's tables,
   Cytosol's runners, the loaders of LinuxSampler, Pd and K, CoreUtil's `mkdir -p` and `cp`.
