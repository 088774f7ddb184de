------------------------------ MODULE Drivers ------------------------------
(***************************************************************************)
(* The audio drivers (Alsa, Jack, Pipewire, PortAudio, Pulseaudio, Sndfile *)
(* and WebSocket/server.c): each has a function that opens the device, one *)
(* that runs until is_running is reset, and one that closes what is open.  *)
(* A driver makes the sound of one block of frames, a tick of the virtual  *)
(* machine for each, either in its own loop or, for Jack, PortAudio and    *)
(* Pipewire, in a callback of the library's thread.                        *)
(*                                                                         *)
(* The machine that calls the three functions is external: run is called   *)
(* when ini succeeded (or not at all: the machine may have nothing to do), *)
(* del always.  A sample is the number of the tick and the channel it is   *)
(* from; those of the input are left out, but not the size of the block    *)
(* they are put in.  The locations of a block are numbered as it lies in   *)
(* memory, those of planar buffers one channel after the other.            *)
(***************************************************************************)
EXTENDS Integers, Sequences, FiniteSets, SequencesExt

CONSTANTS Frames,     \* frames of a block (512, 256, 1024 ...)
          Channels,   \* the numbers of channels the machine may have
          MaxBlocks   \* bound: number of blocks

ASSUME DriversAssumption ==
  /\ Frames \in Nat \ {0}
  /\ Channels \subseteq Nat
  /\ MaxBlocks \in Nat

(* "alsa_n" is alsa built with the access that is not interleaved. *)
Loops == {"alsa", "alsa_n", "sndfile", "pulseaudio", "websocket"}
Callbacks == {"jack", "portaudio", "pipewire"}
Planar == {"alsa_n", "websocket", "jack", "pipewire"}

VARIABLES
  driver,   \* the driver the machine uses
  in, out,  \* di->si->in and di->si->out
  phase,    \* "new", "failed", "ready", "runs", "returned" or "deleted"
  running,  \* di->is_running
  data,     \* di->driver->data is set
  held,     \* what is open or allocated
  cb,       \* the library calls the callback
  quit,     \* pw_main_loop_quit was called
  frame,    \* the frame the block is at; -1 between blocks
  block,    \* the output block, as a function of its locations
  pos,      \* the number of ticks of the machine
  blocks,   \* number of blocks made
  played,   \* history: the frames the device got
  fault     \* the first bad access, or "none"

config == <<driver, in, out>>
sound == <<frame, block, pos, blocks, played>>
vars == <<config, phase, running, data, held, cb, quit, sound, fault>>

Silence == <<0, 0>>

Init == /\ driver \in Loops \cup Callbacks
        /\ in \in Channels
        /\ out \in Channels
        /\ phase = "new"
        /\ running = TRUE
        /\ data = FALSE
        /\ held = {}
        /\ cb = FALSE
        /\ quit = FALSE
        /\ frame = -1
        /\ block = <<>>
        /\ pos = 0
        /\ blocks = 0
        /\ played = <<>>
        /\ fault = "none"

-----------------------------------------------------------------------------
(* The layout of the blocks                                                *)

(* The channels the device was opened with. *)
Width == IF driver \in {"portaudio", "websocket"} THEN 2 ELSE out

Size == Frames * Width

(* Mutant: the output is placed by the number of inputs. *)
OutAtByIn(i, c) ==
  IF driver \in Planar THEN c * Frames + i
  ELSE IF driver = "sndfile" THEN 2 * i + c
  ELSE i * in + c

(* Where a driver puts the sample of channel c of frame i ... *)
OutAt(i, c) ==
  IF driver \in Planar THEN c * Frames + i
  ELSE IF driver = "sndfile" THEN 2 * i + c
  ELSE i * out + c

(* ... and where the device takes it from. *)
DeviceAt(i, c) ==
  IF driver \in Planar THEN c * Frames + i ELSE i * Width + c

(* The channels a driver copies: websocket has two, however many there are.*)
Copied == IF driver = "websocket" THEN 0 .. 1 ELSE 0 .. out - 1

-----------------------------------------------------------------------------
Alive == fault = "none"

(* What ini opens.  (What it does not notice is in IniUnnoticed.)          *)
Opened ==
  CASE driver \in {"alsa", "alsa_n"} -> {"info", "playback", "capture"}
    [] driver = "sndfile" -> {"file"}
    [] driver = "pulseaudio" -> {"info"} \cup (IF in > 0 THEN {"record"} ELSE {})
                                         \cup (IF out > 0 THEN {"play"} ELSE {})
    [] driver = "websocket" -> {"context"}
    [] driver = "jack" -> {"info", "client"}
    [] driver = "portaudio" -> {"info", "library", "stream"}
    [] driver = "pipewire" -> {"data", "loop", "filter"}

Ini == /\ Alive
       /\ phase = "new"
       /\ phase' = "ready"
       /\ data' = TRUE
       /\ held' = Opened
       /\ UNCHANGED <<config, running, cb, quit, sound, fault>>

(* Something does not open.  Alsa opens playback, then capture, and does   *)
(* not close a handle whose parameters are refused; one stream of          *)
(* pulseaudio is opened whatever became of the other; portaudio ends the   *)
(* library again; jack sets the data last.                                 *)
LeftOpen ==
  CASE driver \in {"alsa", "alsa_n"} ->
         {{"info"} \cup o : o \in {{}, {"stray"}, {"playback"}, {"playback", "stray"}}}
    [] driver = "pulseaudio" -> {h \in SUBSET Opened : "info" \in h /\ h # Opened}
    [] driver = "websocket" -> {{}}
    [] driver = "jack" -> {{"info"}, {"info", "client"}}
    [] driver = "portaudio" -> {{"info"}}
    [] OTHER -> {}

IniFails == /\ Alive
            /\ phase = "new"
            /\ phase' = "failed"
            /\ data' = (driver \notin {"jack", "websocket"})
            /\ held' \in LeftOpen
            /\ UNCHANGED <<config, running, cb, quit, sound, fault>>

(* Something does not open and ini does not notice.  The writes of sndfile *)
(* go nowhere.  A negative result of alsa's second open passes for a good  *)
(* one, as the static handle is still that of the first: playback is also  *)
(* the capture.                                                            *)
IniUnnoticed == /\ Alive
                /\ phase = "new"
                /\ \/ driver = "sndfile" /\ UNCHANGED <<data, held>>
                   \/ /\ driver \in {"alsa", "alsa_n"}
                      /\ data' = TRUE
                      /\ held' = {"info", "playback"}
                /\ phase' = "ready"
                /\ UNCHANGED <<config, running, cb, quit, sound, fault>>

(* run: the blocks are allocated, or the callback is set off.  The rows of *)
(* alsa's planar output are counted by the inputs, and those of its input  *)
(* by the outputs.                                                         *)
Run == /\ Alive
       /\ phase = "ready"
       /\ phase' = "runs"
       /\ held' = held \cup (CASE driver \in {"alsa", "alsa_n", "pulseaudio"} -> {"blocks"}
                               [] driver = "pipewire" -> {"ports"}
                               [] OTHER -> {})
       /\ cb' = (driver \in Callbacks)
       /\ fault' = IF driver = "alsa_n" /\ in # out THEN "bounds" ELSE fault
       /\ UNCHANGED <<config, running, data, quit, sound>>

(* jack_activate or pw_filter_connect fails, or jack has too few ports to  *)
(* connect to: run returns, in the last case with the callback set off.    *)
RunFails == /\ Alive
            /\ phase = "ready"
            /\ driver \in {"jack", "pipewire"}
            /\ phase' = "returned"
            /\ held' = held \cup (IF driver = "pipewire" THEN {"ports"} ELSE {})
            /\ cb' \in {FALSE, driver = "jack"}
            /\ UNCHANGED <<config, running, data, quit, sound, fault>>

-----------------------------------------------------------------------------
(* One block                                                               *)

Begins == /\ Alive
          /\ frame = -1
          /\ blocks < MaxBlocks
          /\ frame' = 0
          /\ blocks' = blocks + 1
          /\ block' = [l \in 0 .. Size - 1 |-> Silence]

(* A turn of a loop: pulseaudio reads the inputs into a block as large as  *)
(* that of the outputs; for websocket, a client can be written to.         *)
LoopBegin == /\ driver \in Loops
             /\ phase = "runs"
             /\ running
             /\ Begins
             /\ fault' = IF driver = "pulseaudio" /\ in > out THEN "bounds" ELSE fault
             /\ UNCHANGED <<config, phase, running, data, held, cb, quit, pos, played>>

(* The read fails: run returns at once. *)
ReadFails == /\ Alive
             /\ driver = "pulseaudio"
             /\ "record" \in held
             /\ phase = "runs"
             /\ running
             /\ frame = -1
             /\ phase' = "returned"
             /\ UNCHANGED <<config, running, data, held, cb, quit, sound, fault>>

(* Only pipewire looks at is_running before the block ... *)
CbBegin == /\ cb
           /\ driver = "pipewire" => running
           /\ Begins
           /\ UNCHANGED <<config, phase, running, data, held, cb, quit, pos, played, fault>>

(* Mutant: the callback does nothing when the machine has stopped. *)
CbQuitNot == /\ Alive
             /\ cb
             /\ frame = -1
             /\ driver = "pipewire"
             /\ ~running
             /\ UNCHANGED vars

(* ... and ends the loop that run is in. *)
CbQuit == /\ Alive
          /\ cb
          /\ frame = -1
          /\ driver = "pipewire"
          /\ ~running
          /\ quit' = TRUE
          /\ UNCHANGED <<config, phase, running, data, held, cb, sound, fault>>

(* A frame: the machine runs one tick, which may be its last, and its      *)
(* output is copied.  Only jack looks at is_running before each.           *)
Tick == /\ Alive
        /\ frame \in 0 .. Frames - 1
        /\ driver = "jack" => running
        /\ running' \in {running, FALSE}
        /\ pos' = pos + 1
        /\ frame' = frame + 1
        /\ block' = [l \in DOMAIN block |->
             LET from == {c \in Copied : OutAt(frame, c) = l}
             IN  IF from = {} THEN block[l] ELSE <<pos + 1, CHOOSE c \in from : TRUE>>]
        /\ fault' = IF phase = "deleted" THEN "machine"
                    ELSE IF \E c \in Copied : OutAt(frame, c) >= Size \/ c >= out
                    THEN "bounds" ELSE fault
        /\ UNCHANGED <<config, phase, data, held, cb, quit, blocks, played>>

Done == frame = Frames \/ (driver = "jack" /\ ~running /\ frame >= 0)
Taken == [n \in 1 .. Frames |-> [c \in 0 .. Width - 1 |-> block[DeviceAt(n - 1, c)]]]

(* The block goes to the device ... *)
Write == /\ Alive
         /\ Done
         /\ frame' = -1
         /\ block' = <<>>
         /\ played' = played \o Taken
         /\ UNCHANGED <<config, phase, running, data, held, cb, quit, pos, blocks, fault>>

(* ... or is lost: alsa prepares the device again, pulseaudio ends,        *)
(* sndfile and websocket do not look.                                      *)
WriteFails == /\ Alive
              /\ driver \in Loops
              /\ Done
              /\ frame' = -1
              /\ block' = <<>>
              /\ IF driver = "pulseaudio" /\ out > 0
                   THEN phase' = "returned" /\ held' = held \ {"blocks"}
                   ELSE UNCHANGED <<phase, held>>
              /\ UNCHANGED <<config, running, data, cb, quit, pos, blocks, played, fault>>

-----------------------------------------------------------------------------
(* Something else ends the machine: a signal, jack's server, a shred. *)
Stop == /\ Alive
        /\ running
        /\ running' = FALSE
        /\ \/ quit' = quit
           \/ driver = "pipewire" /\ quit' = TRUE
        /\ UNCHANGED <<config, phase, data, held, cb, sound, fault>>

(* run returns.  pulseaudio frees both blocks if there is an output.       *)
Return == /\ Alive
          /\ phase = "runs"
          /\ IF driver = "pipewire" THEN quit ELSE ~running
          /\ driver \in Loops => frame = -1
          /\ phase' = "returned"
          /\ held' = IF driver = "pulseaudio" /\ out > 0 THEN held \ {"blocks"} ELSE held
          /\ UNCHANGED <<config, running, data, cb, quit, sound, fault>>

(* del waits for the callback, and no other call of it follows.  What was  *)
(* never set is used: portaudio's stream when ini failed, and pipewire's   *)
(* ports when run did not run; and a handle that alsa has for both is      *)
(* closed twice.                                                           *)
Closed ==
  CASE driver \in {"alsa", "alsa_n"} -> {"info", "playback", "capture", "blocks"}
    [] driver = "sndfile" -> {"file"}
    [] driver = "pulseaudio" -> IF data THEN {"info", "record", "play"} ELSE {}
    [] driver = "websocket" -> {"context"}
    [] driver = "jack" -> IF data THEN {"info", "client"} ELSE {}
    [] driver = "portaudio" -> {"library", "stream"}
    [] driver = "pipewire" -> {"data", "loop", "filter", "ports"}

Unset == \/ driver = "portaudio" /\ "stream" \notin held
         \/ driver = "pipewire" /\ "ports" \notin held

OneHandle == driver \in {"alsa", "alsa_n"} /\ phase # "failed" /\ "capture" \notin held
DelFault == IF Unset THEN "unset" ELSE IF OneHandle THEN "twice" ELSE fault

(* Mutant: the callback goes on. *)
DelGoesOn == /\ Alive
             /\ phase \in {"failed", "ready", "returned"}
             /\ phase' = "deleted"
             /\ held' = held \ Closed
             /\ fault' = DelFault
             /\ UNCHANGED <<config, running, data, cb, quit, sound>>

Del == /\ Alive
       /\ phase \in {"failed", "ready", "returned"}
       /\ frame = -1
       /\ phase' = "deleted"
       /\ cb' = FALSE
       /\ held' = held \ Closed
       /\ fault' = DelFault
       /\ UNCHANGED <<config, running, data, quit, sound>>

-----------------------------------------------------------------------------
Sounds == LoopBegin \/ ReadFails \/ CbBegin \/ CbQuit \/ Tick \/ Write \/ WriteFails
Next == Ini \/ IniFails \/ IniUnnoticed \/ Run \/ RunFails \/ Sounds \/ Stop \/ Return \/ Del

(* The device takes blocks and, for the callbacks, asks for them. *)
Fairness == WF_vars(Sounds) /\ WF_vars(Return)

Spec == Init /\ [][Next]_vars /\ Fairness

-----------------------------------------------------------------------------
(* The numbers of channels a driver is right for.                          *)
Fits ==
  CASE driver = "alsa_n" -> in = out
    [] driver = "pulseaudio" -> in <= out
    [] driver \in {"sndfile", "portaudio", "websocket"} -> out = 2
    [] OTHER -> TRUE

TickOf(f) == f[0][1]

(* With numbers of channels that fit the driver, no block is written past  *)
(* its end, and each frame the device gets is one tick's, every channel in *)
(* its place, in the order of the ticks; a frame without a tick only comes *)
(* after the end (alsa.c:147-185, sndfile.c:32-44, pulseaudio.c:51-70,     *)
(* jack.c:29-56, portaudio.c:18-34, pw.c:42-63, server.c:14-26).           *)
SamplesPlaced ==
  Fits =>
    /\ fault # "bounds"
    /\ out > 0 =>
         /\ \A n \in DOMAIN played : \A c \in 0 .. out - 1 :
              played[n][c] = IF played[n][0] = Silence THEN Silence ELSE <<TickOf(played[n]), c>>
         /\ \A m, n \in DOMAIN played : m < n => \/ TickOf(played[m]) < TickOf(played[n])
                                                 \/ played[n][0] = Silence /\ ~running

(* What del is wrong about: portaudio's ini failed, pipewire's run was     *)
(* never called, or alsa took playback for the capture.                    *)
Excused ==
  \/ driver = "portaudio" /\ phase = "failed"
  \/ driver = "pipewire" /\ phase = "ready"
  \/ OneHandle

LeftByDel ==
  CASE driver \in {"alsa", "alsa_n"} -> {"stray"}
    [] driver = "portaudio" -> {"info"}
    [] driver = "pulseaudio" -> {"blocks"}
    [] OTHER -> {}

(* The machine does not run after del.  Whatever failed before, del closes *)
(* nothing twice and nothing that was not opened, but when portaudio's ini *)
(* failed, when pipewire's run was never called, and when the capture of   *)
(* alsa did not open with a negative result (alsa.c:43); and once the data *)
(* was set, all that was opened is closed, but for portaudio's own         *)
(* structure, the blocks of pulseaudio and a handle alsa could not use     *)
(* (alsa.c:218-234, pulseaudio.c:80-89, jack.c:147-156,                    *)
(* portaudio.c:86-90, pw.c:138-149).                                       *)
DelIsSafe ==
  /\ [](fault # "machine")
  /\ [][phase # "deleted" /\ phase' = "deleted" =>
          /\ fault' # "none" => Excused
          /\ data => held' \subseteq LeftByDel]_vars

(* Once the machine has stopped, run returns, although only the callback   *)
(* can tell pipewire's loop so (pw.c:48-51, and the loops of the others).  *)
Stops == phase = "runs" /\ ~running ~> phase # "runs" \/ ~Alive

=============================================================================
