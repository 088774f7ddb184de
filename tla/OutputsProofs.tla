--------------------------- MODULE OutputsProofs ---------------------------
(***************************************************************************)
(* Proofs about Outputs.  Of the drivers, for any number of frames of a    *)
(* block, any numbers of channels and blocks, and each of them: every      *)
(* sample is put where the device takes it from, in order, and del is      *)
(* safe.  Of the windows, for any number of panels, widgets and calls: no  *)
(* thread meets a widget that was freed.                                   *)
(*                                                                         *)
(* What the device got says nothing of the block that is being made:       *)
(* Placed says which samples are in it, by the number of the tick that the *)
(* machine is at, and Played that those the device has come before.  That  *)
(* no sample overwrites another is arithmetic: a place in a block of rows  *)
(* is that of one row and one column.                                      *)
(*                                                                         *)
(* The threads of the windows walk the tree without a lock while it grows  *)
(* and is pruned.  They are safe because every list they are in was put in *)
(* another, which holds a reference for ever or as long as the panel is    *)
(* there: WindowsInv counts the references by the places of the lists, and *)
(* says that a walk is only where such a place leads.                      *)
(***************************************************************************)
EXTENDS Outputs, SequenceTheorems, FiniteSetTheorems, TLAPS

Sample == Nat \X Nat

Typed ==
  /\ driver \in Loops \cup Callbacks
  /\ in \in Nat /\ out \in Nat
  /\ running \in BOOLEAN
  /\ pos \in Nat
  /\ frame \in -1 .. Frames
  /\ frame <= pos
  /\ frame # -1 => block \in [0 .. Size - 1 -> Sample]
  /\ played \in Seq([0 .. Width - 1 -> Sample])

(* The last tick of the blocks that are done. *)
Before == IF frame = -1 THEN pos ELSE pos - frame

(* The samples of the ticks of this block are in their places. *)
Placed ==
  Fits /\ out > 0 /\ frame # -1 =>
    \A i \in 0 .. Frames - 1, c \in 0 .. out - 1 :
      block[OutAt(i, c)] = IF i < frame THEN <<Before + i + 1, c>> ELSE Silence

(* A frame is one tick's, or none's when the machine has stopped. *)
IsSilent(f) == \A c \in 0 .. out - 1 : f[c] = Silence
IsTick(f, t) == \A c \in 0 .. out - 1 : f[c] = <<t, c>>

Played ==
  Fits /\ out > 0 =>
    /\ \A n \in DOMAIN played : \/ IsSilent(played[n]) /\ ~running
                                \/ \E t \in 1 .. Before : IsTick(played[n], t)
    /\ \A m, n \in DOMAIN played :
         m < n => \/ TickOf(played[m]) < TickOf(played[n])
                  \/ IsSilent(played[n]) /\ ~running

(* What a driver may have open; and what is closed after del. *)
Openable ==
  CASE driver \in {"alsa", "alsa_n"} -> {"info", "playback", "capture", "blocks", "stray"}
    [] driver = "sndfile" -> {"file"}
    [] driver = "pulseaudio" -> {"info", "record", "play", "blocks"}
    [] driver = "websocket" -> {"context"}
    [] driver = "jack" -> {"info", "client"}
    [] driver = "portaudio" -> {"info", "library", "stream"}
    [] driver = "pipewire" -> {"data", "loop", "filter", "ports"}

Deleted == phase = "deleted" => frame = -1 /\ ~cb

(* The machine does not run after del, and what del closes was opened      *)
(* unless it is excused: portaudio has its stream once ini succeeded, and  *)
(* pipewire its ports once run was called.                                 *)
Kept ==
  /\ fault # "machine"
  /\ driver = "portaudio" /\ phase \in {"ready", "runs", "returned"} => "stream" \in held
  /\ driver = "pipewire" /\ phase \in {"runs", "returned"} => "ports" \in held
  /\ driver = "pipewire" => phase # "failed"

IInv ==
  /\ Typed
  /\ Placed
  /\ Played
  /\ held \subseteq Openable
  /\ Deleted
  /\ Kept
  /\ Fits => fault # "bounds"

-----------------------------------------------------------------------------
(* The places of a block of n rows of w are those of one row and column.   *)
LEMMA PlaceInBounds ==
  ASSUME NEW n \in Nat, NEW w \in Nat, NEW i \in 0 .. n - 1, NEW c \in 0 .. w - 1
  PROVE  i * w + c \in 0 .. n * w - 1
<1>1. i * w <= (n - 1) * w
  BY SMT
<1>2. (n - 1) * w = n * w - w
  BY SMT
<1>3. i * w \in Nat /\ n * w \in Nat
  BY SMT
<1> QED
  BY <1>1, <1>2, <1>3

(* Two places of frames and channels that are the same have the same frame *)
(* and the same channel.                                                   *)
LEMMA PlaceUnique ==
  ASSUME NEW w \in Nat, NEW i \in Nat, NEW j \in Nat, NEW c \in 0 .. w - 1, NEW d \in 0 .. w - 1,
         i * w + c = j * w + d
  PROVE  i = j /\ c = d
<1>1. ASSUME NEW a \in Nat, NEW b \in Nat, a < b
      PROVE  a * w + w <= b * w
  <2>1. (a + 1) * w <= b * w
    BY <1>1, SMT
  <2>2. (a + 1) * w = a * w + w
    BY SMT
  <2> QED
    BY <2>1, <2>2
<1>2. i * w \in Nat /\ j * w \in Nat
  BY SMT
<1>3. ~(i < j)
  BY <1>1, <1>2
<1>4. ~(j < i)
  BY <1>1, <1>2
<1> QED
  BY <1>2, <1>3, <1>4

(* With numbers of channels that fit, a sample is put where the device     *)
(* takes it from, inside the block, and no two in one place.               *)
LEMMA Placement ==
  ASSUME Typed, Fits
  PROVE  /\ out > 0 => Width = out
         /\ Copied = 0 .. out - 1
         /\ \A i \in 0 .. Frames - 1, c \in 0 .. out - 1 :
              OutAt(i, c) = DeviceAt(i, c) /\ OutAt(i, c) \in 0 .. Size - 1
         /\ \A i, j \in 0 .. Frames - 1, c, d \in 0 .. out - 1 :
              OutAt(i, c) = OutAt(j, d) => i = j /\ c = d
<1>1. Frames \in Nat /\ out \in Nat
  BY DriversAssumption DEF Typed
<1>2. Width = out /\ Copied = 0 .. out - 1
  <2>1. driver \in {"sndfile", "portaudio", "websocket"} => out = 2
    BY DEF Fits
  <2>2. Width = out
    BY <2>1 DEF Width
  <2>3. CASE driver = "websocket"
    <3>1. out = 2 /\ out - 1 = 1
      BY <2>1, <2>3
    <3> QED
      BY <2>2, <2>3, <3>1 DEF Copied
  <2>4. CASE driver # "websocket"
    BY <2>2, <2>4 DEF Copied
  <2> QED
    BY <2>3, <2>4
<1>3. Size = Frames * out /\ Size = out * Frames
  BY <1>1, <1>2 DEF Size
<1>4. CASE driver \in Planar
  <2>1. \A i, c : OutAt(i, c) = c * Frames + i /\ DeviceAt(i, c) = c * Frames + i
    BY <1>4 DEF OutAt, DeviceAt
  <2>2. \A i \in 0 .. Frames - 1, c \in 0 .. out - 1 : c * Frames + i \in 0 .. out * Frames - 1
    BY <1>1, PlaceInBounds
  <2>3. \A i, j \in 0 .. Frames - 1, c, d \in 0 .. out - 1 :
          c * Frames + i = d * Frames + j => i = j /\ c = d
    BY <1>1, PlaceUnique
  <2> QED
    BY <1>2, <1>3, <2>1, <2>2, <2>3
<1>5. CASE driver \notin Planar
  <2>1. \A i \in 0 .. Frames - 1, c \in 0 .. out - 1 :
          OutAt(i, c) = i * out + c /\ DeviceAt(i, c) = i * out + c
    <3>1. driver = "sndfile" => out = 2
      BY DEF Fits
    <3>2. out = 2 => \A i \in 0 .. Frames - 1 : 2 * i = i * out
      BY <1>1
    <3> QED
      BY <1>2, <1>5, <3>1, <3>2 DEF OutAt, DeviceAt
  <2>2. \A i \in 0 .. Frames - 1, c \in 0 .. out - 1 : i * out + c \in 0 .. Frames * out - 1
    BY <1>1, PlaceInBounds
  <2>3. \A i, j \in 0 .. Frames - 1, c, d \in 0 .. out - 1 :
          i * out + c = j * out + d => i = j /\ c = d
    BY <1>1, PlaceUnique
  <2> QED
    BY <1>2, <1>3, <2>1, <2>2, <2>3
<1> QED
  BY <1>4, <1>5

(* Before ini nothing is open and nothing was played.                      *)
LEMMA InitIInv == Init => IInv
<1> SUFFICES ASSUME Init PROVE IInv
  OBVIOUS
<1> USE DEF Init
<1>1. Typed
  <2>1. played \in Seq([0 .. Width - 1 -> Sample])
    BY EmptySeq
  <2>2. in \in Nat /\ out \in Nat /\ -1 \in -1 .. Frames
    BY DriversAssumption
  <2>3. frame \in -1 .. Frames /\ frame <= pos /\ pos \in Nat
    BY <2>2
  <2>4. driver \in Loops \cup Callbacks /\ running \in BOOLEAN
    OBVIOUS
  <2>5. frame = -1
    OBVIOUS
  <2> QED
    BY <2>1, <2>2, <2>3, <2>4, <2>5 DEF Typed
<1>2. Placed /\ Played /\ held \subseteq Openable /\ Deleted /\ Kept
  BY DEF Placed, Played, Deleted, Kept
<1> QED
  BY <1>1, <1>2 DEF IInv

-----------------------------------------------------------------------------
(* The steps outside a block                                               *)

(* Layouts are of the driver and its channels, which do not change.        *)
LEMMA SameLayout ==
  ASSUME UNCHANGED config
  PROVE  /\ Width' = Width /\ Size' = Size /\ Fits' = Fits /\ Copied' = Copied
         /\ \A i, c : OutAt(i, c)' = OutAt(i, c) /\ DeviceAt(i, c)' = DeviceAt(i, c)
BY DEF config, Width, Size, Fits, Copied, OutAt, DeviceAt

(* What does not touch the sound leaves it in its places.                  *)
LEMMA SoundKept ==
  ASSUME Typed, Placed, Played, UNCHANGED <<config, sound>>,
         running' = running \/ running' = FALSE
  PROVE  Typed' /\ Placed' /\ Played'
<1>1. UNCHANGED <<driver, in, out, frame, block, pos, played>>
  BY DEF config, sound
<1>2. Before' = Before
  BY <1>1 DEF Before
<1>3. Typed'
  BY <1>1, SameLayout DEF Typed
<1>4. Placed'
  BY <1>1, <1>2, SameLayout DEF Placed
<1>5. Played'
  <2>1. /\ Fits' = Fits /\ out' = out /\ played' = played
        /\ ~running => ~running'
    BY <1>1, SameLayout
  <2>2. /\ \A f : IsSilent(f)' = IsSilent(f)
        /\ \A f, t : IsTick(f, t)' = IsTick(f, t)
        /\ \A f : TickOf(f)' = TickOf(f)
    BY <2>1 DEF IsSilent, IsTick, TickOf
  <2>3. ASSUME Fits, out > 0, NEW n \in DOMAIN played
        PROVE  \/ IsSilent(played[n]) /\ ~running'
               \/ \E t \in 1 .. Before : IsTick(played[n], t)
    BY <2>1, <2>3 DEF Played
  <2>4. ASSUME Fits, out > 0, NEW m \in DOMAIN played, NEW n \in DOMAIN played, m < n
        PROVE  \/ TickOf(played[m]) < TickOf(played[n])
               \/ IsSilent(played[n]) /\ ~running'
    BY <2>1, <2>4 DEF Played
  <2> QED
    BY <2>1, <2>2, <2>3, <2>4, <1>2 DEF Played
<1> QED
  BY <1>3, <1>4, <1>5

(* Each step of these, and what it does to the rest.                       *)
Outside ==
  Ini \/ IniFails \/ IniUnnoticed \/ Run \/ RunFails \/ ReadFails \/ CbQuit \/ Stop
  \/ Return \/ Del

(* Setting up, stopping and deleting a driver leave its block and what was *)
(* played alone.                                                           *)
LEMMA OutsideSound ==
  ASSUME Outside
  PROVE  /\ UNCHANGED <<config, sound>>
         /\ running' = running \/ running' = FALSE
<1> USE DEF Outside, Ini, IniFails, IniUnnoticed, Run, RunFails, ReadFails, CbQuit, Stop,
            Return, Del
<1>1. UNCHANGED <<config, sound>>
  BY DEF sound
<1>2. running' = running \/ running' = FALSE
  OBVIOUS
<1> QED
  BY <1>1, <1>2

(* After del the callback is not called, and it was between two blocks.    *)
LEMMA OutsideDeleted ==
  ASSUME Deleted, Outside
  PROVE  Deleted'
BY DEF Outside, Deleted, sound, Ini, IniFails, IniUnnoticed, Run, RunFails, ReadFails, CbQuit, Stop,
       Return, Del

(* What ini and run open is what a driver may have open.                   *)
LEMMA OpenedIsOpenable ==
  ASSUME Typed
  PROVE  /\ Opened \subseteq Openable
         /\ \A h \in LeftOpen : h \subseteq Openable
         /\ driver \in {"alsa", "alsa_n", "pulseaudio"} => "blocks" \in Openable
         /\ driver = "pipewire" => "ports" \in Openable
<1>1. CASE driver \in {"alsa", "alsa_n"}
  BY <1>1 DEF Opened, LeftOpen, Openable
<1>2. CASE driver = "sndfile"
  BY <1>2 DEF Opened, LeftOpen, Openable
<1>3. CASE driver = "pulseaudio"
  BY <1>3 DEF Opened, LeftOpen, Openable
<1>4. CASE driver = "websocket"
  BY <1>4 DEF Opened, LeftOpen, Openable
<1>5. CASE driver = "jack"
  BY <1>5 DEF Opened, LeftOpen, Openable
<1>6. CASE driver = "portaudio"
  BY <1>6 DEF Opened, LeftOpen, Openable
<1>7. CASE driver = "pipewire"
  BY <1>7 DEF Opened, LeftOpen, Openable
<1> QED
  BY <1>1, <1>2, <1>3, <1>4, <1>5, <1>6, <1>7 DEF Typed, Loops, Callbacks

(* They open only what the driver may have open.                           *)
LEMMA OutsideHeld ==
  ASSUME Typed, held \subseteq Openable, Outside
  PROVE  held' \subseteq Openable'
<1>1. Openable' = Openable
  BY OutsideSound DEF Openable, config
<1>2. CASE Run \/ RunFails
  BY <1>1, <1>2, OpenedIsOpenable DEF Run, RunFails
<1>3. CASE Ini \/ IniFails
  BY <1>1, <1>3, OpenedIsOpenable DEF Ini, IniFails
<1>4. CASE IniUnnoticed
  <2>1. driver \in {"alsa", "alsa_n"} => {"info", "playback"} \subseteq Openable
    BY DEF Openable
  <2> QED
    BY <1>1, <1>4, <2>1 DEF IniUnnoticed
<1>5. CASE ReadFails \/ CbQuit \/ Stop \/ Return \/ Del
  BY <1>1, <1>5 DEF ReadFails, CbQuit, Stop, Return, Del
<1> QED
  BY <1>2, <1>3, <1>4, <1>5 DEF Outside

(* del closes everything that its driver may have open and does not leave. *)
LEMMA ClosesAll ==
  ASSUME Typed, data
  PROVE  Openable \ Closed \subseteq LeftByDel
<1>1. CASE driver \in {"alsa", "alsa_n"}
  BY <1>1 DEF Closed, Openable, LeftByDel
<1>2. CASE driver = "sndfile"
  BY <1>2 DEF Closed, Openable, LeftByDel
<1>3. CASE driver = "pulseaudio"
  BY <1>3 DEF Closed, Openable, LeftByDel
<1>4. CASE driver = "websocket"
  BY <1>4 DEF Closed, Openable, LeftByDel
<1>5. CASE driver = "jack"
  BY <1>5 DEF Closed, Openable, LeftByDel
<1>6. CASE driver = "portaudio"
  BY <1>6 DEF Closed, Openable, LeftByDel
<1>7. CASE driver = "pipewire"
  BY <1>7 DEF Closed, Openable, LeftByDel
<1> QED
  BY <1>1, <1>2, <1>3, <1>4, <1>5, <1>6, <1>7 DEF Typed, Loops, Callbacks

(* They open the stream and the ports that del closes, and only del closes *)
(* them.                                                                   *)
LEMMA OutsideKept ==
  ASSUME Typed, Kept, Outside
  PROVE  Kept'
<1>1. driver' = driver
  BY OutsideSound DEF config
<1>2. fault' # "machine"
  BY DEF Kept, Outside, Ini, IniFails, IniUnnoticed, Run, RunFails, ReadFails, CbQuit, Stop,
         Return, Del, DelFault
<1>3. driver' = "portaudio" /\ phase' \in {"ready", "runs", "returned"} => "stream" \in held'
  <2> SUFFICES ASSUME driver = "portaudio", phase' \in {"ready", "runs", "returned"}
               PROVE  "stream" \in held'
    BY <1>1
  <2>1. Opened = {"info", "library", "stream"}
    BY DEF Opened
  <2> QED
    BY <2>1 DEF Kept, Outside, Ini, IniFails, IniUnnoticed, Run, RunFails, ReadFails, CbQuit,
                Stop, Return, Del
<1>4. driver' = "pipewire" /\ phase' \in {"runs", "returned"} => "ports" \in held'
  <2> SUFFICES ASSUME driver = "pipewire", phase' \in {"runs", "returned"}
               PROVE  "ports" \in held'
    BY <1>1
  <2> QED
    BY DEF Kept, Outside, Ini, IniFails, IniUnnoticed, Run, RunFails, ReadFails, CbQuit, Stop,
           Return, Del
<1>5. driver' = "pipewire" => phase' # "failed"
  <2>1. driver = "pipewire" => LeftOpen = {}
    BY DEF LeftOpen
  <2> QED
    BY <1>1, <2>1 DEF Kept, Outside, Ini, IniFails, IniUnnoticed, Run, RunFails, ReadFails,
                      CbQuit, Stop, Return, Del
<1> QED
  BY <1>2, <1>3, <1>4, <1>5 DEF Kept

(* Only del ends a driver, and what is at fault then is excused.           *)
LEMMA NextDel ==
  ASSUME IInv, Next, phase # "deleted", phase' = "deleted"
  PROVE  /\ fault' # "none" => Excused
         /\ data => held' \subseteq LeftByDel
<1>1. Del
  BY DEF Next, Sounds, Ini, IniFails, IniUnnoticed, Run, RunFails, LoopBegin, ReadFails, CbBegin,
         CbQuit, Tick, Write, WriteFails, Stop, Return
<1>2. fault = "none" /\ phase \in {"failed", "ready", "returned"}
  BY <1>1 DEF Del, Alive
<1>3. fault' # "none" => Unset \/ OneHandle
  BY <1>1, <1>2 DEF Del, DelFault
<1>4. Unset => Excused
  BY <1>2 DEF Unset, Excused, IInv, Kept
<1>5. data => held' \subseteq LeftByDel
  BY <1>1, ClosesAll DEF Del, IInv
<1> QED
  BY <1>3, <1>4, <1>5 DEF Excused

(* A driver whose channels fit has no bad access outside a block.          *)
LEMMA OutsideBounds ==
  ASSUME Fits => fault # "bounds", Outside
  PROVE  Fits' => fault' # "bounds"
<1>1. Fits' = Fits
  BY OutsideSound, SameLayout
<1>2. CASE Run
  BY <1>1, <1>2 DEF Run, Fits
<1>3. CASE Outside /\ ~Run
  <2>1. fault' \in {fault, "unset", "twice"}
    BY <1>3 DEF Outside, Ini, IniFails, IniUnnoticed, RunFails, ReadFails, CbQuit, Stop,
       Return, Del, DelFault
  <2> QED
    BY <1>1, <2>1
<1> QED
  BY <1>2, <1>3

(* They keep the invariant.                                                *)
LEMMA OutsideIInv ==
  ASSUME IInv, Outside
  PROVE  IInv'
BY SoundKept, OutsideSound, OutsideDeleted, OutsideHeld, OutsideKept, OutsideBounds DEF IInv

-----------------------------------------------------------------------------
(* A block                                                                 *)

(* Whatever the channels, the device takes its samples from the block.     *)
LEMMA TakenFromBlock ==
  ASSUME Typed
  PROVE  /\ Frames \in Nat /\ Width \in Nat /\ Size \in Nat
         /\ Copied \subseteq Nat
         /\ \A i \in 0 .. Frames - 1, c \in 0 .. Width - 1 : DeviceAt(i, c) \in 0 .. Size - 1
<1>1. Frames \in Nat /\ Width \in Nat /\ Copied \subseteq Nat
  BY DriversAssumption DEF Typed, Width, Copied
<1>2. Size = Frames * Width /\ Size = Width * Frames /\ Size \in Nat
  BY <1>1 DEF Size
<1>3. CASE driver \in Planar
  BY <1>1, <1>2, <1>3, PlaceInBounds DEF DeviceAt
<1>4. CASE driver \notin Planar
  BY <1>1, <1>2, <1>4, PlaceInBounds DEF DeviceAt
<1> QED
  BY <1>1, <1>2, <1>3, <1>4

(* What a step in a block leaves alone of the rest.                        *)
LEMMA InsideRest ==
  ASSUME Typed, Deleted, held \subseteq Openable, Kept, UNCHANGED <<config, data>>,
         held' \subseteq held,
         "stream" \in held => "stream" \in held', "ports" \in held => "ports" \in held',
         phase' = phase \/ (driver \notin Callbacks /\ phase' = "returned"),
         fault' \in {fault, "bounds"}, frame' # -1 => phase' # "deleted", cb' = cb
  PROVE  Deleted' /\ held' \subseteq Openable' /\ Kept'
<1>1. driver' = driver /\ Openable' = Openable
  BY DEF config, Openable
<1>2. Deleted'
  BY DEF Deleted
<1>3. Kept'
  BY <1>1 DEF Kept, Callbacks
<1> QED
  BY <1>1, <1>2, <1>3

(* A block begins: nothing is in it yet.                                   *)
LEMMA BeginIInv ==
  ASSUME IInv, LoopBegin \/ CbBegin
  PROVE  IInv'
<1>1. /\ frame = -1 /\ frame' = 0
      /\ block' = [l \in 0 .. Size - 1 |-> Silence]
      /\ UNCHANGED <<config, phase, running, data, held, cb, pos, played>>
      /\ phase # "deleted"
  BY DEF IInv, Deleted, LoopBegin, CbBegin, Begins
<1>2. fault' \in {fault, "bounds"} /\ (Fits' => fault' # "bounds")
  <2>1. ASSUME Fits, driver = "pulseaudio"
        PROVE  ~(in > out)
    <3>1. in <= out
      BY <2>1 DEF Fits
    <3> QED
      BY <3>1 DEF IInv, Typed
  <2>2. Fits' = Fits
    BY <1>1, SameLayout
  <2> QED
    BY <2>1, <2>2 DEF IInv, LoopBegin, CbBegin
<1>3. Before' = Before /\ Before' + 0 = pos /\ pos \in Nat
  BY <1>1 DEF Before, IInv, Typed
<1>4. Typed'
  <2>1. block' \in [0 .. Size - 1 -> Sample]
    BY <1>1 DEF Silence, Sample
  <2>2. frame' \in -1 .. Frames /\ frame' <= pos'
    BY <1>1, <1>3, DriversAssumption
  <2> QED
    BY <1>1, <2>1, <2>2, SameLayout DEF IInv, Typed, config
<1>5. Placed'
  <2>1. ASSUME Fits
        PROVE  \A i \in 0 .. Frames - 1, c \in 0 .. out - 1 : block'[OutAt(i, c)] = Silence
    BY <1>1, <2>1, Placement DEF IInv
  <2>2. \A i \in 0 .. Frames - 1 : ~(i < frame')
    BY <1>1, DriversAssumption
  <2> QED
    BY <1>1, <2>1, <2>2, SameLayout DEF Placed, config
<1>6. Played'
  <2>1. UNCHANGED <<out, running, played>> /\ Fits' = Fits /\ Played
    BY <1>1, SameLayout DEF config, IInv
  <2> QED
    BY <1>3, <2>1 DEF Played, IsSilent, IsTick, TickOf
<1>7. Deleted' /\ held' \subseteq Openable' /\ Kept'
  BY <1>1, <1>2, InsideRest DEF IInv
<1> QED
  BY <1>2, <1>4, <1>5, <1>6, <1>7 DEF IInv

(* A tick fills the places of its frame and no others.                     *)
LEMMA TickBlock ==
  ASSUME IInv, Tick
  PROVE  /\ block' \in [0 .. Size - 1 -> Sample]
         /\ Fits /\ out > 0 =>
              \A i \in 0 .. Frames - 1, c \in 0 .. out - 1 :
                block'[OutAt(i, c)] = IF i = frame THEN <<pos + 1, c>> ELSE block[OutAt(i, c)]
<1> DEFINE From(l) == {c \in Copied : OutAt(frame, c) = l}
<1>1. /\ frame \in 0 .. Frames - 1
      /\ block \in [0 .. Size - 1 -> Sample]
      /\ pos \in Nat
  BY DEF IInv, Typed, Tick
<1>2. block' = [l \in 0 .. Size - 1 |->
                  IF From(l) = {} THEN block[l] ELSE <<pos + 1, CHOOSE c \in From(l) : TRUE>>]
  BY <1>1 DEF Tick
<1>3. ASSUME NEW l \in 0 .. Size - 1, From(l) # {}
      PROVE  (CHOOSE c \in From(l) : TRUE) \in Copied /\ Copied \subseteq Nat
  <2>1. (CHOOSE c \in From(l) : TRUE) \in From(l)
    BY <1>3
  <2> QED
    BY <2>1, TakenFromBlock DEF IInv
<1>4. block' \in [0 .. Size - 1 -> Sample]
  <2> HIDE DEF From
  <2>1. ASSUME NEW l \in 0 .. Size - 1
        PROVE  (IF From(l) = {} THEN block[l] ELSE <<pos + 1, CHOOSE c \in From(l) : TRUE>>) \in Sample
    <3>1. CASE From(l) = {}
      BY <1>1, <3>1
    <3>2. CASE From(l) # {}
      <4>1. (CHOOSE c \in From(l) : TRUE) \in Nat
        BY <1>3, <3>2
      <4> DEFINE one == CHOOSE c \in From(l) : TRUE
      <4> HIDE DEF one
      <4>2. one \in Nat
        BY <4>1 DEF one
      <4>3. <<pos + 1, one>> \in Sample
        BY <1>1, <4>2 DEF Sample
      <4> QED
        BY <3>2, <4>3 DEF one
    <3> QED
      BY <3>1, <3>2
  <2> QED
    BY <1>2, <2>1
<1>5. ASSUME Fits, out > 0, NEW i \in 0 .. Frames - 1, NEW c \in 0 .. out - 1
      PROVE  block'[OutAt(i, c)] = IF i = frame THEN <<pos + 1, c>> ELSE block[OutAt(i, c)]
  <2>1. OutAt(i, c) \in 0 .. Size - 1 /\ Copied = 0 .. out - 1
    BY <1>5, Placement DEF IInv
  <2>2. \A d \in 0 .. out - 1 : OutAt(frame, d) = OutAt(i, c) => frame = i /\ d = c
    BY <1>1, <1>5, Placement DEF IInv
  <2>3. CASE i = frame
    <3>1. From(OutAt(i, c)) = {c}
      BY <2>1, <2>2, <2>3
    <3> HIDE DEF From
    <3>2. block'[OutAt(i, c)] = <<pos + 1, CHOOSE d \in {c} : TRUE>>
      BY <1>2, <2>1, <3>1
    <3> QED
      BY <2>3, <3>2
  <2>4. CASE i # frame
    <3>1. From(OutAt(i, c)) = {}
      BY <2>1, <2>2, <2>4
    <3> HIDE DEF From
    <3> QED
      BY <1>2, <2>1, <2>4, <3>1
  <2> QED
    BY <2>3, <2>4
<1> QED
  BY <1>4, <1>5

(* So does the tick of a frame, which puts its samples in the block.       *)
LEMMA TickIInv ==
  ASSUME IInv, Tick
  PROVE  IInv'
<1>1. /\ frame \in 0 .. Frames - 1 /\ frame' = frame + 1 /\ pos' = pos + 1
      /\ frame \in Int /\ pos \in Nat /\ frame <= pos
      /\ running' = running \/ running' = FALSE
      /\ UNCHANGED <<config, phase, data, held, cb, played>>
      /\ phase # "deleted"
  <2>1. /\ frame \in 0 .. Frames - 1 /\ frame' = frame + 1 /\ pos' = pos + 1
        /\ running' \in {running, FALSE}
        /\ UNCHANGED <<config, phase, data, held, cb, played>>
    BY DEF Tick
  <2>2. frame \in Int /\ pos \in Nat /\ frame <= pos /\ frame # -1
    BY <2>1, DriversAssumption DEF IInv, Typed
  <2> QED
    BY <2>1, <2>2 DEF IInv, Deleted
<1>2. Before' = Before /\ Before = pos - frame
  BY <1>1 DEF Before
<1>3. Typed'
  <2>1. frame' \in -1 .. Frames /\ frame' <= pos' /\ pos' \in Nat
    BY <1>1, DriversAssumption
  <2> QED
    BY <1>1, <2>1, TickBlock, SameLayout DEF IInv, Typed, config
<1>4. Placed'
  <2> SUFFICES ASSUME Fits, out > 0, NEW i \in 0 .. Frames - 1, NEW c \in 0 .. out - 1
               PROVE  block'[OutAt(i, c)]
                        = IF i < frame' THEN <<Before + i + 1, c>> ELSE Silence
    BY <1>1, <1>2, SameLayout DEF Placed, config
  <2>1. block[OutAt(i, c)] = IF i < frame THEN <<Before + i + 1, c>> ELSE Silence
    BY <1>1 DEF IInv, Placed
  <2>2. block'[OutAt(i, c)] = IF i = frame THEN <<pos + 1, c>> ELSE block[OutAt(i, c)]
    BY TickBlock
  <2>3. i = frame => Before + i + 1 = pos + 1
    BY <1>1, <1>2
  <2>4. i < frame' <=> i < frame \/ i = frame
    BY <1>1
  <2> QED
    BY <2>1, <2>2, <2>3, <2>4
<1>5. Played'
  <2>1. UNCHANGED <<out, played>> /\ Fits' = Fits /\ Played
    BY <1>1, SameLayout DEF config, IInv
  <2> QED
    BY <1>1, <1>2, <2>1 DEF Played, IsSilent, IsTick, TickOf
<1>6. fault' \in {fault, "bounds"} /\ (Fits' => fault' # "bounds")
  <2>1. ASSUME Fits
        PROVE  ~\E c \in Copied : OutAt(frame, c) >= Size \/ c >= out
    <3>1. Copied = 0 .. out - 1 /\ out \in Nat /\ Size \in Nat
      BY <2>1, Placement, TakenFromBlock DEF IInv, Typed
    <3>2. \A c \in 0 .. out - 1 : OutAt(frame, c) \in 0 .. Size - 1
      BY <1>1, <2>1, Placement DEF IInv
    <3> QED
      BY <3>1, <3>2
  <2>2. Fits' = Fits
    BY <1>1, SameLayout
  <2> QED
    BY <1>1, <2>1, <2>2 DEF IInv, Tick
<1>7. Deleted' /\ held' \subseteq Openable' /\ Kept'
  BY <1>1, <1>6, InsideRest DEF IInv
<1> QED
  BY <1>3, <1>4, <1>5, <1>6, <1>7 DEF IInv

(* The frames of a block that is done: those of its ticks, and after the   *)
(* end of the machine those of none.                                       *)
LEMMA TakenFrames ==
  ASSUME IInv, Done
  PROVE  /\ Taken \in Seq([0 .. Width - 1 -> Sample])
         /\ Len(Taken) = Frames
         /\ Fits /\ out > 0 =>
              \A n \in 1 .. Frames :
                IF n <= frame THEN IsTick(Taken[n], Before + n)
                ELSE IsSilent(Taken[n]) /\ ~running
<1>1. frame # -1 /\ frame \in Int /\ Frames \in Nat /\ Width \in Nat /\ Size \in Nat
  BY TakenFromBlock, DriversAssumption DEF IInv, Typed, Done
<1>2. block \in [0 .. Size - 1 -> Sample]
  BY <1>1 DEF IInv, Typed
<1>3. Taken \in Seq([0 .. Width - 1 -> Sample]) /\ Len(Taken) = Frames
  <2>1. ASSUME NEW n \in 1 .. Frames
        PROVE  [c \in 0 .. Width - 1 |-> block[DeviceAt(n - 1, c)]] \in [0 .. Width - 1 -> Sample]
    <3>1. n - 1 \in 0 .. Frames - 1
      BY <1>1
    <3> QED
      BY <1>2, <3>1, TakenFromBlock DEF IInv
  <2>2. Taken \in [1 .. Frames -> [0 .. Width - 1 -> Sample]]
    BY <2>1 DEF Taken
  <2> QED
    BY <1>1, <2>2
<1>4. ASSUME Fits, out > 0, NEW n \in 1 .. Frames, NEW c \in 0 .. out - 1
      PROVE  Taken[n][c] = IF n <= frame THEN <<Before + n, c>> ELSE Silence
  <2>1. n - 1 \in 0 .. Frames - 1 /\ Width = out
    BY <1>1, <1>4, Placement DEF IInv
  <2>2. Taken[n][c] = block[OutAt(n - 1, c)]
    BY <1>4, <2>1, Placement DEF Taken, IInv
  <2>3. block[OutAt(n - 1, c)]
          = IF n - 1 < frame THEN <<Before + (n - 1) + 1, c>> ELSE Silence
    BY <1>1, <1>4, <2>1 DEF IInv, Placed
  <2>4. (n - 1 < frame <=> n <= frame) /\ Before + (n - 1) + 1 = Before + n
    BY <1>1 DEF Before, IInv, Typed
  <2> QED
    BY <2>2, <2>3, <2>4
<1>5. \A n \in 1 .. Frames : n <= frame \/ ~running
  BY <1>1 DEF Done
<1>6. ASSUME Fits, out > 0, NEW n \in 1 .. Frames
      PROVE  IF n <= frame THEN IsTick(Taken[n], Before + n)
             ELSE IsSilent(Taken[n]) /\ ~running
  BY <1>4, <1>5, <1>6 DEF IsTick, IsSilent
<1> QED
  BY <1>3, <1>6

(* The number of a frame's tick is 0 when it is silent.                    *)
LEMMA TickOfFrame ==
  ASSUME NEW f, out \in Nat, out > 0
  PROVE  /\ IsSilent(f) => f[0] = Silence /\ TickOf(f) = 0
         /\ \A t : IsTick(f, t) => f[0] = <<t, 0>> /\ TickOf(f) = t
<1>1. 0 \in 0 .. out - 1
  OBVIOUS
<1> QED
  BY <1>1 DEF IsSilent, IsTick, TickOf, Silence

(* What the elements of two sequences joined are: those of write(2).       *)
LEMMA Joined ==
  ASSUME NEW T, NEW s \in Seq(T), NEW t \in Seq(T), NEW st, st = s \o t
  PROVE  /\ Len(s) \in Nat /\ Len(t) \in Nat
         /\ DOMAIN s = 1 .. Len(s)
         /\ DOMAIN st = 1 .. Len(s) + Len(t)
         /\ \A n \in 1 .. Len(s) : st[n] = s[n]
         /\ \A n \in Len(s) + 1 .. Len(s) + Len(t) : st[n] = t[n - Len(s)]
<1>1. Len(s) \in Nat /\ Len(t) \in Nat /\ DOMAIN s = 1 .. Len(s)
  OBVIOUS
<1>2. Len(s \o t) = Len(s) + Len(t) /\ s \o t \in Seq(T)
  BY ConcatProperties
<1>3. DOMAIN (s \o t) = 1 .. Len(s) + Len(t)
  BY <1>2
<1>4. \A n \in 1 .. Len(s) + Len(t) :
        (s \o t)[n] = IF n <= Len(s) THEN s[n] ELSE t[n - Len(s)]
  BY ConcatProperties
<1>5. \A n \in 1 .. Len(s) : n \in 1 .. Len(s) + Len(t) /\ n <= Len(s)
  BY <1>1
<1>6. \A n \in Len(s) + 1 .. Len(s) + Len(t) : n \in 1 .. Len(s) + Len(t) /\ ~(n <= Len(s))
  BY <1>1
<1> QED
  BY <1>1, <1>3, <1>4, <1>5, <1>6

(* The block that is written comes after all that was played.              *)
LEMMA WritePlayed ==
  ASSUME IInv, Write
  PROVE  Played'
<1> SUFFICES ASSUME Fits, out > 0
             PROVE  /\ \A n \in DOMAIN played' : \/ IsSilent(played'[n]) /\ ~running
                                                 \/ \E t \in 1 .. pos : IsTick(played'[n], t)
                    /\ \A m, n \in DOMAIN played' :
                         m < n => \/ TickOf(played'[m]) < TickOf(played'[n])
                                  \/ IsSilent(played'[n]) /\ ~running
  <2>1. /\ UNCHANGED <<config, out, running, pos>> /\ frame' = -1
    BY DEF Write, config
  <2>2. Before' = pos
    BY <2>1 DEF Before
  <2> QED
    BY <2>1, <2>2, SameLayout DEF Played, IsSilent, IsTick, TickOf
<1>1. /\ out \in Nat /\ pos \in Nat /\ Before \in Int /\ Before + frame = pos
      /\ frame \in 0 .. Frames /\ Frames \in Nat /\ Before <= pos /\ Before >= 0
  BY DriversAssumption DEF IInv, Typed, Write, Done, Before
<1> DEFINE k == Len(played)
           S == [0 .. Width - 1 -> Sample]
<1>2. played \in Seq(S) /\ Taken \in Seq(S) /\ Len(Taken) = Frames /\ played' = played \o Taken
  BY TakenFrames DEF IInv, Typed, Write
<1>3. /\ k \in Nat /\ DOMAIN played = 1 .. k /\ DOMAIN played' = 1 .. k + Frames
      /\ \A n \in 1 .. k : played'[n] = played[n]
      /\ \A n \in k + 1 .. k + Frames : played'[n] = Taken[n - k] /\ n - k \in 1 .. Frames
  <2>1. /\ k \in Nat /\ DOMAIN played = 1 .. k /\ DOMAIN played' = 1 .. k + Frames
        /\ \A n \in 1 .. k : played'[n] = played[n]
        /\ \A n \in k + 1 .. k + Frames : played'[n] = Taken[n - k]
    <3> HIDE DEF S
    <3> QED
      BY <1>2, Joined
  <2>2. \A n \in k + 1 .. k + Frames : n - k \in 1 .. Frames
    BY <1>1, <2>1
  <2> QED
    BY <2>1, <2>2
<1>4. \A n \in 1 .. Frames : IF n <= frame THEN IsTick(Taken[n], Before + n)
                             ELSE IsSilent(Taken[n]) /\ ~running
  BY TakenFrames DEF Write
<1>5. /\ \A n \in 1 .. k : \/ IsSilent(played[n]) /\ ~running
                           \/ \E t \in 1 .. Before : IsTick(played[n], t)
      /\ \A m, n \in 1 .. k :
           m < n => \/ TickOf(played[m]) < TickOf(played[n])
                    \/ IsSilent(played[n]) /\ ~running
  BY <1>3 DEF IInv, Played
<1> HIDE DEF k, S
<1>6. ASSUME NEW n \in 1 .. k
      PROVE  /\ TickOf(played'[n]) \in 0 .. Before
             /\ \/ IsSilent(played'[n]) /\ ~running
                \/ \E t \in 1 .. pos : IsTick(played'[n], t)
  <2>1. CASE IsSilent(played[n]) /\ ~running
    BY <1>1, <1>3, <2>1, TickOfFrame
  <2>2. CASE \E t \in 1 .. Before : IsTick(played[n], t)
    <3>1. PICK t \in 1 .. Before : IsTick(played[n], t)
      BY <2>2
    <3>2. TickOf(played[n]) = t /\ t \in 1 .. pos
      BY <1>1, <3>1, TickOfFrame
    <3> QED
      BY <1>1, <1>3, <3>1, <3>2
  <2> QED
    BY <1>5, <2>1, <2>2
<1>7. ASSUME NEW n \in k + 1 .. k + Frames
      PROVE  \/ IsSilent(played'[n]) /\ ~running /\ n - k > frame
             \/ /\ n - k <= frame /\ Before + (n - k) \in 1 .. pos
                /\ IsTick(played'[n], Before + (n - k))
                /\ TickOf(played'[n]) = Before + (n - k)
  <2>1. played'[n] = Taken[n - k] /\ n - k \in 1 .. Frames
    BY <1>3
  <2>2. CASE n - k <= frame
    BY <1>1, <1>4, <2>1, <2>2, TickOfFrame
  <2>3. CASE ~(n - k <= frame)
    BY <1>1, <1>4, <2>1, <2>3
  <2> QED
    BY <2>2, <2>3
<1>8. ASSUME NEW n \in DOMAIN played'
      PROVE  \/ IsSilent(played'[n]) /\ ~running
             \/ \E t \in 1 .. pos : IsTick(played'[n], t)
  <2>1. n \in 1 .. k \/ n \in k + 1 .. k + Frames
    BY <1>1, <1>3
  <2> QED
    BY <2>1, <1>6, <1>7
<1>9. ASSUME NEW m \in DOMAIN played', NEW n \in DOMAIN played', m < n
      PROVE  \/ TickOf(played'[m]) < TickOf(played'[n])
             \/ IsSilent(played'[n]) /\ ~running
  <2>1. CASE n \in 1 .. k
    <3>1. m \in 1 .. k
      BY <1>3, <1>9, <2>1
    <3> QED
      BY <1>3, <1>5, <1>9, <2>1, <3>1
  <2>2. CASE n \in k + 1 .. k + Frames /\ n - k <= frame
    <3>1. TickOf(played'[n]) = Before + (n - k) /\ n - k \in 1 .. Frames
      BY <1>1, <1>3, <1>7, <2>2
    <3>2. CASE m \in 1 .. k
      BY <1>1, <1>6, <3>1, <3>2
    <3>3. CASE m \in k + 1 .. k + Frames
      <4>1. TickOf(played'[m]) = Before + (m - k)
        BY <1>1, <1>3, <1>7, <1>9, <2>2, <3>3
      <4> QED
        BY <1>1, <1>3, <1>9, <3>1, <3>3, <4>1
    <3> QED
      BY <1>1, <1>3, <3>2, <3>3
  <2>3. CASE n \in k + 1 .. k + Frames /\ ~(n - k <= frame)
    BY <1>7, <2>3
  <2> QED
    BY <1>1, <1>3, <2>1, <2>2, <2>3
<1> QED
  BY <1>8, <1>9

(* So does writing the block to the device.                                *)
LEMMA WriteIInv ==
  ASSUME IInv, Write
  PROVE  IInv'
<1>1. /\ frame' = -1 /\ played' = played \o Taken
      /\ UNCHANGED <<config, phase, running, data, held, cb, pos, fault>>
  BY DEF Write
<1>2. Typed'
  <2>1. played' \in Seq([0 .. Width - 1 -> Sample])
    BY <1>1, TakenFrames, ConcatProperties DEF IInv, Typed, Write
  <2>2. frame' \in -1 .. Frames /\ frame' <= pos'
    BY <1>1, DriversAssumption DEF IInv, Typed
  <2> QED
    BY <1>1, <2>1, <2>2, SameLayout DEF IInv, Typed, config
<1>3. Placed'
  BY <1>1 DEF Placed
<1>4. Deleted' /\ held' \subseteq Openable' /\ Kept'
  BY <1>1, InsideRest DEF IInv
<1>5. Fits' => fault' # "bounds"
  BY <1>1, SameLayout DEF IInv
<1> QED
  BY <1>2, <1>3, <1>4, <1>5, WritePlayed DEF IInv

(* So does a device that refuses the block.                                *)
LEMMA WriteFailsIInv ==
  ASSUME IInv, WriteFails
  PROVE  IInv'
<1>1. /\ frame' = -1 /\ frame # -1
      /\ UNCHANGED <<config, running, data, cb, pos, played, fault>>
      /\ held' \subseteq held
      /\ "stream" \in held => "stream" \in held'
      /\ "ports" \in held => "ports" \in held'
      /\ phase' = phase \/ (driver \notin Callbacks /\ phase' = "returned")
  BY DriversAssumption DEF WriteFails, Done, Loops, Callbacks
<1>2. Before' = pos /\ Before <= pos /\ Before \in Int /\ pos \in Nat
  BY <1>1 DEF Before, IInv, Typed
<1>3. Typed'
  <2>1. frame' \in -1 .. Frames /\ frame' <= pos'
    BY <1>1, DriversAssumption DEF IInv, Typed
  <2> QED
    BY <1>1, <2>1, SameLayout DEF IInv, Typed, config
<1>4. Placed'
  BY <1>1 DEF Placed
<1>5. Played'
  <2>1. UNCHANGED <<out, running, played>> /\ Fits' = Fits /\ Played
    BY <1>1, SameLayout DEF config, IInv
  <2>2. \A t \in 1 .. Before : t \in 1 .. Before'
    BY <1>2
  <2> QED
    BY <2>1, <2>2 DEF Played, IsSilent, IsTick, TickOf
<1>6. Deleted' /\ held' \subseteq Openable' /\ Kept'
  BY <1>1, InsideRest DEF IInv
<1>7. Fits' => fault' # "bounds"
  BY <1>1, SameLayout DEF IInv
<1> QED
  BY <1>3, <1>4, <1>5, <1>6, <1>7 DEF IInv

-----------------------------------------------------------------------------
(* The invariant holds of every behaviour.                                 *)
LEMMA Inductive == Spec => []IInv
<1>1. ASSUME IInv, Next
      PROVE  IInv'
  <2>1. Outside \/ LoopBegin \/ CbBegin \/ Tick \/ Write \/ WriteFails
    BY <1>1 DEF Next, Sounds, Outside
  <2> QED
    BY <1>1, <2>1, OutsideIInv, BeginIInv, TickIInv, WriteIInv, WriteFailsIInv
<1>2. ASSUME IInv, UNCHANGED vars
      PROVE  IInv'
  <2>1. UNCHANGED <<config, sound, phase, running, data, held, cb, fault>>
    BY <1>2 DEF vars
  <2>2. Typed' /\ Placed' /\ Played'
    BY <1>2, <2>1, SoundKept DEF IInv
  <2>3. Deleted' /\ held' \subseteq Openable'
    BY <1>2, <2>1 DEF IInv, Deleted, Openable, config, sound
  <2>4. Kept'
    BY <1>2, <2>1 DEF IInv, Kept, config
  <2>5. Fits' => fault' # "bounds"
    BY <1>2, <2>1, SameLayout DEF IInv
  <2> QED
    BY <2>2, <2>3, <2>4, <2>5 DEF IInv
<1>3. IInv /\ [Next]_vars => IInv'
  BY <1>1, <1>2
<1> QED
  BY InitIInv, <1>3, PTL DEF Spec

(* With numbers of channels that fit the driver, each frame the device     *)
(* gets is one tick's, every channel in its place and the ticks in order,  *)
(* and no block is written past its end (alsa.c:147-185, sndfile.c:32-44,  *)
(* pulseaudio.c:51-70, jack.c:29-56, portaudio.c:18-34, pw.c:42-63,        *)
(* server.c:14-26), for blocks of any size.                                *)
THEOREM SpecSamplesPlaced == Spec => []SamplesPlaced
<1>1. IInv => SamplesPlaced
  <2> SUFFICES ASSUME IInv, Fits PROVE SamplesPlaced
    BY DEF SamplesPlaced
  <2>1. ASSUME out > 0, NEW n \in DOMAIN played, NEW c \in 0 .. out - 1
        PROVE  played[n][c] = IF played[n][0] = Silence THEN Silence
                              ELSE <<TickOf(played[n]), c>>
    <3>1. out \in Nat
      BY DEF IInv, Typed
    <3>2. CASE IsSilent(played[n])
      BY <2>1, <3>1, <3>2, TickOfFrame DEF IsSilent
    <3>3. ASSUME NEW t \in 1 .. Before, IsTick(played[n], t)
          PROVE  played[n][c] = IF played[n][0] = Silence THEN Silence
                                ELSE <<TickOf(played[n]), c>>
      <4>1. played[n][0] = <<t, 0>> /\ TickOf(played[n]) = t /\ t # 0
        BY <2>1, <3>1, <3>3, TickOfFrame
      <4>2. played[n][0] # Silence
        BY <4>1 DEF Silence
      <4> QED
        BY <2>1, <3>3, <4>1, <4>2 DEF IsTick
    <3> QED
      BY <2>1, <3>2, <3>3 DEF IInv, Played
  <2>2. ASSUME out > 0, NEW m \in DOMAIN played, NEW n \in DOMAIN played, m < n
        PROVE  \/ TickOf(played[m]) < TickOf(played[n])
               \/ played[n][0] = Silence /\ ~running
    BY <2>2, TickOfFrame DEF IInv, Typed, Played
  <2>3. fault # "bounds"
    BY DEF IInv
  <2> QED
    BY <2>1, <2>2, <2>3 DEF SamplesPlaced
<1> QED
  BY <1>1, Inductive, PTL

(* The machine does not run after del; del closes nothing twice or         *)
(* unopened but in the three cases that Excused names, whatever failed     *)
(* before, and what it leaves open is known (alsa.c:43, 218-234,           *)
(* pulseaudio.c:80-89, jack.c:147-156, portaudio.c:86-90, pw.c:138-149).   *)
THEOREM SpecDelIsSafe == Spec => DelIsSafe
<1>1. IInv => fault # "machine"
  BY DEF IInv, Kept
<1>2. IInv /\ [Next]_vars =>
        [phase # "deleted" /\ phase' = "deleted" =>
           /\ fault' # "none" => Excused
           /\ data => held' \subseteq LeftByDel]_vars
  BY NextDel
<1>3. Spec => [][Next]_vars
  BY PTL DEF Spec
<1> QED
  BY <1>1, <1>2, <1>3, Inductive, PTL DEF DelIsSafe

-----------------------------------------------------------------------------
(* The windows count with the same operators. *)
LEMMA WindowsCount ==
  /\ \A S : N!IsFiniteSet(S) <=> IsFiniteSet(S)
  /\ \A S : N!Cardinality(S) = Cardinality(S)
<1>1. \A S : N!IsFiniteSet(S) <=> IsFiniteSet(S)
  BY DEF N!IsFiniteSet, IsFiniteSet
<1>2. \A S : N!Cardinality(S) = Cardinality(S)
  BY <1>1 DEF N!Cardinality, Cardinality
<1> QED
  BY <1>1, <1>2

(* There is a first in every set of numbers that has any.                  *)
LEMMA FirstOf ==
  ASSUME NEW S, S \subseteq Nat, S # {}
  PROVE  \E w \in S : \A u \in S : w <= u
<1>1. PICK w \in S : \A u \in S : ~(<<u, w>> \in OpToRel(<, Nat))
  BY NatLessThanWellFounded, WFMin
<1>2. \A u \in S : ~(u < w)
  BY <1>1 DEF OpToRel
<1> QED
  BY <1>2

(* What a place is. *)
LEMMA IsPlace ==
  ASSUME NEW ls, NEW w, NEW e
  PROVE  e \in N!Places(ls, w) <=>
           \E l \in DOMAIN ls : \E i \in DOMAIN ls[l] : ls[l][i] = w /\ e = <<l, i>>
BY DEF N!Places

(* Lists of a bounded length have finitely many places.                    *)
LEMMA PlacesFinite ==
  ASSUME NEW ls \in Seq(Seq(Nat)), NEW m \in Nat,
         \A l \in DOMAIN ls : Len(ls[l]) <= m
  PROVE  \A w : IsFiniteSet(N!Places(ls, w)) /\ Cardinality(N!Places(ls, w)) \in Nat
<1> TAKE w
<1> DEFINE All == (1 .. Len(ls)) \X (1 .. m)
<1>1. Len(ls) \in Nat /\ DOMAIN ls = 1 .. Len(ls)
  BY LenProperties
<1>2. IsFiniteSet(All)
  <2>1. IsFiniteSet(1 .. Len(ls)) /\ IsFiniteSet(1 .. m)
    BY <1>1, FS_Interval
  <2> QED
    BY <2>1, FS_Product
<1>3. N!Places(ls, w) \subseteq All
  <2> SUFFICES ASSUME NEW e \in N!Places(ls, w)
               PROVE  e \in All
    OBVIOUS
  <2>1. PICK l \in DOMAIN ls : \E i \in DOMAIN ls[l] : ls[l][i] = w /\ e = <<l, i>>
    BY IsPlace
  <2>2. PICK i \in DOMAIN ls[l] : ls[l][i] = w /\ e = <<l, i>>
    BY <2>1
  <2>3. ls[l] \in Seq(Nat)
    BY <1>1, ElementOfSeq
  <2>4. DOMAIN ls[l] = 1 .. Len(ls[l]) /\ Len(ls[l]) \in Nat
    BY <2>3, LenProperties
  <2> QED
    BY <1>1, <2>4, <2>2
<1> QED
  BY <1>2, <1>3, FS_Subset, FS_CardinalityType

(* Lists where one has one more element, at its end, have a place more.     *)
OneMore(new, ls, l, x, n) ==
  /\ n \in Nat /\ l \in DOMAIN ls /\ DOMAIN new = DOMAIN ls
  /\ DOMAIN ls[l] = 1 .. n /\ DOMAIN new[l] = 1 .. n + 1
  /\ new[l][n + 1] = x /\ \A i \in 1 .. n : new[l][i] = ls[l][i]
  /\ \A g \in DOMAIN ls : g # l => new[g] = ls[g]

(* One place, that is new. *)
LEMMA OneMorePlace ==
  ASSUME NEW ls, NEW new, NEW l, NEW x, NEW n, OneMore(new, ls, l, x, n)
  PROVE  \A w : IsFiniteSet(N!Places(ls, w)) =>
                   Cardinality(N!Places(new, w)) =
                     Cardinality(N!Places(ls, w)) + (IF x = w THEN 1 ELSE 0)
<1> DEFINE end == <<l, n + 1>>
<1> USE DEF OneMore
<1>1. \A w : end \notin N!Places(ls, w)
  BY IsPlace
<1>2. end = <<l, n + 1>>
  OBVIOUS
<1>3. \A g \in DOMAIN ls : \A i \in DOMAIN ls[g] : i \in DOMAIN new[g] /\ new[g][i] = ls[g][i]
  <2> TAKE g \in DOMAIN ls
  <2>1. CASE g = l
    BY <2>1
  <2>2. CASE g # l
    BY <2>2
  <2> QED
    BY <2>1, <2>2
<1> HIDE DEF end
<1>4. \A w, e : e \in N!Places(new, w) <=> e \in N!Places(ls, w) \/ (x = w /\ e = end)
  <2> TAKE w, e
  <2>1. ASSUME e \in N!Places(new, w)
        PROVE  e \in N!Places(ls, w) \/ (x = w /\ e = end)
    <3>1. PICK g \in DOMAIN new : \E i \in DOMAIN new[g] : new[g][i] = w /\ e = <<g, i>>
      BY <2>1, IsPlace
    <3>2. PICK i \in DOMAIN new[g] : new[g][i] = w /\ e = <<g, i>>
      BY <3>1
    <3>3. CASE g # l
      BY <3>2, <3>3, IsPlace
    <3>4. CASE g = l /\ i \in 1 .. n
      <4>1. ls[l][i] = w
        BY <3>2, <3>4
      <4> QED
        BY <3>2, <3>4, <4>1, IsPlace
    <3>5. CASE g = l /\ i = n + 1
      BY <1>2, <3>2, <3>5
    <3>6. g = l => i \in 1 .. n + 1
      BY <3>2
    <3> QED
      BY <3>3, <3>4, <3>5, <3>6
  <2>2. ASSUME e \in N!Places(ls, w)
        PROVE  e \in N!Places(new, w)
    <3>1. PICK g \in DOMAIN ls : \E i \in DOMAIN ls[g] : ls[g][i] = w /\ e = <<g, i>>
      BY <2>2, IsPlace
    <3>2. PICK i \in DOMAIN ls[g] : ls[g][i] = w /\ e = <<g, i>>
      BY <3>1
    <3>3. i \in DOMAIN new[g] /\ new[g][i] = w
      BY <1>3, <3>2
    <3> QED
      BY <3>2, <3>3, IsPlace
  <2>3. ASSUME x = w, e = end
        PROVE  e \in N!Places(new, w)
    <3>1. n + 1 \in DOMAIN new[l] /\ new[l][n + 1] = w
      BY <2>3
    <3> QED
      BY <1>2, <2>3, <3>1, IsPlace
  <2> QED
    BY <2>1, <2>2, <2>3
<1>5. ASSUME NEW w, IsFiniteSet(N!Places(ls, w))
      PROVE  Cardinality(N!Places(new, w)) =
               Cardinality(N!Places(ls, w)) + (IF x = w THEN 1 ELSE 0)
  <2>1. CASE x = w
    <3>1. N!Places(new, w) = N!Places(ls, w) \cup {end}
      BY <1>4, <2>1
    <3> QED
      BY <1>1, <1>5, <2>1, <3>1, FS_AddElement
  <2>2. CASE x # w
    <3>1. N!Places(new, w) = N!Places(ls, w)
      <4>1. \A e : e \in N!Places(new, w) <=> e \in N!Places(ls, w)
        BY <1>4, <2>2
      <4> QED
        BY <4>1
    <3>2. Cardinality(N!Places(ls, w)) \in Nat
      BY <1>5, FS_CardinalityType
    <3> QED
      BY <2>2, <3>1, <3>2
  <2> QED
    BY <2>1, <2>2
<1> QED
  BY <1>5

(* Lists where x is put at the end of one, and where one is emptied.       *)
PutLast(new, ls, l, x) ==
  /\ ls \in Seq(Seq(Nat)) /\ l \in DOMAIN ls /\ x \in Nat
  /\ new = [ls EXCEPT ![l] = Append(@, x)]
PutOut(new, ls, l) ==
  /\ ls \in Seq(Seq(Nat)) /\ l \in DOMAIN ls
  /\ new = [ls EXCEPT ![l] = <<>>]
PutMore(new, ls) == ls \in Seq(Seq(Nat)) /\ new = Append(ls, <<>>)

(* What is put at the end of a list is in one more place, and nothing else *)
(* is.                                                                     *)
LEMMA PutAtEnd ==
  ASSUME NEW ls, NEW l, NEW x, NEW new, PutLast(new, ls, l, x)
  PROVE  /\ new \in Seq(Seq(Nat)) /\ Len(new) = Len(ls)
         /\ \A g \in DOMAIN ls : new[g] = IF g = l THEN Append(ls[g], x) ELSE ls[g]
         /\ \A w : IsFiniteSet(N!Places(ls, w)) =>
                   Cardinality(N!Places(new, w)) =
                     Cardinality(N!Places(ls, w)) + (IF x = w THEN 1 ELSE 0)
<1>1. ls \in Seq(Seq(Nat)) /\ l \in DOMAIN ls /\ x \in Nat
  BY DEF PutLast
<1>2. Len(ls) \in Nat /\ DOMAIN ls = 1 .. Len(ls)
  BY <1>1, LenProperties
<1>3. \A g \in DOMAIN ls : ls[g] \in Seq(Nat)
  BY <1>1, <1>2, ElementOfSeq
<1>4. /\ Append(ls[l], x) \in Seq(Nat)
      /\ Len(Append(ls[l], x)) = Len(ls[l]) + 1
      /\ \A i \in 1 .. Len(ls[l]) : Append(ls[l], x)[i] = ls[l][i]
      /\ Append(ls[l], x)[Len(ls[l]) + 1] = x
      /\ Len(ls[l]) \in Nat /\ DOMAIN ls[l] = 1 .. Len(ls[l])
      /\ DOMAIN Append(ls[l], x) = 1 .. Len(ls[l]) + 1
  BY <1>1, <1>3, AppendProperties, LenProperties
<1>5. /\ new \in Seq(Seq(Nat)) /\ Len(new) = Len(ls)
      /\ \A g \in DOMAIN ls : new[g] = IF g = l THEN Append(ls[g], x) ELSE ls[g]
      /\ DOMAIN new = DOMAIN ls
  BY <1>1, <1>2, <1>4, ExceptSeq DEF PutLast
<1>6. /\ DOMAIN new[l] = 1 .. Len(ls[l]) + 1 /\ new[l][Len(ls[l]) + 1] = x
      /\ \A i \in 1 .. Len(ls[l]) : new[l][i] = ls[l][i]
      /\ \A g \in DOMAIN ls : g # l => new[g] = ls[g]
  BY <1>1, <1>4, <1>5
<1>7. \A w : IsFiniteSet(N!Places(ls, w)) =>
               Cardinality(N!Places(new, w)) =
                 Cardinality(N!Places(ls, w)) + (IF x = w THEN 1 ELSE 0)
  <2>1. OneMore(new, ls, l, x, Len(ls[l]))
    BY <1>1, <1>4, <1>5, <1>6 DEF OneMore
  <2> QED
    BY <2>1, OneMorePlace
<1> QED
  BY <1>5, <1>7

(* An empty list more has no place. *)
LEMMA NoMorePlace ==
  ASSUME NEW ls, NEW new, NEW n, DOMAIN new = DOMAIN ls \cup {n}, DOMAIN new[n] = {},
         \A g \in DOMAIN ls : new[g] = ls[g]
  PROVE  \A w : N!Places(new, w) = N!Places(ls, w)
<1> TAKE w
<1>1. ASSUME NEW e, e \in N!Places(new, w)
      PROVE  e \in N!Places(ls, w)
  <2>1. PICK g \in DOMAIN new : \E i \in DOMAIN new[g] : new[g][i] = w /\ e = <<g, i>>
    BY <1>1, IsPlace
  <2>2. g \in DOMAIN ls /\ new[g] = ls[g]
    BY <2>1
  <2> QED
    BY <2>1, <2>2, IsPlace
<1>2. ASSUME NEW e, e \in N!Places(ls, w)
      PROVE  e \in N!Places(new, w)
  <2>1. PICK g \in DOMAIN ls : \E i \in DOMAIN ls[g] : ls[g][i] = w /\ e = <<g, i>>
    BY <1>2, IsPlace
  <2>2. g \in DOMAIN new /\ new[g] = ls[g]
    BY <2>1
  <2> QED
    BY <2>1, <2>2, IsPlace
<1> QED
  BY <1>1, <1>2

(* A new list has nothing in it. *)
LEMMA NewList ==
  ASSUME NEW ls, NEW new, PutMore(new, ls)
  PROVE  /\ new \in Seq(Seq(Nat)) /\ Len(new) = Len(ls) + 1
         /\ \A g \in DOMAIN ls : new[g] = ls[g]
         /\ new[Len(ls) + 1] = <<>>
         /\ \A w : N!Places(new, w) = N!Places(ls, w)
<1>1. ls \in Seq(Seq(Nat)) /\ new = Append(ls, <<>>)
  BY DEF PutMore
<1>2. Len(ls) \in Nat /\ DOMAIN ls = 1 .. Len(ls) /\ <<>> \in Seq(Nat)
  BY <1>1, LenProperties, EmptySeq
<1>3. /\ new \in Seq(Seq(Nat)) /\ Len(new) = Len(ls) + 1
      /\ \A g \in DOMAIN ls : new[g] = ls[g]
      /\ new[Len(ls) + 1] = <<>>
      /\ DOMAIN new = 1 .. Len(ls) + 1
  BY <1>1, <1>2, AppendProperties, LenProperties
<1>4. DOMAIN new = DOMAIN ls \cup {Len(ls) + 1}
  BY <1>2, <1>3
<1>5. DOMAIN new[Len(ls) + 1] = {}
  BY <1>3
<1>6. \A w : N!Places(new, w) = N!Places(ls, w)
  BY <1>3, <1>4, <1>5, NoMorePlace
<1> QED
  BY <1>3, <1>6

(* Lists where one is empty that was not have fewer places.                *)
LEMMA FewerPlaces ==
  ASSUME NEW ls, NEW new, NEW l \in DOMAIN ls, NEW w, IsFiniteSet(N!Places(ls, w)),
         DOMAIN new = DOMAIN ls, DOMAIN new[l] = {}, IsFiniteSet(DOMAIN ls[l]),
         \A g \in DOMAIN ls : g # l => new[g] = ls[g]
  PROVE  /\ Cardinality(N!Places(new, w)) = Cardinality(N!Places(ls, w)) - N!Times(ls[l], w)
         /\ IsFiniteSet(N!Places(new, w))
         /\ N!Times(ls[l], w) \in Nat
<1> DEFINE T == {i \in DOMAIN ls[l] : ls[l][i] = w}
           P == {<<l, i>> : i \in T}
<1>1. \A e : e \in P => e \in N!Places(ls, w)
  BY IsPlace
<1>2. IsFiniteSet(P) /\ Cardinality(P) \in Nat
  BY <1>1, FS_Subset, FS_CardinalityType
<1>3. IsFiniteSet(T) /\ Cardinality(T) \in Nat
  BY FS_Subset, FS_CardinalityType
<1>4. Cardinality(P) = Cardinality(T)
  <2> DEFINE f == [i \in T |-> <<l, i>>]
  <2>1. f \in Bijection(T, P)
    BY DEF Bijection, Injection, Surjection, IsInjective
  <2>2. ExistsBijection(T, P)
    BY <2>1 DEF ExistsBijection
  <2> QED
    BY <1>3, <2>2, FS_Bijection
<1>5. N!Times(ls[l], w) = Cardinality(T)
  BY WindowsCount DEF N!Times
<1>6. \A e : e \in N!Places(new, w) <=> e \in N!Places(ls, w) /\ e \notin P
  <2> TAKE e
  <2>1. ASSUME e \in N!Places(new, w)
        PROVE  e \in N!Places(ls, w) /\ e \notin P
    <3>1. PICK g \in DOMAIN new : \E i \in DOMAIN new[g] : new[g][i] = w /\ e = <<g, i>>
      BY <2>1, IsPlace
    <3>2. g # l
      BY <3>1
    <3>3. e \notin P
      BY <3>1, <3>2
    <3> QED
      BY <3>1, <3>2, <3>3, IsPlace
  <2>2. ASSUME e \in N!Places(ls, w), e \notin P
        PROVE  e \in N!Places(new, w)
    <3>1. PICK g \in DOMAIN ls : \E i \in DOMAIN ls[g] : ls[g][i] = w /\ e = <<g, i>>
      BY <2>2, IsPlace
    <3>2. g # l
      BY <2>2, <3>1
    <3>3. new[g] = ls[g]
      BY <3>2
    <3> QED
      BY <3>1, <3>3, IsPlace
  <2> QED
    BY <2>1, <2>2
<1> HIDE DEF P, T
<1>7. N!Places(new, w) = N!Places(ls, w) \ P
  BY <1>6
<1>8. N!Places(ls, w) \cap P = P
  BY <1>1
<1>9. /\ IsFiniteSet(N!Places(new, w))
       /\ Cardinality(N!Places(new, w)) = Cardinality(N!Places(ls, w)) - Cardinality(P)
  <2> DEFINE all == N!Places(ls, w)
  <2>1. IsFiniteSet(all)
    OBVIOUS
  <2>2. N!Places(new, w) = all \ P /\ all \cap P = P
    BY <1>7, <1>8
  <2> HIDE DEF all
  <2>3. IsFiniteSet(all \ P) /\ Cardinality(all \ P) = Cardinality(all) - Cardinality(all \cap P)
    BY <2>1, FS_Difference
  <2>4. /\ IsFiniteSet(N!Places(new, w))
        /\ Cardinality(N!Places(new, w)) = Cardinality(all) - Cardinality(P)
    BY <2>2, <2>3
  <2> QED
    BY <2>4 DEF all
<1> QED
  BY <1>3, <1>4, <1>5, <1>9

(* A list that is emptied takes with it the times a widget is in it.       *)
LEMMA Emptied ==
  ASSUME NEW ls, NEW l, NEW new, PutOut(new, ls, l)
  PROVE  /\ new \in Seq(Seq(Nat)) /\ Len(new) = Len(ls)
         /\ \A g \in DOMAIN ls : new[g] = IF g = l THEN <<>> ELSE ls[g]
         /\ \A w : IsFiniteSet(N!Places(ls, w)) =>
              /\ Cardinality(N!Places(new, w)) = Cardinality(N!Places(ls, w)) - N!Times(ls[l], w)
              /\ Cardinality(N!Places(new, w)) \in Nat
              /\ N!Times(ls[l], w) \in Nat
<1>1. ls \in Seq(Seq(Nat)) /\ l \in DOMAIN ls
  BY DEF PutOut
<1>2. Len(ls) \in Nat /\ DOMAIN ls = 1 .. Len(ls) /\ <<>> \in Seq(Nat)
  BY <1>1, LenProperties, EmptySeq
<1>3. /\ new \in Seq(Seq(Nat)) /\ Len(new) = Len(ls)
      /\ \A g \in DOMAIN ls : new[g] = IF g = l THEN <<>> ELSE ls[g]
      /\ DOMAIN new = DOMAIN ls
  BY <1>1, <1>2, ExceptSeq DEF PutOut
<1>4. DOMAIN new[l] = {} /\ \A g \in DOMAIN ls : g # l => new[g] = ls[g]
  BY <1>1, <1>3
<1>5. IsFiniteSet(DOMAIN ls[l])
  <2>1. ls[l] \in Seq(Nat)
    BY <1>1, <1>2, ElementOfSeq
  <2>2. DOMAIN ls[l] = 1 .. Len(ls[l]) /\ Len(ls[l]) \in Nat
    BY <2>1, LenProperties
  <2>3. IsFiniteSet(1 .. Len(ls[l]))
    BY <2>2, FS_Interval
  <2> QED
    BY <2>2, <2>3
<1>6. ASSUME NEW w, IsFiniteSet(N!Places(ls, w))
      PROVE  /\ Cardinality(N!Places(new, w)) = Cardinality(N!Places(ls, w)) - N!Times(ls[l], w)
             /\ Cardinality(N!Places(new, w)) \in Nat
             /\ N!Times(ls[l], w) \in Nat
  <2>1. /\ Cardinality(N!Places(new, w)) = Cardinality(N!Places(ls, w)) - N!Times(ls[l], w)
        /\ IsFiniteSet(N!Places(new, w))
        /\ N!Times(ls[l], w) \in Nat
    BY <1>1, <1>3, <1>4, <1>5, <1>6, FewerPlaces
  <2> QED
    BY <2>1, FS_CardinalityType
<1> QED
  BY <1>3, <1>6

-----------------------------------------------------------------------------
(* A pointer to a group, or NULL. *)
GroupOrNone(w) == w = 0 \/ (w \in N!Widgets /\ nKind[w] \in N!Groups)

(* The tree: every widget is in the lists it may be in, a string only in   *)
(* those of a Menu or a Combo, and lists are as long as they may be.       *)
TreeTyped ==
  /\ nPanel \in Seq({"live", "closing", "gone"})
  /\ nKind \in Seq(N!Kinds)
  /\ nParent \in Seq(Nat) /\ Len(nParent) = Len(nKind)
  /\ nList \in Seq(Seq(Nat)) /\ Len(nList) = Len(nKind)
  /\ nRef \in Seq(Int) /\ Len(nRef) = Len(nKind)
  /\ nHeld \subseteq N!Widgets
  /\ nLast \in Seq(Nat) /\ Len(nLast) = Len(nPanel)
  /\ nRoots \in Seq(Seq(Nat)) /\ Len(nRoots) = Len(nPanel)
  /\ \A w \in N!Widgets : GroupOrNone(nParent[w])
  /\ \A p \in N!Panels : GroupOrNone(nLast[p])
  /\ \A w \in N!Widgets : Len(nList[w]) <= MaxItems
  /\ \A p \in N!Panels : Len(nRoots[p]) <= MaxItems
  /\ \A w \in N!Widgets : \A i \in DOMAIN nList[w] :
       nList[w][i] \in N!Widgets \/ (nList[w][i] = 0 /\ nKind[w] \in N!Texts)
  /\ \A p \in N!Panels : \A i \in DOMAIN nRoots[p] : nRoots[p][i] \in N!Widgets

(* Where a walk is at one level. *)
Step == [in : {"panel", "group"} \X Nat, at : Nat \ {0}]

(* What a walk keeps of each level is a list and a place in it. *)
ThreadsTyped ==
  /\ nThread \in Seq({"wait", "walk", "draw", "dead"}) /\ Len(nThread) = Len(nPanel)
  /\ nPath \in Seq(Seq(Step)) /\ Len(nPath) = Len(nPanel)

(* Every reference to a widget is counted. *)
Counted ==
  \A w \in N!Widgets :
    nRef[w] = Cardinality({w} \cap nHeld)
              + Cardinality(N!Places(nList, w)) + Cardinality(N!Places(nRoots, w))

(* A walk is in the list of its panel, or in that of a widget that it or a *)
(* group had, and so counted.  What a group had stays counted.             *)
PutIn(p, w) ==
  \/ \E g \in N!Widgets : \E i \in DOMAIN nList[g] : nList[g][i] = w
  \/ \E i \in DOMAIN nRoots[p] : nRoots[p][i] = w

Reached(p, l) ==
  \/ l = <<"panel", p>>
  \/ \E w \in N!Widgets : l = <<"group", w>> /\ PutIn(p, w)

(* A thread of a panel that is gone has ended, and the others walk there. *)
Walked ==
  /\ \A p \in N!Panels : nPanel[p] = "gone" => nThread[p] = "dead"
  /\ \A p \in N!Panels : nThread[p] # "dead" =>
       \A i \in DOMAIN nPath[p] : Reached(p, nPath[p][i].in)

(* What is pointed to without being counted is there. *)
There(w) == w = 0 \/ nRef[w] > 0

(* So are the last group of the last panel and the group a group was made  *)
(* in; and strings have no references.                                     *)
Rooted ==
  /\ Len(nPanel) > 0 => There(nLast[Len(nPanel)])
  /\ \A w \in N!Widgets : nKind[w] \in N!Groups /\ nRef[w] > 0 => There(nParent[w])
  /\ \A w \in N!Widgets : nKind[w] \in N!Texts => \A i \in DOMAIN nList[w] : nList[w][i] = 0

(* Up to the first bad access; the uncounted pointers only until misuse.   *)
WindowsInv ==
  /\ nMisuse \in BOOLEAN
  /\ ~nMisuse => nFault = "none"
  /\ nFault = "none" => /\ TreeTyped
                        /\ ThreadsTyped
                        /\ Counted
                        /\ Walked
                        /\ ~nMisuse => Rooted

-----------------------------------------------------------------------------
(* No window is made yet. *)
LEMMA WindowsInit == N!Init => WindowsInv
<1> SUFFICES ASSUME N!Init PROVE WindowsInv
  OBVIOUS
<1>1. /\ nKind = <<>> /\ nParent = <<>> /\ nList = <<>> /\ nRef = <<>> /\ nHeld = {}
      /\ nPanel = <<>> /\ nLast = <<>> /\ nRoots = <<>>
      /\ nThread = <<>> /\ nPath = <<>> /\ nMisuse = FALSE /\ nFault = "none"
  BY DEF N!Init
<1>2. N!Widgets = {} /\ N!Panels = {} /\ \A S : <<>> \in Seq(S) /\ Len(<<>>) = 0
  BY <1>1, EmptySeq DEF N!Widgets, N!Panels
<1>3. TreeTyped /\ ThreadsTyped
  BY <1>1, <1>2 DEF TreeTyped, ThreadsTyped
<1>4. Counted /\ Walked /\ Rooted
  BY <1>1, <1>2 DEF Counted, Walked, Rooted
<1> QED
  BY <1>1, <1>3, <1>4 DEF WindowsInv

(* The invariant says of faults and of counts what the property says. *)
LEMMA WindowsInvIs == WindowsInv => N!WidgetsSafe
BY WindowsCount DEF WindowsInv, Counted, N!WidgetsSafe

(* How the tables of the tree are indexed, and with what they are filled. *)
LEMMA Shapes ==
  ASSUME TreeTyped
  PROVE  /\ Len(nKind) \in Nat /\ Len(nPanel) \in Nat /\ MaxItems \in Nat
         /\ N!Widgets = 1 .. Len(nKind) /\ DOMAIN nKind = 1 .. Len(nKind)
         /\ DOMAIN nParent = 1 .. Len(nKind) /\ DOMAIN nRef = 1 .. Len(nKind)
         /\ DOMAIN nList = 1 .. Len(nKind)
         /\ N!Panels = 1 .. Len(nPanel) /\ DOMAIN nPanel = 1 .. Len(nPanel)
         /\ DOMAIN nLast = 1 .. Len(nPanel) /\ DOMAIN nRoots = 1 .. Len(nPanel)
         /\ \A w \in N!Widgets : /\ nKind[w] \in N!Kinds /\ nParent[w] \in Nat
                                 /\ nRef[w] \in Int /\ nList[w] \in Seq(Nat)
         /\ \A p \in N!Panels : nLast[p] \in Nat /\ nRoots[p] \in Seq(Nat)
<1>1. /\ Len(nKind) \in Nat /\ DOMAIN nKind = 1 .. Len(nKind)
      /\ Len(nPanel) \in Nat /\ DOMAIN nPanel = 1 .. Len(nPanel)
      /\ DOMAIN nParent = 1 .. Len(nKind) /\ DOMAIN nRef = 1 .. Len(nKind)
      /\ DOMAIN nList = 1 .. Len(nKind)
      /\ DOMAIN nLast = 1 .. Len(nPanel) /\ DOMAIN nRoots = 1 .. Len(nPanel)
  BY LenProperties DEF TreeTyped
<1>2. MaxItems \in Nat
  BY OutputsAssumption DEF N!NuklearAssumption
<1>3. N!Widgets = 1 .. Len(nKind) /\ N!Panels = 1 .. Len(nPanel)
  BY <1>1 DEF N!Widgets, N!Panels
<1>4. \A w \in 1 .. Len(nKind) : /\ nKind[w] \in N!Kinds /\ nParent[w] \in Nat
                                 /\ nRef[w] \in Int /\ nList[w] \in Seq(Nat)
  BY <1>1, ElementOfSeq DEF TreeTyped
<1>5. \A p \in 1 .. Len(nPanel) : nLast[p] \in Nat /\ nRoots[p] \in Seq(Nat)
  BY <1>1, ElementOfSeq DEF TreeTyped
<1> QED
  BY <1>1, <1>2, <1>3, <1>4, <1>5

(* A count is of things there are, and one of them is enough.              *)
LEMMA CountedIs ==
  ASSUME TreeTyped
  PROVE  \A w : /\ Cardinality({w} \cap nHeld) = IF w \in nHeld THEN 1 ELSE 0
                /\ IsFiniteSet(N!Places(nList, w)) /\ Cardinality(N!Places(nList, w)) \in Nat
                /\ IsFiniteSet(N!Places(nRoots, w)) /\ Cardinality(N!Places(nRoots, w)) \in Nat
<1> TAKE w
<1>1. /\ MaxItems \in Nat
      /\ \A g \in DOMAIN nList : Len(nList[g]) <= MaxItems
      /\ \A p \in DOMAIN nRoots : Len(nRoots[p]) <= MaxItems
  BY Shapes DEF TreeTyped
<1>2. IsFiniteSet(N!Places(nList, w)) /\ Cardinality(N!Places(nList, w)) \in Nat
  BY <1>1, PlacesFinite DEF TreeTyped
<1>3. IsFiniteSet(N!Places(nRoots, w)) /\ Cardinality(N!Places(nRoots, w)) \in Nat
  BY <1>1, PlacesFinite DEF TreeTyped
<1>4. Cardinality({w} \cap nHeld) = IF w \in nHeld THEN 1 ELSE 0
  <2>1. CASE w \in nHeld
    <3>1. {w} \cap nHeld = {w}
      BY <2>1
    <3> QED
      BY <2>1, <3>1, FS_Singleton
  <2>2. CASE w \notin nHeld
    <3>1. {w} \cap nHeld = {}
      BY <2>2
    <3> QED
      BY <2>2, <3>1, FS_EmptySet
  <2> QED
    BY <2>1, <2>2
<1> QED
  BY <1>2, <1>3, <1>4

(* What is held, or in a list, is there. *)
LEMMA CountedIsThere ==
  ASSUME TreeTyped, Counted, NEW w \in N!Widgets
  PROVE  /\ nRef[w] \in Nat
         /\ w \in nHeld => nRef[w] > 0
         /\ \A p \in N!Panels : PutIn(p, w) => nRef[w] > 0
         /\ \A g \in N!Widgets : \A i \in DOMAIN nList[g] : nList[g][i] = w => nRef[w] > 0
         /\ \A p \in N!Panels : \A i \in DOMAIN nRoots[p] : nRoots[p][i] = w => nRef[w] > 0
<1>1. nRef[w] = (IF w \in nHeld THEN 1 ELSE 0)
                + Cardinality(N!Places(nList, w)) + Cardinality(N!Places(nRoots, w))
  BY CountedIs DEF Counted
<1>2. Cardinality(N!Places(nList, w)) \in Nat /\ Cardinality(N!Places(nRoots, w)) \in Nat
  BY CountedIs
<1>3. \A g \in N!Widgets : \A i \in DOMAIN nList[g] : nList[g][i] = w => nRef[w] > 0
  <2> SUFFICES ASSUME NEW g \in N!Widgets, NEW i \in DOMAIN nList[g], nList[g][i] = w
               PROVE  nRef[w] > 0
    OBVIOUS
  <2>1. g \in DOMAIN nList
    BY Shapes
  <2>2. <<g, i>> \in N!Places(nList, w)
    BY <2>1, IsPlace
  <2>3. Cardinality(N!Places(nList, w)) # 0
    BY <2>2, CountedIs, FS_EmptySet
  <2> QED
    BY <1>1, <1>2, <2>3
<1>4. \A p \in N!Panels : \A i \in DOMAIN nRoots[p] : nRoots[p][i] = w => nRef[w] > 0
  <2> SUFFICES ASSUME NEW p \in N!Panels, NEW i \in DOMAIN nRoots[p], nRoots[p][i] = w
               PROVE  nRef[w] > 0
    OBVIOUS
  <2>1. p \in DOMAIN nRoots
    BY Shapes
  <2>2. <<p, i>> \in N!Places(nRoots, w)
    BY <2>1, IsPlace
  <2>3. Cardinality(N!Places(nRoots, w)) # 0
    BY <2>2, CountedIs, FS_EmptySet
  <2> QED
    BY <1>1, <1>2, <2>3
<1> QED
  BY <1>1, <1>2, <1>3, <1>4 DEF PutIn

-----------------------------------------------------------------------------
(* The widgets and the places they are in stay as they are.                *)
TreeStays ==
  /\ UNCHANGED <<nKind, nParent, nList, nRef, nHeld, nLast, nRoots>>
  /\ nPanel' \in Seq({"live", "closing", "gone"}) /\ Len(nPanel') = Len(nPanel)

(* With the tree as it was, what is said of it is still so. *)
LEMMA StaysSound ==
  ASSUME TreeTyped, Counted, TreeStays
  PROVE  /\ TreeTyped' /\ Counted'
         /\ Rooted => Rooted'
         /\ N!Panels' = N!Panels
         /\ \A p, l : Reached(p, l) => Reached(p, l)'
<1>1. N!Widgets' = N!Widgets
  BY DEF TreeStays, N!Widgets
<1>2. DOMAIN nPanel' = 1 .. Len(nPanel)
  BY LenProperties DEF TreeStays
<1>3. N!Panels' = N!Panels
  BY <1>2, Shapes DEF N!Panels
<1>4. TreeTyped'
  BY <1>1, <1>3 DEF TreeTyped, TreeStays, GroupOrNone
<1>5. Counted'
  BY <1>1 DEF Counted, TreeStays
<1>6. Rooted => Rooted'
  BY <1>1 DEF Rooted, TreeStays, There
<1>7. \A p, l : Reached(p, l) => Reached(p, l)'
  BY <1>1 DEF Reached, PutIn, TreeStays
<1> QED
  BY <1>3, <1>4, <1>5, <1>6, <1>7

(* A step that leaves the tree alone has only to keep the walks right. *)
LEMMA StaysInv ==
  ASSUME WindowsInv, nFault = "none", TreeStays, ThreadsTyped', nMisuse' \in BOOLEAN,
         nMisuse => nMisuse', ~nMisuse' => nFault' = "none",
         \A p \in N!Panels : nPanel'[p] = "gone" => nThread'[p] = "dead",
         \A p \in N!Panels : nThread'[p] # "dead" =>
           \A i \in DOMAIN nPath'[p] : Reached(p, nPath'[p][i].in)
  PROVE  WindowsInv'
<1>1. TreeTyped /\ Counted /\ (~nMisuse => Rooted)
  BY DEF WindowsInv
<1>2. TreeTyped' /\ Counted' /\ (~nMisuse => Rooted') /\ N!Panels' = N!Panels
  BY <1>1, StaysSound
<1>3. \A p, l : Reached(p, l) => Reached(p, l)'
  BY <1>1, StaysSound
<1>4. Walked'
  BY <1>2, <1>3 DEF Walked
<1> QED
  BY <1>2, <1>4 DEF WindowsInv

(* How the tables of the threads are indexed, and with what they are filled. *)
LEMMA ThreadShapes ==
  ASSUME TreeTyped, ThreadsTyped
  PROVE  /\ DOMAIN nThread = N!Panels /\ DOMAIN nPath = N!Panels
         /\ \A p \in N!Panels : /\ nPanel[p] \in {"live", "closing", "gone"}
                                /\ nThread[p] \in {"wait", "walk", "draw", "dead"}
                                /\ nPath[p] \in Seq(Step)
<1>1. DOMAIN nThread = 1 .. Len(nPanel) /\ DOMAIN nPath = 1 .. Len(nPanel)
  BY LenProperties DEF ThreadsTyped
<1>2. N!Panels = 1 .. Len(nPanel)
  BY Shapes
<1> QED
  BY <1>1, <1>2, ElementOfSeq DEF ThreadsTyped, TreeTyped

-----------------------------------------------------------------------------
(* What the threads do. *)
LEMMA AddedInv ==
  ASSUME WindowsInv, N!Added
  PROVE  WindowsInv'
<1>1. /\ UNCHANGED <<nPanel, nLast, nRoots, nKind, nParent, nList, nRef, nHeld>>
      /\ UNCHANGED <<nThread, nPath, nMisuse, nFault>> /\ nFault = "none"
  BY DEF N!Added, N!tree, N!walks
<1>2. TreeTyped /\ ThreadsTyped /\ Walked
  BY <1>1 DEF WindowsInv
<1>3. TreeStays /\ ThreadsTyped'
  BY <1>1, <1>2 DEF TreeStays, TreeTyped, ThreadsTyped
<1> QED
  BY <1>1, <1>2, <1>3, StaysInv DEF WindowsInv, Walked

(* A panel that closes is not gone yet. *)
LEMMA CloseInv ==
  ASSUME WindowsInv, NEW p \in N!Panels, N!Close(p)
  PROVE  WindowsInv'
<1>1. /\ UNCHANGED <<nLast, nRoots, nKind, nParent, nList, nRef, nHeld>>
      /\ UNCHANGED <<nThread, nPath, nMisuse, nFault>> /\ nFault = "none"
      /\ nPanel' = [nPanel EXCEPT ![p] = "closing"]
  BY DEF N!Close, N!tree, N!walks, N!Idle
<1>2. TreeTyped /\ ThreadsTyped /\ Walked
  BY <1>1 DEF WindowsInv
<1>3. p \in 1 .. Len(nPanel) /\ N!Panels = 1 .. Len(nPanel)
  BY <1>2, Shapes
<1>4. /\ nPanel' \in Seq({"live", "closing", "gone"}) /\ Len(nPanel') = Len(nPanel)
      /\ \A q \in N!Panels : nPanel'[q] = IF q = p THEN "closing" ELSE nPanel[q]
  BY <1>1, <1>2, <1>3, ExceptSeq DEF TreeTyped
<1>5. TreeStays /\ ThreadsTyped'
  BY <1>1, <1>2, <1>4 DEF TreeStays, ThreadsTyped
<1>6. \A q \in N!Panels : nPanel'[q] = "gone" => nThread'[q] = "dead"
  BY <1>1, <1>2, <1>4 DEF Walked
<1> QED
  BY <1>1, <1>2, <1>5, <1>6, StaysInv DEF WindowsInv, Walked

(* A thread that has ended walks no more. *)
LEMMA CancelledInv ==
  ASSUME WindowsInv, NEW p \in N!Panels, N!Cancelled(p)
  PROVE  WindowsInv'
<1>1. /\ UNCHANGED <<nPanel, nLast, nRoots, nKind, nParent, nList, nRef, nHeld>>
      /\ UNCHANGED <<nPath, nMisuse, nFault>>
      /\ nThread' = [nThread EXCEPT ![p] = "dead"]
  BY DEF N!Cancelled, N!tree
<1>2. CASE nFault # "none"
  BY <1>1, <1>2 DEF WindowsInv
<1>3. CASE nFault = "none"
  <2>1. TreeTyped /\ ThreadsTyped /\ Walked
    BY <1>3 DEF WindowsInv
  <2>2. p \in 1 .. Len(nThread) /\ N!Panels = 1 .. Len(nThread)
    BY <2>1, Shapes DEF ThreadsTyped
  <2>3. /\ nThread' \in Seq({"wait", "walk", "draw", "dead"}) /\ Len(nThread') = Len(nThread)
        /\ \A q \in N!Panels : nThread'[q] = IF q = p THEN "dead" ELSE nThread[q]
    BY <1>1, <2>1, <2>2, ExceptSeq DEF ThreadsTyped
  <2>4. TreeStays /\ ThreadsTyped'
    BY <1>1, <2>1, <2>3 DEF TreeStays, TreeTyped, ThreadsTyped
  <2>5. /\ \A q \in N!Panels : nPanel'[q] = "gone" => nThread'[q] = "dead"
        /\ \A q \in N!Panels : nThread'[q] # "dead" => nThread[q] # "dead"
    BY <1>1, <2>1, <2>3 DEF Walked
  <2>6. \A q \in N!Panels : nThread'[q] # "dead" =>
          \A i \in DOMAIN nPath'[q] : Reached(q, nPath'[q][i].in)
    BY <1>1, <2>1, <2>5 DEF Walked
  <2> QED
    BY <1>1, <1>3, <2>4, <2>5, <2>6, StaysInv DEF WindowsInv
<1> QED
  BY <1>2, <1>3

(* A thread of a panel makes a step, and its walk goes on.                 *)
LEMMA ThreadInv ==
  ASSUME WindowsInv, NEW p \in N!Panels, N!Alive(p),
         UNCHANGED <<nPanel, nLast, nRoots, nKind, nParent, nList, nRef, nHeld>>,
         NEW t \in {"wait", "walk", "draw"}, nThread' = [nThread EXCEPT ![p] = t],
         NEW s \in Seq(Step), nPath' = [nPath EXCEPT ![p] = s],
         \A i \in DOMAIN s : Reached(p, s[i].in),
         nMisuse' \in BOOLEAN, nMisuse => nMisuse', ~nMisuse' => nFault' = "none"
  PROVE  WindowsInv'
<1>1. nFault = "none" /\ nThread[p] # "dead"
  BY DEF N!Alive
<1>2. TreeTyped /\ ThreadsTyped /\ Walked
  BY <1>1 DEF WindowsInv
<1>3. p \in 1 .. Len(nPanel) /\ N!Panels = 1 .. Len(nPanel)
  BY <1>2, Shapes
<1>4. /\ nThread' \in Seq({"wait", "walk", "draw", "dead"}) /\ Len(nThread') = Len(nThread)
      /\ \A q \in N!Panels : nThread'[q] = IF q = p THEN t ELSE nThread[q]
  BY <1>2, <1>3, ExceptSeq DEF ThreadsTyped
<1>5. /\ nPath' \in Seq(Seq(Step)) /\ Len(nPath') = Len(nPath)
      /\ \A q \in N!Panels : nPath'[q] = IF q = p THEN s ELSE nPath[q]
  BY <1>2, <1>3, ExceptSeq DEF ThreadsTyped
<1>6. TreeStays /\ ThreadsTyped'
  BY <1>2, <1>4, <1>5 DEF TreeStays, TreeTyped, ThreadsTyped
<1>7. \A q \in N!Panels : nPanel'[q] = "gone" => nThread'[q] = "dead"
  BY <1>1, <1>2, <1>4 DEF Walked
<1>8. \A q \in N!Panels : nThread'[q] # "dead" =>
        \A i \in DOMAIN nPath'[q] : Reached(q, nPath'[q][i].in)
  <2> SUFFICES ASSUME NEW q \in N!Panels, nThread'[q] # "dead", NEW i \in DOMAIN nPath'[q]
               PROVE  Reached(q, nPath'[q][i].in)
    OBVIOUS
  <2>1. CASE q = p
    BY <1>5, <2>1
  <2>2. CASE q # p
    BY <1>2, <1>4, <1>5, <2>2 DEF Walked
  <2> QED
    BY <2>1, <2>2
<1> QED
  BY <1>1, <1>6, <1>7, <1>8, StaysInv

-----------------------------------------------------------------------------
(* Where the walk of a panel is. *)
LEMMA HereIs ==
  ASSUME WindowsInv, NEW p \in N!Panels, N!Alive(p), nPath[p] # <<>>
  PROVE  /\ TreeTyped /\ ThreadsTyped /\ Counted /\ Walked /\ nFault = "none"
         /\ nPath[p] \in Seq(Step) /\ Len(nPath[p]) \in Nat \ {0}
         /\ \A i \in DOMAIN nPath[p] : Reached(p, nPath[p][i].in)
         /\ N!Here(p) = nPath[p][Len(nPath[p])]
         /\ N!Here(p) \in Step
         /\ Reached(p, N!Here(p).in)
         /\ nPanel[p] # "gone"
<1>1. nFault = "none" /\ nThread[p] # "dead"
  BY DEF N!Alive
<1>2. TreeTyped /\ ThreadsTyped /\ Counted /\ Walked
  BY <1>1 DEF WindowsInv
<1>3. nPath[p] \in Seq(Step)
  BY <1>2, ThreadShapes
<1>4. Len(nPath[p]) \in Nat \ {0} /\ DOMAIN nPath[p] = 1 .. Len(nPath[p])
  BY <1>3, EmptySeq, LenProperties
<1>5. \A i \in DOMAIN nPath[p] : Reached(p, nPath[p][i].in)
  BY <1>1, <1>2 DEF Walked
<1>6. N!Here(p) = nPath[p][Len(nPath[p])]
  BY DEF N!Here
<1>7. N!Here(p) \in Step
  BY <1>3, <1>4, <1>6, ElementOfSeq
<1> QED
  BY <1>1, <1>2, <1>3, <1>4, <1>5, <1>6, <1>7 DEF Walked

(* The list that a walk is in is there: only one who looks at it while it  *)
(* is added to can be wrong.                                               *)
LEMMA ListIsThere ==
  ASSUME WindowsInv, NEW p \in N!Panels, N!Alive(p), nPath[p] # <<>>,
         NEW f \in N!ListFault(p)
  PROVE  f = "none" \/ nAdding = N!Here(p).in
<1> DEFINE l == N!Here(p).in
<1>1. /\ TreeTyped /\ Counted /\ Reached(p, l) /\ nPanel[p] # "gone"
  BY HereIs
<1>2. IF l[1] = "panel" THEN nPanel[l[2]] # "gone" ELSE nRef[l[2]] # 0
  <2>1. CASE l = <<"panel", p>>
    BY <1>1, <2>1
  <2>2. CASE \E w \in N!Widgets : l = <<"group", w>> /\ PutIn(p, w)
    <3>1. PICK w \in N!Widgets : l = <<"group", w>> /\ PutIn(p, w)
      BY <2>2
    <3>2. nRef[w] > 0 /\ nRef[w] \in Nat
      BY <1>1, <3>1, CountedIsThere
    <3> QED
      BY <3>1, <3>2
  <2> QED
    BY <1>1, <2>1, <2>2 DEF Reached
<1>3. f \in (IF nAdding = l THEN {"raced", "none"} ELSE {"none"})
  BY <1>2 DEF N!ListFault
<1> QED
  BY <1>3

(* Anything but a string that is met is a widget that is there.            *)
LEMMA MetIsThere ==
  ASSUME WindowsInv, NEW p \in N!Panels, N!Alive(p), nPath[p] # <<>>,
         N!Here(p).at <= Len(N!Items(N!Here(p).in))
  PROVE  LET l == N!Here(p).in
             x == N!Items(l)[N!Here(p).at]
             strings == l[1] = "group" /\ nKind[l[2]] \in N!Texts
         IN  /\ ~strings => x \in N!Widgets /\ nRef[x] > 0 /\ PutIn(p, x)
             /\ strings /\ ~nMisuse => x = 0
<1> DEFINE l == N!Here(p).in
           at == N!Here(p).at
           x == N!Items(l)[at]
           strings == l[1] = "group" /\ nKind[l[2]] \in N!Texts
<1>1. /\ TreeTyped /\ Counted /\ Reached(p, l) /\ at \in Nat \ {0} /\ nFault = "none"
  BY HereIs DEF Step
<1>2. CASE l = <<"panel", p>>
  <2>1. N!Items(l) = nRoots[p]
    BY <1>2 DEF N!Items
  <2>2. DOMAIN nRoots[p] = 1 .. Len(nRoots[p])
    BY <1>1, Shapes, LenProperties
  <2>3. Len(nRoots[p]) \in Nat
    BY <1>1, Shapes, LenProperties
  <2>4. at \in DOMAIN nRoots[p]
    BY <1>1, <2>1, <2>2, <2>3
  <2>5. x = nRoots[p][at] /\ x \in N!Widgets
    BY <1>1, <2>1, <2>4 DEF TreeTyped
  <2>6. nRef[x] > 0 /\ PutIn(p, x)
    BY <1>1, <2>4, <2>5, CountedIsThere DEF PutIn
  <2>7. ~strings
    BY <1>2
  <2> QED
    BY <2>5, <2>6, <2>7
<1>3. ASSUME NEW g \in N!Widgets, l = <<"group", g>>
      PROVE  /\ ~strings => x \in N!Widgets /\ nRef[x] > 0 /\ PutIn(p, x)
             /\ strings /\ ~nMisuse => x = 0
  <2>1. N!Items(l) = nList[g] /\ (strings <=> nKind[g] \in N!Texts)
    BY <1>3 DEF N!Items
  <2>2. DOMAIN nList[g] = 1 .. Len(nList[g])
    BY <1>1, Shapes, LenProperties
  <2>3. Len(nList[g]) \in Nat
    BY <1>1, Shapes, LenProperties
  <2>4. at \in DOMAIN nList[g] /\ x = nList[g][at]
    BY <1>1, <2>1, <2>2, <2>3
  <2>5. ASSUME ~strings
        PROVE  x \in N!Widgets /\ nRef[x] > 0 /\ PutIn(p, x)
    <3>1. x \in N!Widgets
      BY <1>1, <2>1, <2>4, <2>5 DEF TreeTyped
    <3> QED
      BY <1>1, <2>4, <3>1, CountedIsThere DEF PutIn
  <2>6. ASSUME strings, ~nMisuse
        PROVE  x = 0
    BY <1>1, <2>1, <2>4, <2>6 DEF WindowsInv, Rooted
  <2> QED
    BY <2>5, <2>6
<1>4. l = <<"panel", p>> \/ \E g \in N!Widgets : l = <<"group", g>>
  BY <1>1 DEF Reached
<1> QED
  BY <1>2, <1>3, <1>4

(* A walk begins in the list of its own panel. *)
LEMMA XLockInv ==
  ASSUME WindowsInv, NEW p \in N!Panels, N!XLock(p)
  PROVE  WindowsInv'
<1> DEFINE s == <<[in |-> <<"panel", p>>, at |-> 1]>>
<1>1. /\ UNCHANGED <<nPanel, nLast, nRoots, nKind, nParent, nList, nRef, nHeld>>
      /\ UNCHANGED <<nMisuse, nFault>> /\ N!Alive(p)
      /\ nThread' = [nThread EXCEPT ![p] = "walk"]
      /\ nPath' = [nPath EXCEPT ![p] = s]
  BY DEF N!XLock, N!tree
<1>2. nFault = "none" /\ TreeTyped
  BY <1>1 DEF N!Alive, WindowsInv
<1>3. p \in Nat
  BY <1>2, Shapes
<1>4. s \in Seq(Step) /\ DOMAIN s = {1} /\ s[1].in = <<"panel", p>>
  BY <1>3 DEF Step
<1>5. \A i \in DOMAIN s : Reached(p, s[i].in)
  BY <1>4 DEF Reached
<1> HIDE DEF s
<1>6. "walk" \in {"wait", "walk", "draw"}
  OBVIOUS
<1> QED
  BY <1>1, <1>2, <1>4, <1>5, <1>6, ThreadInv DEF WindowsInv

(* A window is drawn: its walk is over. *)
LEMMA DrawInv ==
  ASSUME WindowsInv, NEW p \in N!Panels, N!Draw(p)
  PROVE  WindowsInv'
<1>1. /\ UNCHANGED <<nPanel, nLast, nRoots, nKind, nParent, nList, nRef, nHeld>>
      /\ UNCHANGED <<nPath, nMisuse, nFault>> /\ N!Alive(p)
      /\ nThread' = [nThread EXCEPT ![p] = "wait"]
  BY DEF N!Draw, N!tree
<1>2. nFault = "none" /\ TreeTyped /\ ThreadsTyped /\ Walked /\ nThread[p] # "dead"
  BY <1>1 DEF N!Alive, WindowsInv
<1>3. /\ DOMAIN nPath = N!Panels /\ nPath[p] \in Seq(Step)
      /\ nPath \in Seq(Seq(Step))
  BY <1>2, ThreadShapes DEF ThreadsTyped
<1>4. nPath' = [nPath EXCEPT ![p] = nPath[p]]
  BY <1>1, <1>3
<1>5. \A i \in DOMAIN nPath[p] : Reached(p, nPath[p][i].in)
  BY <1>2 DEF Walked
<1>6. "wait" \in {"wait", "walk", "draw"}
  OBVIOUS
<1> QED
  BY <1>1, <1>2, <1>3, <1>4, <1>5, <1>6, ThreadInv DEF WindowsInv

(* A list that a walk leaves was there, or is added to meanwhile, which is *)
(* misuse.                                                                 *)
LEMMA LeaveInv ==
  ASSUME WindowsInv, NEW p \in N!Panels, N!Leave(p)
  PROVE  WindowsInv'
<1> DEFINE n == Len(nPath[p])
           s == SubSeq(nPath[p], 1, n - 1)
           t == IF n = 1 THEN "draw" ELSE "walk"
<1>1. /\ UNCHANGED <<nPanel, nLast, nRoots, nKind, nParent, nList, nRef, nHeld>>
      /\ N!Alive(p) /\ nPath[p] # <<>> /\ nThread[p] = "walk"
      /\ nThread' = IF n = 1 THEN [nThread EXCEPT ![p] = "draw"] ELSE nThread
      /\ nPath' = [nPath EXCEPT ![p] = SubSeq(@, 1, Len(@) - 1)]
      /\ \E f \in N!ListFault(p) : N!Fault(f)
      /\ N!Misuse(nAdding = N!Here(p).in)
  BY DEF N!Leave, N!tree
<1>2. /\ nFault = "none" /\ TreeTyped /\ ThreadsTyped
      /\ nPath[p] \in Seq(Step) /\ n \in Nat \ {0}
      /\ \A i \in DOMAIN nPath[p] : Reached(p, nPath[p][i].in)
  BY <1>1, HereIs
<1>3. /\ DOMAIN nPath = N!Panels /\ DOMAIN nThread = N!Panels
  BY <1>2, ThreadShapes
<1>4. nPath' = [nPath EXCEPT ![p] = s]
  BY <1>1, <1>3
<1>5. nThread' = [nThread EXCEPT ![p] = t]
  <2>1. CASE n = 1
    BY <1>1, <2>1
  <2>2. CASE n # 1
    BY <1>1, <1>2, <1>3, <2>2 DEF ThreadsTyped
  <2> QED
    BY <2>1, <2>2
<1>6. DOMAIN nPath[p] = 1 .. n
  BY <1>2, LenProperties
<1>7. \A i \in 1 .. n - 1 : nPath[p][i] \in Step
  BY <1>2, ElementOfSeq
<1>8. /\ s \in Seq(Step) /\ Len(s) = n - 1
      /\ \A i \in 1 .. n - 1 : s[i] = nPath[p][i]
  <2>1. /\ SubSeq(nPath[p], 1, n - 1) \in Seq(Step)
        /\ Len(SubSeq(nPath[p], 1, n - 1)) = IF 1 <= n - 1 THEN (n - 1) - 1 + 1 ELSE 0
        /\ \A i \in 1 .. (n - 1) - 1 + 1 : SubSeq(nPath[p], 1, n - 1)[i] = nPath[p][1 + i - 1]
    BY <1>2, <1>7, SubSeqProperties
  <2> QED
    BY <1>2, <2>1
<1>9. \A i \in DOMAIN s : Reached(p, s[i].in)
  <2>1. DOMAIN s = 1 .. n - 1
    BY <1>8, LenProperties
  <2> QED
    BY <1>2, <1>6, <1>8, <2>1
<1>10. nMisuse' \in BOOLEAN /\ (nMisuse => nMisuse') /\ (~nMisuse' => nFault' = "none")
  <2>1. PICK f \in N!ListFault(p) : N!Fault(f)
    BY <1>1
  <2>2. f = "none" \/ nAdding = N!Here(p).in
    BY <1>1, ListIsThere
  <2>3. nFault' = f /\ nMisuse' = (nMisuse \/ nAdding = N!Here(p).in)
    BY <1>1, <1>2, <2>1 DEF N!Fault, N!Misuse
  <2> QED
    BY <2>2, <2>3
<1>11. t \in {"wait", "walk", "draw"}
  OBVIOUS
<1> HIDE DEF s, t
<1> QED
  BY <1>1, <1>4, <1>5, <1>8, <1>9, <1>10, <1>11, ThreadInv

(* What a walk meets is there, and so is what it enters: a widget that a   *)
(* list holds is counted.                                                  *)
LEMMA VisitInv ==
  ASSUME WindowsInv, NEW p \in N!Panels, N!Visit(p)
  PROVE  WindowsInv'
<1> DEFINE n == Len(nPath[p])
           l == N!Here(p).in
           x == N!Items(l)[N!Here(p).at]
           strings == l[1] = "group" /\ nKind[l[2]] \in N!Texts
           menu == l[1] = "group" /\ nKind[l[2]] = "Menu"
           bad == IF strings /\ x # N!Text THEN {"misread"}
                  ELSE IF menu THEN {"bounds", "none"}
                  ELSE IF strings THEN {"none"}
                  ELSE IF nRef[x] = 0 THEN {"stale"}
                  ELSE {"none"}
           deeper == [in |-> <<"group", x>>, at |-> 1]
<1>1. /\ UNCHANGED <<nPanel, nLast, nRoots, nKind, nParent, nList, nRef, nHeld, nThread>>
      /\ N!Alive(p) /\ nPath[p] # <<>> /\ nThread[p] = "walk"
      /\ N!Here(p).at <= Len(N!Items(l))
      /\ \/ nPath' = [nPath EXCEPT ![p] = N!Onward(p)]
         \/ ~strings /\ nPath' = [nPath EXCEPT ![p] = Append(N!Onward(p), deeper)]
      /\ \E f \in N!ListFault(p), b \in bad : N!Fault(IF f # "none" THEN f ELSE b)
      /\ N!Misuse(nAdding = l \/ menu)
  BY DEF N!Visit, N!tree
<1>2. /\ nFault = "none" /\ TreeTyped /\ ThreadsTyped
      /\ nPath[p] \in Seq(Step) /\ n \in Nat \ {0}
      /\ \A i \in DOMAIN nPath[p] : Reached(p, nPath[p][i].in)
      /\ N!Here(p) = nPath[p][n] /\ N!Here(p) \in Step
  BY <1>1, HereIs
<1>3. /\ ~strings => x \in N!Widgets /\ nRef[x] > 0 /\ PutIn(p, x)
      /\ strings /\ ~nMisuse => x = 0
  BY <1>1, MetIsThere
<1>4. nMisuse' \in BOOLEAN /\ (nMisuse => nMisuse') /\ (~nMisuse' => nFault' = "none")
  <2>1. PICK f \in N!ListFault(p), b \in bad : N!Fault(IF f # "none" THEN f ELSE b)
    BY <1>1
  <2>2. f = "none" \/ nAdding = l
    BY <1>1, ListIsThere
  <2>3. nMisuse' = (nMisuse \/ nAdding = l \/ menu)
    BY <1>1 DEF N!Misuse
  <2>4. nFault' = IF f # "none" THEN f ELSE b
    BY <1>2, <2>1 DEF N!Fault
  <2>5. ASSUME ~nMisuse, ~menu PROVE b = "none"
    <3>1. CASE strings
      BY <1>3, <2>5, <3>1 DEF N!Text
    <3>2. CASE ~strings
      BY <1>3, <2>5, <3>2
    <3> QED
      BY <3>1, <3>2
  <2> HIDE DEF menu, bad, l
  <2> QED
    BY <2>2, <2>3, <2>4, <2>5
<1>5. /\ N!Onward(p) \in Seq(Step) /\ Len(N!Onward(p)) = n
      /\ \A i \in DOMAIN N!Onward(p) : Reached(p, N!Onward(p)[i].in)
  <2> DEFINE e == [nPath[p][n] EXCEPT !.at = @ + 1]
  <2>1. e \in Step /\ e.in = nPath[p][n].in
    <3>1. nPath[p][n] \in [in : {"panel", "group"} \X Nat, at : Nat \ {0}]
      BY <1>2 DEF Step
    <3>2. nPath[p][n].at + 1 \in Nat \ {0}
      BY <3>1
    <3>3. e \in [in : {"panel", "group"} \X Nat, at : Nat \ {0}] /\ e.in = nPath[p][n].in
      BY <3>1, <3>2
    <3> QED
      BY <3>3 DEF Step
  <2>2. n \in 1 .. Len(nPath[p]) /\ DOMAIN nPath[p] = 1 .. n
    BY <1>2, LenProperties
  <2>3. N!Onward(p) = [nPath[p] EXCEPT ![n] = e]
    BY <1>2, <2>2 DEF N!Onward
  <2> HIDE DEF e
  <2>4. /\ N!Onward(p) \in Seq(Step) /\ Len(N!Onward(p)) = n
        /\ \A i \in 1 .. n : N!Onward(p)[i] = IF i = n THEN e ELSE nPath[p][i]
    BY <1>2, <2>1, <2>2, <2>3, ExceptSeq
  <2>5. DOMAIN N!Onward(p) = 1 .. n
    BY <2>4, LenProperties
  <2>6. \A i \in 1 .. n : Reached(p, nPath[p][i].in)
    BY <1>2, <2>2
  <2>7. \A i \in 1 .. n : N!Onward(p)[i].in = nPath[p][i].in
    BY <2>1, <2>4
  <2>8. \A i \in 1 .. n : Reached(p, N!Onward(p)[i].in)
    BY <2>6, <2>7
  <2> QED
    BY <2>4, <2>5, <2>8
<1>6. nThread' = [nThread EXCEPT ![p] = "walk"]
  <2>1. nThread' = nThread /\ nThread[p] = "walk"
    BY <1>1
  <2>2. nThread \in Seq({"wait", "walk", "draw", "dead"})
    BY <1>2 DEF ThreadsTyped
  <2>3. nThread = [nThread EXCEPT ![p] = nThread[p]]
    BY <2>2
  <2> QED
    BY <2>1, <2>3
<1>7. "walk" \in {"wait", "walk", "draw"}
  OBVIOUS
<1>8. CASE nPath' = [nPath EXCEPT ![p] = N!Onward(p)]
  BY <1>1, <1>4, <1>5, <1>6, <1>7, <1>8, ThreadInv
<1>9. CASE ~strings /\ nPath' = [nPath EXCEPT ![p] = Append(N!Onward(p), deeper)]
  <2> DEFINE s == Append(N!Onward(p), deeper)
  <2>1. x \in N!Widgets /\ PutIn(p, x)
    BY <1>3, <1>9
  <2>2. x \in Nat
    BY <1>2, <2>1, Shapes
  <2>3. deeper \in Step /\ deeper.in = <<"group", x>>
    BY <2>2 DEF Step
  <2>4. Reached(p, deeper.in)
    BY <2>1, <2>3 DEF Reached
  <2> HIDE DEF deeper
  <2>5. /\ s \in Seq(Step) /\ Len(s) = n + 1
        /\ \A i \in 1 .. n : s[i] = N!Onward(p)[i]
        /\ s[n + 1] = deeper
    BY <1>5, <2>3, AppendProperties
  <2>6. DOMAIN s = 1 .. n + 1 /\ DOMAIN N!Onward(p) = 1 .. n
    BY <1>5, <2>5, LenProperties
  <2>7. \A i \in DOMAIN s : Reached(p, s[i].in)
    <3> TAKE i \in DOMAIN s
    <3>1. CASE i \in 1 .. n
      BY <1>5, <2>5, <2>6, <3>1
    <3>2. CASE i = n + 1
      BY <2>4, <2>5, <3>2
    <3> QED
      BY <1>2, <2>6, <3>1, <3>2
  <2>8. nPath' = [nPath EXCEPT ![p] = s]
    BY <1>9
  <2> HIDE DEF s
  <2> QED
    BY <1>1, <1>4, <1>6, <1>7, <2>5, <2>7, <2>8, ThreadInv
<1> QED
  BY <1>1, <1>8, <1>9

-----------------------------------------------------------------------------
(* A list with x put in it, or not. *)
Longer(old, new, x) ==
  /\ \A i \in DOMAIN old : i \in DOMAIN new /\ new[i] = old[i]
  /\ \A i \in DOMAIN new : new[i] = x \/ i \in DOMAIN old

(* What is put at the end makes a list longer; one left alone is as good. *)
LEMMA AppendIsLonger ==
  ASSUME NEW s \in Seq(Nat), NEW x \in Nat
  PROVE  Longer(s, Append(s, x), x) /\ Longer(s, s, x)
<1>1. /\ Append(s, x) \in Seq(Nat) /\ Len(Append(s, x)) = Len(s) + 1
      /\ \A i \in 1 .. Len(s) : Append(s, x)[i] = s[i]
      /\ Append(s, x)[Len(s) + 1] = x
      /\ Len(s) \in Nat /\ DOMAIN s = 1 .. Len(s)
  BY AppendProperties, LenProperties
<1>2. DOMAIN Append(s, x) = 1 .. Len(s) + 1
  BY <1>1, LenProperties
<1> QED
  BY <1>1, <1>2 DEF Longer

(* A widget is not anywhere before it is made. *)
LEMMA NewIsNowhere ==
  ASSUME TreeTyped
  PROVE  LET w == Len(nKind) + 1
         IN  /\ w \notin nHeld /\ w \notin N!Widgets
             /\ N!Places(nList, w) = {} /\ N!Places(nRoots, w) = {}
<1> DEFINE w == Len(nKind) + 1
<1>1. /\ N!Widgets = 1 .. Len(nKind) /\ Len(nKind) \in Nat
      /\ DOMAIN nList = N!Widgets /\ DOMAIN nRoots = N!Panels
  BY Shapes
<1>2. w \notin N!Widgets /\ w # 0
  BY <1>1
<1>3. w \notin nHeld
  BY <1>2 DEF TreeTyped
<1>4. N!Places(nList, w) = {}
  <2> SUFFICES ASSUME NEW e \in N!Places(nList, w) PROVE FALSE
    OBVIOUS
  <2>1. PICK g \in DOMAIN nList : \E i \in DOMAIN nList[g] : nList[g][i] = w /\ e = <<g, i>>
    BY IsPlace
  <2> QED
    BY <1>1, <1>2, <2>1 DEF TreeTyped
<1>5. N!Places(nRoots, w) = {}
  <2> SUFFICES ASSUME NEW e \in N!Places(nRoots, w) PROVE FALSE
    OBVIOUS
  <2>1. PICK g \in DOMAIN nRoots : \E i \in DOMAIN nRoots[g] : nRoots[g][i] = w /\ e = <<g, i>>
    BY IsPlace
  <2> QED
    BY <1>1, <1>2, <2>1 DEF TreeTyped
<1> QED
  BY <1>2, <1>3, <1>4, <1>5

(* A widget is made, in the group g, and put in at most one list: it is    *)
(* counted by its variable and by the list.                                *)
Made(w, k, g, c) ==
  /\ nKind' = Append(nKind, k) /\ nParent' = Append(nParent, g) /\ nRef' = Append(nRef, c)
  /\ nHeld' = nHeld \cup {w}
  /\ \/ nLast' = nLast
     \/ /\ k \in N!Groups /\ Len(nPanel) > 0
        /\ nLast' = [nLast EXCEPT ![Len(nPanel)] = w]
  /\ UNCHANGED <<nPanel, nThread, nPath, nFault>>

(* The lists of the groups when w is made: its own is empty, and in another*)
(* w may be the last.  A Menu or a Combo gets no widget without misuse.    *)
PutIntoList(w) ==
  /\ nList' \in Seq(Seq(Nat)) /\ Len(nList') = w /\ nList'[w] = <<>>
  /\ \A u \in N!Widgets : Len(nList'[u]) <= MaxItems /\ Longer(nList[u], nList'[u], w)
  /\ ~nMisuse' => \A u \in N!Widgets : nKind[u] \in N!Texts => nList'[u] = nList[u]

(* The same of those of the panels. *)
PutIntoRoots(w) ==
  /\ nRoots' \in Seq(Seq(Nat)) /\ Len(nRoots') = Len(nPanel)
  /\ \A p \in N!Panels : Len(nRoots'[p]) <= MaxItems /\ Longer(nRoots[p], nRoots'[p], w)

(* Of the c references to w one is its variable, and lists hold the others. *)
CountsOf(w, c) ==
  \A u : /\ Cardinality(N!Places(nList', u)) \in Nat
         /\ Cardinality(N!Places(nRoots', u)) \in Nat
         /\ Cardinality(N!Places(nList', u)) + Cardinality(N!Places(nRoots', u)) =
               Cardinality(N!Places(nList, u)) + Cardinality(N!Places(nRoots, u))
               + (IF u = w THEN c - 1 ELSE 0)

(* A widget is made and put where it is counted: nothing else is counted   *)
(* otherwise, and what walks were in they are still in.                    *)
LEMMA Grown ==
  ASSUME WindowsInv, nFault = "none", ~nMisuse, nMisuse' \in BOOLEAN,
         NEW w, w = Len(nKind) + 1,
         NEW k \in N!Kinds, NEW g \in Nat, GroupOrNone(g), There(g), NEW c \in Nat \ {0},
         Made(w, k, g, c), PutIntoList(w), PutIntoRoots(w), CountsOf(w, c)
  PROVE  WindowsInv'
<1>1. TreeTyped /\ ThreadsTyped /\ Counted /\ Walked /\ Rooted
  BY DEF WindowsInv
<1>2. /\ Len(nKind) \in Nat /\ N!Widgets = 1 .. Len(nKind) /\ Len(nPanel) \in Nat
      /\ N!Panels = 1 .. Len(nPanel) /\ MaxItems \in Nat
  BY <1>1, Shapes
<1>3. /\ nKind' \in Seq(N!Kinds) /\ Len(nKind') = w
      /\ nParent' \in Seq(Nat) /\ Len(nParent') = w
      /\ nRef' \in Seq(Int) /\ Len(nRef') = w
      /\ \A u \in N!Widgets : nKind'[u] = nKind[u] /\ nParent'[u] = nParent[u]
                              /\ nRef'[u] = nRef[u]
      /\ nKind'[w] = k /\ nParent'[w] = g /\ nRef'[w] = c
  <2>1. /\ nKind' \in Seq(N!Kinds) /\ Len(nKind') = w
        /\ \A u \in 1 .. Len(nKind) : nKind'[u] = nKind[u]
        /\ nKind'[w] = k
    BY <1>1, AppendProperties DEF TreeTyped, Made
  <2>2. /\ nParent' \in Seq(Nat) /\ Len(nParent') = w
        /\ \A u \in 1 .. Len(nKind) : nParent'[u] = nParent[u]
        /\ nParent'[w] = g
    BY <1>1, AppendProperties DEF TreeTyped, Made
  <2>3. /\ nRef' \in Seq(Int) /\ Len(nRef') = w
        /\ \A u \in 1 .. Len(nKind) : nRef'[u] = nRef[u]
        /\ nRef'[w] = c
    <3>1. c \in Int /\ nRef \in Seq(Int) /\ Len(nRef) = Len(nKind)
      BY <1>1 DEF TreeTyped
    <3> QED
      BY <3>1, AppendProperties DEF Made
  <2> QED
    BY <1>2, <2>1, <2>2, <2>3
<1>4. N!Widgets' = 1 .. w /\ N!Widgets' = N!Widgets \cup {w} /\ N!Panels' = N!Panels
  <2>1. N!Widgets' = 1 .. w
    BY <1>3, LenProperties DEF N!Widgets
  <2> QED
    BY <1>2, <2>1 DEF N!Panels, Made
<1>5. w \notin nHeld /\ w \notin N!Widgets /\ N!Places(nList, w) = {} /\ N!Places(nRoots, w) = {}
  BY <1>1, NewIsNowhere
<1>6. \A u : GroupOrNone(u) => u = 0 \/ (u \in N!Widgets' /\ nKind'[u] \in N!Groups)
  BY <1>3, <1>4 DEF GroupOrNone
<1>7. k \in N!Groups => w \in N!Widgets' /\ nKind'[w] \in N!Groups
  BY <1>3, <1>4
<1>8. /\ nLast' \in Seq(Nat) /\ Len(nLast') = Len(nPanel)
      /\ \A p \in N!Panels : nLast'[p] = nLast[p] \/ (k \in N!Groups /\ nLast'[p] = w)
  <2>1. CASE nLast' = nLast
    BY <1>1, <2>1 DEF TreeTyped
  <2>2. CASE /\ k \in N!Groups /\ Len(nPanel) > 0
             /\ nLast' = [nLast EXCEPT ![Len(nPanel)] = w]
    <3>1. Len(nPanel) \in 1 .. Len(nLast) /\ w \in Nat
      BY <1>1, <1>2, <2>2 DEF TreeTyped
    <3>2. /\ nLast' \in Seq(Nat) /\ Len(nLast') = Len(nLast)
          /\ \A p \in 1 .. Len(nLast) : nLast'[p] = IF p = Len(nPanel) THEN w ELSE nLast[p]
      BY <1>1, <2>2, <3>1, ExceptSeq DEF TreeTyped
    <3> QED
      BY <1>1, <1>2, <2>2, <3>2 DEF TreeTyped
  <2> QED
    BY <2>1, <2>2 DEF Made
<1>9. TreeTyped'
  <2>1. \A p \in N!Panels : GroupOrNone(nLast[p])
    BY <1>1 DEF TreeTyped
  <2>2. \A p \in N!Panels' : GroupOrNone(nLast[p])'
    BY <1>4, <1>6, <1>7, <1>8, <2>1 DEF GroupOrNone
  <2>3. \A u \in N!Widgets' : GroupOrNone(nParent[u])'
    <3>1. \A u \in N!Widgets : GroupOrNone(nParent[u])
      BY <1>1 DEF TreeTyped
    <3> QED
      BY <1>3, <1>4, <1>6, <3>1 DEF GroupOrNone
  <2>4. \A u \in N!Widgets' : Len(nList'[u]) <= MaxItems
    <3>1. \A u \in N!Widgets : Len(nList'[u]) <= MaxItems
      BY DEF PutIntoList
    <3>2. Len(nList'[w]) = 0
      BY EmptySeq DEF PutIntoList
    <3>3. 0 <= MaxItems
      BY <1>2
    <3> QED
      BY <1>4, <3>1, <3>2, <3>3
  <2>5. \A u \in N!Widgets' : \A i \in DOMAIN nList'[u] :
          nList'[u][i] \in N!Widgets' \/ (nList'[u][i] = 0 /\ nKind'[u] \in N!Texts)
    <3>1. DOMAIN nList'[w] = {}
      BY DEF PutIntoList
    <3> SUFFICES ASSUME NEW u \in N!Widgets, NEW i \in DOMAIN nList'[u]
                 PROVE  nList'[u][i] \in N!Widgets' \/ (nList'[u][i] = 0 /\ nKind'[u] \in N!Texts)
      BY <1>4, <3>1
    <3>2. nList'[u][i] = w \/ (i \in DOMAIN nList[u] /\ nList'[u][i] = nList[u][i])
      BY DEF Longer, PutIntoList
    <3> QED
      BY <1>1, <1>3, <1>4, <3>2 DEF TreeTyped
  <2>6. \A p \in N!Panels : \A i \in DOMAIN nRoots'[p] : nRoots'[p][i] \in N!Widgets'
    <3> SUFFICES ASSUME NEW p \in N!Panels, NEW i \in DOMAIN nRoots'[p]
                 PROVE  nRoots'[p][i] \in N!Widgets'
      OBVIOUS
    <3>1. nRoots'[p][i] = w \/ (i \in DOMAIN nRoots[p] /\ nRoots'[p][i] = nRoots[p][i])
      BY DEF Longer, PutIntoRoots
    <3> QED
      BY <1>1, <1>4, <3>1 DEF TreeTyped
  <2>7. nHeld' \subseteq N!Widgets'
    BY <1>1, <1>4 DEF TreeTyped, Made
  <2>8. nPanel' \in Seq({"live", "closing", "gone"}) /\ Len(nPanel') = Len(nPanel)
    BY <1>1 DEF TreeTyped, Made
  <2>9. /\ nList' \in Seq(Seq(Nat)) /\ Len(nList') = w
        /\ nRoots' \in Seq(Seq(Nat)) /\ Len(nRoots') = Len(nPanel)
        /\ \A p \in N!Panels : Len(nRoots'[p]) <= MaxItems
    BY DEF PutIntoList, PutIntoRoots
  <2> QED
    BY <1>3, <1>4, <1>8, <2>2, <2>3, <2>4, <2>5, <2>6, <2>7, <2>8, <2>9 DEF TreeTyped
<1>10. Counted'
  <2>1. ASSUME NEW u \in N!Widgets
        PROVE  nRef'[u] = Cardinality({u} \cap nHeld')
                 + Cardinality(N!Places(nList', u)) + Cardinality(N!Places(nRoots', u))
    <3>1. {u} \cap nHeld' = {u} \cap nHeld
      BY <1>5 DEF Made
    <3>2. nRef[u] = Cardinality({u} \cap nHeld)
                    + Cardinality(N!Places(nList, u)) + Cardinality(N!Places(nRoots, u))
      BY <1>1 DEF Counted
    <3>3. Cardinality({u} \cap nHeld) \in Nat /\ Cardinality(N!Places(nList, u)) \in Nat
          /\ Cardinality(N!Places(nRoots, u)) \in Nat
      <4>1. Cardinality({u} \cap nHeld) = IF u \in nHeld THEN 1 ELSE 0
        BY <1>1, CountedIs
      <4> QED
        BY <1>1, <4>1, CountedIs
    <3>4. u # w
      BY <1>5
    <3>5. Cardinality(N!Places(nList', u)) + Cardinality(N!Places(nRoots', u)) =
            Cardinality(N!Places(nList, u)) + Cardinality(N!Places(nRoots, u))
      BY <3>3, <3>4 DEF CountsOf
    <3>6. /\ Cardinality(N!Places(nList', u)) \in Nat
          /\ Cardinality(N!Places(nRoots', u)) \in Nat
      BY DEF CountsOf
    <3>7. Cardinality({u} \cap nHeld') = Cardinality({u} \cap nHeld)
      BY <3>1
    <3>8. nRef'[u] = nRef[u]
      BY <1>3
    <3>9. ASSUME NEW a \in Nat, NEW b \in Nat, NEW d \in Nat, NEW x \in Nat, NEW y \in Nat,
                 x + y = b + d
          PROVE  a + b + d = a + x + y
      BY <3>9
    <3> DEFINE a == Cardinality({u} \cap nHeld)
               b == Cardinality(N!Places(nList, u))
               d == Cardinality(N!Places(nRoots, u))
               x == Cardinality(N!Places(nList', u))
               y == Cardinality(N!Places(nRoots', u))
    <3>10. /\ a \in Nat /\ b \in Nat /\ d \in Nat /\ x \in Nat /\ y \in Nat
           /\ x + y = b + d
      BY <3>3, <3>5, <3>6
    <3>11. nRef'[u] = a + b + d
      BY <3>2, <3>8
    <3>12. Cardinality({u} \cap nHeld') = a
      BY <3>7
    <3> HIDE DEF a, b, d, x, y
    <3>13. nRef'[u] = Cardinality({u} \cap nHeld') + x + y
      BY <3>9, <3>10, <3>11, <3>12
    <3> QED
      BY <3>13 DEF x, y
  <2>2. nRef'[w] = Cardinality({w} \cap nHeld')
          + Cardinality(N!Places(nList', w)) + Cardinality(N!Places(nRoots', w))
    <3>1. {w} \cap nHeld' = {w}
      BY DEF Made
    <3>2. Cardinality({w} \cap nHeld') = 1
      BY <3>1, FS_Singleton
    <3>3. Cardinality(N!Places(nList, w)) = 0 /\ Cardinality(N!Places(nRoots, w)) = 0
      BY <1>5, FS_EmptySet
    <3>4. Cardinality(N!Places(nList', w)) + Cardinality(N!Places(nRoots', w)) = c - 1
      BY <3>3 DEF CountsOf
    <3>5. /\ Cardinality(N!Places(nList', w)) \in Nat
          /\ Cardinality(N!Places(nRoots', w)) \in Nat
      BY DEF CountsOf
    <3>6. c \in Nat /\ nRef'[w] = c
      BY <1>3
    <3> DEFINE x == Cardinality(N!Places(nList', w))
               y == Cardinality(N!Places(nRoots', w))
    <3>7. x \in Nat /\ y \in Nat /\ x + y = c - 1
      BY <3>4, <3>5
    <3> HIDE DEF x, y
    <3>8. c = 1 + x + y
      BY <3>6, <3>7
    <3> QED
      BY <3>2, <3>6, <3>8 DEF x, y
  <2> QED
    BY <1>4, <2>1, <2>2 DEF Counted
<1>11. \A p \in N!Panels : \A l : Reached(p, l) => Reached(p, l)'
  <2> TAKE p \in N!Panels
  <2> TAKE l
  <2>1. ASSUME NEW u \in N!Widgets, PutIn(p, u)
        PROVE  PutIn(p, u)'
    <3>1. /\ \A v \in N!Widgets : Longer(nList[v], nList'[v], w)
          /\ Longer(nRoots[p], nRoots'[p], w)
      BY DEF PutIntoList, PutIntoRoots
    <3>2. CASE \E v \in N!Widgets : \E i \in DOMAIN nList[v] : nList[v][i] = u
      <4>1. \E v \in N!Widgets : \E i \in DOMAIN nList'[v] : nList'[v][i] = u
        BY <3>1, <3>2 DEF Longer
      <4> QED
        BY <1>4, <4>1 DEF PutIn
    <3>3. CASE \E i \in DOMAIN nRoots[p] : nRoots[p][i] = u
      <4>1. \E i \in DOMAIN nRoots'[p] : nRoots'[p][i] = u
        BY <3>1, <3>3 DEF Longer
      <4> QED
        BY <4>1 DEF PutIn
    <3> QED
      BY <2>1, <3>2, <3>3 DEF PutIn
  <2> QED
    BY <1>4, <2>1 DEF Reached
<1>12. Walked'
  <2>1. \A p \in N!Panels : nPanel'[p] = "gone" => nThread'[p] = "dead"
    BY <1>1 DEF Walked, Made
  <2>2. \A p \in N!Panels : nThread'[p] # "dead" =>
          \A i \in DOMAIN nPath'[p] : Reached(p, nPath'[p][i].in)
    BY <1>1 DEF Walked, Made
  <2> QED
    BY <1>4, <1>11, <2>1, <2>2 DEF Walked
<1>13. ASSUME ~nMisuse'
       PROVE  Rooted'
  <2>1. \A u : GroupOrNone(u) /\ There(u) => u = 0 \/ nRef'[u] > 0
    BY <1>3 DEF There, GroupOrNone
  <2>2. nRef'[w] > 0
    BY <1>3
  <2>3. ASSUME Len(nPanel) > 0
        PROVE  nLast'[Len(nPanel)] = 0 \/ nRef'[nLast'[Len(nPanel)]] > 0
    <3>1. There(nLast[Len(nPanel)]) /\ GroupOrNone(nLast[Len(nPanel)])
      BY <1>1, <1>2, <2>3 DEF Rooted, TreeTyped
    <3>2. nLast'[Len(nPanel)] \in {nLast[Len(nPanel)], w}
      BY <1>2, <1>8, <2>3
    <3> QED
      BY <2>1, <2>2, <3>1, <3>2
  <2>4. \A u \in N!Widgets' : nKind'[u] \in N!Groups /\ nRef'[u] > 0 =>
          nParent'[u] = 0 \/ nRef'[nParent'[u]] > 0
    <3>1. \A u \in N!Widgets : GroupOrNone(nParent[u])
      BY <1>1 DEF TreeTyped
    <3>2. \A u \in N!Widgets : nKind[u] \in N!Groups /\ nRef[u] > 0 => There(nParent[u])
      BY <1>1 DEF Rooted
    <3>3. nParent'[w] = 0 \/ nRef'[nParent'[w]] > 0
      BY <1>3, <2>1
    <3> QED
      BY <1>3, <1>4, <2>1, <3>1, <3>2, <3>3
  <2>5. \A u \in N!Widgets' : nKind'[u] \in N!Texts => \A i \in DOMAIN nList'[u] : nList'[u][i] = 0
    <3>1. \A u \in N!Widgets : nKind[u] \in N!Texts => \A i \in DOMAIN nList[u] : nList[u][i] = 0
      BY <1>1 DEF Rooted
    <3>2. DOMAIN nList'[w] = {}
      BY DEF PutIntoList
    <3>3. \A u \in N!Widgets : nKind[u] \in N!Texts => nList'[u] = nList[u]
      BY <1>13 DEF PutIntoList
    <3>4. \A u \in N!Widgets : nKind'[u] \in N!Texts => \A i \in DOMAIN nList'[u] : nList'[u][i] = 0
      BY <1>3, <3>1, <3>3
    <3> QED
      BY <1>4, <3>2, <3>4
  <2>6. Len(nPanel') = Len(nPanel)
    BY DEF Made
  <2> QED
    BY <2>3, <2>4, <2>5, <2>6 DEF Rooted, There
<1>14. ThreadsTyped'
  BY <1>1 DEF ThreadsTyped, Made
<1>15. nFault' = "none"
  BY DEF Made
<1> QED
  BY <1>15, <1>9, <1>10, <1>12, <1>13, <1>14 DEF WindowsInv

-----------------------------------------------------------------------------
(* It is put in no group, ... *)
LEMMA NewInNoList ==
  ASSUME TreeTyped, NEW w, w = Len(nKind) + 1, nList' = Append(nList, <<>>)
  PROVE  PutIntoList(w) /\ \A u : N!Places(nList', u) = N!Places(nList, u)
<1>1. /\ N!Widgets = 1 .. Len(nKind) /\ Len(nKind) \in Nat
      /\ nList \in Seq(Seq(Nat)) /\ Len(nList) = Len(nKind) /\ DOMAIN nList = N!Widgets
      /\ \A u \in N!Widgets : Len(nList[u]) <= MaxItems /\ nList[u] \in Seq(Nat)
  BY Shapes DEF TreeTyped
<1>2. /\ nList' \in Seq(Seq(Nat)) /\ Len(nList') = w /\ nList'[w] = <<>>
      /\ \A u \in N!Widgets : nList'[u] = nList[u]
      /\ \A u : N!Places(nList', u) = N!Places(nList, u)
  <2>1. PutMore(nList', nList)
    BY <1>1 DEF PutMore
  <2> QED
    BY <1>1, <2>1, NewList
<1>3. \A u \in N!Widgets : Longer(nList[u], nList'[u], w)
  BY <1>2 DEF Longer
<1> QED
  BY <1>1, <1>2, <1>3 DEF PutIntoList

(* ... or at the end of one, ... *)
LEMMA NewInGroup ==
  ASSUME TreeTyped, NEW w, w = Len(nKind) + 1, NEW g \in N!Widgets,
         NEW mid, PutLast(mid, nList, g, w), PutMore(nList', mid),
         Len(nList[g]) < MaxItems, ~nMisuse' => nKind[g] \notin N!Texts
  PROVE  /\ PutIntoList(w)
         /\ \A u : Cardinality(N!Places(nList', u)) =
                     Cardinality(N!Places(nList, u)) + (IF w = u THEN 1 ELSE 0)
<1>1. /\ N!Widgets = 1 .. Len(nKind) /\ Len(nKind) \in Nat /\ w \in Nat /\ MaxItems \in Nat
      /\ nList \in Seq(Seq(Nat)) /\ Len(nList) = Len(nKind) /\ DOMAIN nList = N!Widgets
      /\ \A u \in N!Widgets : Len(nList[u]) <= MaxItems /\ nList[u] \in Seq(Nat)
  <2>1. Len(nKind) \in Nat /\ MaxItems \in Nat
    BY Shapes
  <2>2. N!Widgets = 1 .. Len(nKind) /\ DOMAIN nList = 1 .. Len(nKind)
    BY Shapes
  <2>3. \A u \in N!Widgets : nList[u] \in Seq(Nat)
    BY Shapes
  <2>4. /\ nList \in Seq(Seq(Nat)) /\ Len(nList) = Len(nKind)
        /\ \A u \in N!Widgets : Len(nList[u]) <= MaxItems
    BY DEF TreeTyped
  <2> QED
    BY <2>1, <2>2, <2>3, <2>4
<1>2. \A u : IsFiniteSet(N!Places(nList, u))
  BY CountedIs
<1>3. /\ mid \in Seq(Seq(Nat)) /\ Len(mid) = Len(nList)
      /\ \A u \in N!Widgets : mid[u] = IF u = g THEN Append(nList[u], w) ELSE nList[u]
      /\ \A u : Cardinality(N!Places(mid, u)) =
                  Cardinality(N!Places(nList, u)) + (IF w = u THEN 1 ELSE 0)
  <2>1. DOMAIN nList = N!Widgets /\ Len(nList) = Len(nKind)
    BY <1>1
  <2>2. /\ mid \in Seq(Seq(Nat)) /\ Len(mid) = Len(nList)
        /\ \A u \in DOMAIN nList : mid[u] = IF u = g THEN Append(nList[u], w) ELSE nList[u]
        /\ \A u : IsFiniteSet(N!Places(nList, u)) =>
                  Cardinality(N!Places(mid, u)) =
                    Cardinality(N!Places(nList, u)) + (IF w = u THEN 1 ELSE 0)
    BY PutAtEnd
  <2> QED
    BY <1>2, <2>1, <2>2
<1>4. DOMAIN mid = N!Widgets
  BY <1>1, <1>3, LenProperties
<1>5. /\ nList' \in Seq(Seq(Nat)) /\ Len(nList') = w /\ nList'[w] = <<>>
      /\ \A u \in N!Widgets : nList'[u] = mid[u]
      /\ \A u : N!Places(nList', u) = N!Places(mid, u)
  <2>1. Len(mid) + 1 = w
    BY <1>1, <1>3
  <2>2. /\ nList' \in Seq(Seq(Nat)) /\ Len(nList') = Len(mid) + 1
        /\ \A u \in DOMAIN mid : nList'[u] = mid[u]
        /\ nList'[Len(mid) + 1] = <<>>
        /\ \A u : N!Places(nList', u) = N!Places(mid, u)
    BY NewList
  <2> QED
    BY <1>4, <2>1, <2>2
<1>6. \A u \in N!Widgets : Longer(nList[u], nList'[u], w)
  BY <1>1, <1>3, <1>5, AppendIsLonger
<1>7. \A u \in N!Widgets : Len(nList'[u]) <= MaxItems
  <2> TAKE u \in N!Widgets
  <2>1. CASE u = g
    <3>1. Len(Append(nList[g], w)) = Len(nList[g]) + 1 /\ Len(nList[g]) \in Nat
      BY <1>1, AppendProperties, LenProperties
    <3>2. nList'[u] = Append(nList[g], w)
      BY <1>3, <1>5, <2>1
    <3> QED
      BY <1>1, <3>1, <3>2
  <2>2. CASE u # g
    BY <1>1, <1>3, <1>5, <2>2
  <2> QED
    BY <2>1, <2>2
<1>8. ~nMisuse' => \A u \in N!Widgets : nKind[u] \in N!Texts => nList'[u] = nList[u]
  BY <1>3, <1>5
<1>9. PutIntoList(w)
  BY <1>5, <1>6, <1>7, <1>8 DEF PutIntoList
<1>10. \A u : Cardinality(N!Places(nList', u)) = Cardinality(N!Places(mid, u))
  BY <1>5
<1> QED
  BY <1>3, <1>9, <1>10

(* ... or at the end of a panel's list, ... *)
LEMMA NewInPanel ==
  ASSUME TreeTyped, NEW w, w = Len(nKind) + 1, NEW p \in N!Panels,
         PutLast(nRoots', nRoots, p, w), Len(nRoots[p]) < MaxItems
  PROVE  /\ PutIntoRoots(w)
         /\ \A u : Cardinality(N!Places(nRoots', u)) =
                     Cardinality(N!Places(nRoots, u)) + (IF w = u THEN 1 ELSE 0)
<1>1. /\ N!Panels = 1 .. Len(nPanel) /\ Len(nKind) \in Nat /\ w \in Nat /\ MaxItems \in Nat
      /\ nRoots \in Seq(Seq(Nat)) /\ Len(nRoots) = Len(nPanel) /\ DOMAIN nRoots = N!Panels
      /\ \A u \in N!Panels : Len(nRoots[u]) <= MaxItems /\ nRoots[u] \in Seq(Nat)
  <2>1. Len(nKind) \in Nat /\ MaxItems \in Nat
    BY Shapes
  <2>2. N!Panels = 1 .. Len(nPanel) /\ DOMAIN nRoots = 1 .. Len(nPanel)
    BY Shapes
  <2>3. \A u \in N!Panels : nRoots[u] \in Seq(Nat)
    BY Shapes
  <2>4. /\ nRoots \in Seq(Seq(Nat)) /\ Len(nRoots) = Len(nPanel)
        /\ \A u \in N!Panels : Len(nRoots[u]) <= MaxItems
    BY DEF TreeTyped
  <2> QED
    BY <2>1, <2>2, <2>3, <2>4
<1>2. \A u : IsFiniteSet(N!Places(nRoots, u))
  BY CountedIs
<1>3. /\ nRoots' \in Seq(Seq(Nat)) /\ Len(nRoots') = Len(nRoots)
      /\ \A u \in N!Panels : nRoots'[u] = IF u = p THEN Append(nRoots[u], w) ELSE nRoots[u]
      /\ \A u : Cardinality(N!Places(nRoots', u)) =
                  Cardinality(N!Places(nRoots, u)) + (IF w = u THEN 1 ELSE 0)
  <2>1. DOMAIN nRoots = N!Panels
    BY <1>1
  <2>2. /\ nRoots' \in Seq(Seq(Nat)) /\ Len(nRoots') = Len(nRoots)
        /\ \A u \in DOMAIN nRoots :
             nRoots'[u] = IF u = p THEN Append(nRoots[u], w) ELSE nRoots[u]
        /\ \A u : IsFiniteSet(N!Places(nRoots, u)) =>
                  Cardinality(N!Places(nRoots', u)) =
                    Cardinality(N!Places(nRoots, u)) + (IF w = u THEN 1 ELSE 0)
    BY PutAtEnd
  <2> QED
    BY <1>2, <2>1, <2>2
<1>4. \A u \in N!Panels : Longer(nRoots[u], nRoots'[u], w)
  BY <1>1, <1>3, AppendIsLonger
<1>5. \A u \in N!Panels : Len(nRoots'[u]) <= MaxItems
  <2> TAKE u \in N!Panels
  <2>1. CASE u = p
    <3>1. Len(Append(nRoots[p], w)) = Len(nRoots[p]) + 1 /\ Len(nRoots[p]) \in Nat
      BY <1>1, AppendProperties, LenProperties
    <3>2. nRoots'[u] = Append(nRoots[p], w)
      BY <1>3, <2>1
    <3> QED
      BY <1>1, <3>1, <3>2
  <2>2. CASE u # p
    BY <1>1, <1>3, <2>2
  <2> QED
    BY <2>1, <2>2
<1> QED
  BY <1>1, <1>3, <1>4, <1>5 DEF PutIntoRoots

(* ... or of none. *)
LEMMA NewInNoPanel ==
  ASSUME TreeTyped, NEW w, w = Len(nKind) + 1, nRoots' = nRoots
  PROVE  PutIntoRoots(w)
<1>1. /\ nRoots \in Seq(Seq(Nat)) /\ Len(nRoots) = Len(nPanel)
      /\ \A u \in N!Panels : Len(nRoots[u]) <= MaxItems
  BY Shapes DEF TreeTyped
<1>2. \A u \in N!Panels : Longer(nRoots[u], nRoots'[u], w)
  BY DEF Longer
<1> QED
  BY <1>1, <1>2 DEF PutIntoRoots

(* The constructors put a widget in the group the window has as its last,  *)
(* which is there, in the window if it is a layout, or nowhere.            *)
LEMMA NewInv ==
  ASSUME WindowsInv, NEW k \in N!Kinds, NEW t \in N!Targets(k), N!New(k, t)
  PROVE  WindowsInv'
<1> DEFINE w == Len(nKind) + 1
           top == Len(nPanel)
           g == nLast[top]
<1>1. nFault = "none" /\ ~nMisuse /\ top > 0
  BY DEF N!New, N!Idle, N!NoWindow, N!top
<1>2. TreeTyped /\ Rooted
  BY <1>1 DEF WindowsInv
<1>3. top \in N!Panels /\ Len(nKind) \in Nat /\ top \in Nat
  BY <1>1, <1>2, Shapes
<1>4. g \in Nat /\ GroupOrNone(g) /\ There(g)
  BY <1>1, <1>2, <1>3, Shapes DEF TreeTyped, Rooted
<1>5. t \in {<<>>, <<"panel", top>>, <<"group", g>>} /\ (t = <<"group", g>> => g # 0)
  BY DEF N!Targets, N!None, N!top
<1>6. \A x, y : <<x, y>> # <<>>
  <2> TAKE x, y
  <2>1. DOMAIN <<x, y>> = {1, 2}
    OBVIOUS
  <2>2. DOMAIN <<>> = {}
    OBVIOUS
  <2>3. 1 \in {1, 2} /\ 1 \notin {}
    OBVIOUS
  <2> QED
    BY <2>1, <2>2, <2>3
<1>7. /\ nKind' = Append(nKind, k) /\ nParent' = Append(nParent, g)
      /\ nHeld' = nHeld \cup {w} /\ UNCHANGED <<nPanel, nThread, nPath>>
      /\ nLast' = IF k \in N!Groups THEN [nLast EXCEPT ![top] = w] ELSE nLast
  BY DEF N!New, N!top, N!walks
<1>8. /\ nList' = Append(IF N!Into(t, "group") THEN [nList EXCEPT ![t[2]] = Append(@, w)]
                         ELSE nList, <<>>)
      /\ nRoots' = IF N!Into(t, "panel") THEN [nRoots EXCEPT ![t[2]] = Append(@, w)] ELSE nRoots
      /\ nRef' = Append(nRef, IF t = <<>> THEN 1 ELSE 2)
      /\ N!Room(t)
      /\ nMisuse' = (nMisuse \/ (N!Into(t, "group") /\ nKind[t[2]] \in N!Texts))
  BY DEF N!New, N!Misuse, N!None
<1>9. /\ (N!Into(t, "group") <=> t = <<"group", g>>) /\ (N!Into(t, "panel") <=> t = <<"panel", top>>)
  BY <1>5, <1>6 DEF N!Into, N!None
<1>10. nFault' = nFault
  <2>1. ~(N!Into(t, "group") /\ nRef[t[2]] = 0)
    BY <1>4, <1>5, <1>9 DEF There
  <2>2. N!Fault(IF N!Into(t, "group") /\ nRef[t[2]] = 0 THEN "stale" ELSE "none")
    BY DEF N!New
  <2> QED
    BY <1>1, <2>1, <2>2 DEF N!Fault
<1>11. nMisuse' \in BOOLEAN
  BY <1>8 DEF WindowsInv
<1>12. \A c : nRef' = Append(nRef, c) => Made(w, k, g, c)
  BY <1>1, <1>7, <1>10 DEF Made
<1>13. \A u : Cardinality(N!Places(nList, u)) \in Nat /\ Cardinality(N!Places(nRoots, u)) \in Nat
  BY <1>2, CountedIs
<1> HIDE DEF g, top
<1>14. CASE t = <<>>
  <2>1. /\ nList' = Append(nList, <<>>) /\ nRoots' = nRoots /\ nRef' = Append(nRef, 1)
    BY <1>6, <1>8, <1>9, <1>14
  <2>2. PutIntoList(w) /\ \A u : N!Places(nList', u) = N!Places(nList, u)
    BY <1>2, <2>1, NewInNoList
  <2>3. PutIntoRoots(w)
    BY <1>2, <2>1, NewInNoPanel
  <2>4. CountsOf(w, 1)
    BY <1>13, <2>1, <2>2 DEF CountsOf
  <2>5. Made(w, k, g, 1)
    BY <1>12, <2>1
  <2> QED
    BY <1>1, <1>4, <1>11, <2>2, <2>3, <2>4, <2>5, Grown
<1>15. CASE t = <<"group", g>>
  <2>1. /\ nList' = Append([nList EXCEPT ![g] = Append(@, w)], <<>>) /\ nRoots' = nRoots
        /\ nRef' = Append(nRef, 2) /\ Len(nList[g]) < MaxItems
        /\ ~nMisuse' => nKind[g] \notin N!Texts
    BY <1>6, <1>8, <1>9, <1>15 DEF N!Room
  <2>2. g \in N!Widgets
    BY <1>4, <1>5, <1>15 DEF GroupOrNone
  <2> DEFINE mid == [nList EXCEPT ![g] = Append(@, w)]
  <2>3. /\ PutLast(mid, nList, g, w) /\ PutMore(nList', mid) /\ nRoots' = nRoots
        /\ nRef' = Append(nRef, 2) /\ Len(nList[g]) < MaxItems
        /\ ~nMisuse' => nKind[g] \notin N!Texts
    <3>1. nList \in Seq(Seq(Nat)) /\ g \in DOMAIN nList /\ w \in Nat
      <4>1. nList \in Seq(Seq(Nat))
        BY <1>2 DEF TreeTyped
      <4>2. DOMAIN nList = N!Widgets
        BY <1>2, Shapes
      <4>3. w \in Nat
        BY <1>3
      <4> QED
        BY <2>2, <4>1, <4>2, <4>3
    <3>2. PutLast(mid, nList, g, w)
      BY <3>1 DEF PutLast
    <3>3. mid \in Seq(Seq(Nat))
      BY <3>2, PutAtEnd
    <3>4. PutMore(nList', mid)
      BY <2>1, <3>3 DEF PutMore
    <3> QED
      BY <2>1, <3>2, <3>4
  <2> HIDE DEF mid
  <2>4. /\ PutIntoList(w)
        /\ \A u : Cardinality(N!Places(nList', u)) =
                     Cardinality(N!Places(nList, u)) + (IF w = u THEN 1 ELSE 0)
    BY <1>2, <2>3, <2>2, NewInGroup
  <2>5. PutIntoRoots(w)
    BY <1>2, <2>3, NewInNoPanel
  <2>6. CountsOf(w, 2)
    <3>1. \A u : (IF u = w THEN 2 - 1 ELSE 0) = (IF w = u THEN 1 ELSE 0)
      OBVIOUS
    <3>2. \A u : (IF w = u THEN 1 ELSE 0) \in Nat
      OBVIOUS
    <3> HIDE DEF w
    <3>3. \A u : /\ Cardinality(N!Places(nList', u)) \in Nat
                 /\ Cardinality(N!Places(nRoots', u)) = Cardinality(N!Places(nRoots, u))
      <4> TAKE u
      <4> DEFINE x == IF w = u THEN 1 ELSE 0
      <4>1. Cardinality(N!Places(nList', u)) = Cardinality(N!Places(nList, u)) + x
        BY <2>4
      <4>2. x \in Nat /\ Cardinality(N!Places(nList, u)) \in Nat
        BY <1>13, <3>2
      <4> HIDE DEF x
      <4> QED
        BY <2>3, <4>1, <4>2
    <3> QED
      BY <1>13, <2>4, <3>1, <3>3 DEF CountsOf
  <2>7. Made(w, k, g, 2)
    BY <1>12, <2>3
  <2> QED
    BY <1>1, <1>4, <1>11, <2>4, <2>5, <2>6, <2>7, Grown
<1>16. CASE t = <<"panel", top>>
  <2>1. /\ nList' = Append(nList, <<>>) /\ nRoots' = [nRoots EXCEPT ![top] = Append(@, w)]
        /\ nRef' = Append(nRef, 2) /\ Len(nRoots[top]) < MaxItems
    BY <1>6, <1>8, <1>9, <1>16 DEF N!Room
  <2>2. /\ nList' = Append(nList, <<>>) /\ PutLast(nRoots', nRoots, top, w)
        /\ nRef' = Append(nRef, 2) /\ Len(nRoots[top]) < MaxItems
    <3>1. nRoots \in Seq(Seq(Nat))
      BY <1>2 DEF TreeTyped
    <3>2. top \in DOMAIN nRoots /\ w \in Nat
      <4>1. DOMAIN nRoots = N!Panels
        BY <1>2, Shapes
      <4> QED
        BY <1>3, <4>1
    <3> QED
      BY <2>1, <3>1, <3>2 DEF PutLast
  <2>3. PutIntoList(w) /\ \A u : N!Places(nList', u) = N!Places(nList, u)
    BY <1>2, <2>2, NewInNoList
  <2>4. /\ PutIntoRoots(w)
        /\ \A u : Cardinality(N!Places(nRoots', u)) =
                     Cardinality(N!Places(nRoots, u)) + (IF w = u THEN 1 ELSE 0)
    BY <1>2, <1>3, <2>2, NewInPanel
  <2>5. CountsOf(w, 2)
    BY <1>13, <2>3, <2>4 DEF CountsOf
  <2>6. Made(w, k, g, 2)
    BY <1>12, <2>2
  <2> QED
    BY <1>1, <1>4, <1>11, <2>3, <2>4, <2>5, <2>6, Grown
<1> QED
  BY <1>5, <1>14, <1>15, <1>16

-----------------------------------------------------------------------------
(* Once a thread has met what was freed nothing more is said of the tree.  *)
LEMMA FaultedInv ==
  ASSUME nMisuse' = TRUE, nFault' # "none"
  PROVE  WindowsInv'
BY DEF WindowsInv

(* Nothing can be done with a window that is not there. *)
LEMMA BadWindowInv ==
  ASSUME WindowsInv, N!BadWindow
  PROVE  WindowsInv'
<1>1. nFault = "none" /\ ~nMisuse /\ N!NoWindow /\ N!Fault(N!WindowFault) /\ N!Misuse(TRUE)
  BY DEF N!BadWindow, N!Idle
<1>2. nFault' # "none"
  BY <1>1 DEF N!Fault, N!WindowFault
<1>3. nMisuse' = TRUE
  BY <1>1 DEF N!Misuse, WindowsInv
<1> QED
  BY <1>2, <1>3, FaultedInv

(* A new window has a thread that waits, and nothing in it.                *)
LEMMA NewPanelInv ==
  ASSUME WindowsInv, N!NewPanel
  PROVE  WindowsInv'
<1> DEFINE m == Len(nPanel) + 1
<1>1. /\ nFault = "none" /\ ~nMisuse /\ nMisuse \in BOOLEAN
      /\ nPanel' = Append(nPanel, "live") /\ nLast' = Append(nLast, 0)
      /\ nRoots' = Append(nRoots, <<>>) /\ nThread' = Append(nThread, "wait")
      /\ nPath' = Append(nPath, <<>>)
      /\ N!Misuse(Len(nPanel) > 0 /\ N!NoWindow)
      /\ N!Fault(IF Len(nPanel) > 0 THEN N!WindowFault ELSE "none")
      /\ UNCHANGED <<nKind, nParent, nList, nRef, nHeld>>
  BY DEF N!NewPanel, N!Idle, N!top, N!tree, WindowsInv
<1>2. TreeTyped /\ ThreadsTyped /\ Counted /\ Walked /\ Rooted
  BY <1>1 DEF WindowsInv
<1>3. /\ N!Widgets = 1 .. Len(nKind) /\ N!Panels = 1 .. Len(nPanel) /\ Len(nPanel) \in Nat
      /\ MaxItems \in Nat /\ DOMAIN nRoots = N!Panels
  BY <1>2, Shapes
<1>4. /\ nPanel' \in Seq({"live", "closing", "gone"}) /\ Len(nPanel') = m
      /\ \A p \in N!Panels : nPanel'[p] = nPanel[p]
      /\ nPanel'[m] = "live"
  BY <1>1, <1>2, <1>3, AppendProperties DEF TreeTyped
<1>5. /\ nLast' \in Seq(Nat) /\ Len(nLast') = m
      /\ \A p \in N!Panels : nLast'[p] = nLast[p]
      /\ nLast'[m] = 0
  BY <1>1, <1>2, <1>3, AppendProperties DEF TreeTyped
<1>6. /\ nRoots' \in Seq(Seq(Nat)) /\ Len(nRoots') = m
      /\ \A p \in N!Panels : nRoots'[p] = nRoots[p]
      /\ nRoots'[m] = <<>>
      /\ \A u : N!Places(nRoots', u) = N!Places(nRoots, u)
  <2>1. nRoots \in Seq(Seq(Nat)) /\ Len(nRoots) = Len(nPanel)
    BY <1>2 DEF TreeTyped
  <2>2. PutMore(nRoots', nRoots)
    BY <1>1, <2>1 DEF PutMore
  <2> QED
    BY <1>3, <2>1, <2>2, NewList
<1>7. /\ nThread' \in Seq({"wait", "walk", "draw", "dead"}) /\ Len(nThread') = m
      /\ \A p \in N!Panels : nThread'[p] = nThread[p]
      /\ nThread'[m] = "wait"
  BY <1>1, <1>2, <1>3, AppendProperties DEF ThreadsTyped
<1>8. /\ nPath' \in Seq(Seq(Step)) /\ Len(nPath') = m
      /\ \A p \in N!Panels : nPath'[p] = nPath[p]
      /\ nPath'[m] = <<>>
  <2>1. <<>> \in Seq(Step)
    BY EmptySeq
  <2> QED
    BY <1>1, <1>2, <1>3, <2>1, AppendProperties DEF ThreadsTyped
<1>9. /\ N!Panels' = 1 .. m /\ N!Panels' = N!Panels \cup {m} /\ N!Widgets' = N!Widgets
  <2>1. N!Panels' = 1 .. m
    BY <1>4, LenProperties DEF N!Panels
  <2> QED
    BY <1>1, <1>3, <2>1 DEF N!Widgets
<1>10. \A u : GroupOrNone(u) => u = 0 \/ (u \in N!Widgets' /\ nKind'[u] \in N!Groups)
  BY <1>1, <1>9 DEF GroupOrNone
<1>11. TreeTyped'
  <2>1. \A p \in N!Panels' : GroupOrNone(nLast[p])'
    <3>1. \A p \in N!Panels : GroupOrNone(nLast[p])
      BY <1>2 DEF TreeTyped
    <3> QED
      BY <1>5, <1>9, <1>10, <3>1 DEF GroupOrNone
  <2>2. \A p \in N!Panels' : Len(nRoots'[p]) <= MaxItems
    <3>1. \A p \in N!Panels : Len(nRoots[p]) <= MaxItems
      BY <1>2 DEF TreeTyped
    <3>2. Len(nRoots'[m]) = 0 /\ 0 <= MaxItems
      BY <1>3, <1>6, EmptySeq
    <3> QED
      BY <1>6, <1>9, <3>1, <3>2
  <2>3. \A p \in N!Panels' : \A i \in DOMAIN nRoots'[p] : nRoots'[p][i] \in N!Widgets'
    <3>1. \A p \in N!Panels : \A i \in DOMAIN nRoots[p] : nRoots[p][i] \in N!Widgets
      BY <1>2 DEF TreeTyped
    <3>2. DOMAIN nRoots'[m] = {}
      BY <1>6
    <3> QED
      BY <1>6, <1>9, <3>1, <3>2
  <2>4. \A u \in N!Widgets' : GroupOrNone(nParent[u])'
    <3>1. \A u \in N!Widgets : GroupOrNone(nParent[u])
      BY <1>2 DEF TreeTyped
    <3> QED
      BY <1>1, <1>9, <1>10, <3>1 DEF GroupOrNone
  <2>5. /\ nKind' \in Seq(N!Kinds)
        /\ nParent' \in Seq(Nat) /\ Len(nParent') = Len(nKind')
        /\ nList' \in Seq(Seq(Nat)) /\ Len(nList') = Len(nKind')
        /\ nRef' \in Seq(Int) /\ Len(nRef') = Len(nKind')
        /\ nHeld' \subseteq N!Widgets'
        /\ \A w \in N!Widgets' : Len(nList'[w]) <= MaxItems
        /\ \A w \in N!Widgets' : \A i \in DOMAIN nList'[w] :
             nList'[w][i] \in N!Widgets' \/ (nList'[w][i] = 0 /\ nKind'[w] \in N!Texts)
    BY <1>1, <1>2, <1>9 DEF TreeTyped
  <2> QED
    BY <1>4, <1>5, <1>6, <2>1, <2>2, <2>3, <2>4, <2>5 DEF TreeTyped
<1>12. ThreadsTyped'
  BY <1>4, <1>7, <1>8 DEF ThreadsTyped
<1>13. Counted'
  BY <1>1, <1>2, <1>6, <1>9 DEF Counted
<1>14. \A p \in N!Panels : \A l : Reached(p, l) => Reached(p, l)'
  BY <1>1, <1>6, <1>9 DEF Reached, PutIn
<1>15. Walked'
  <2>1. \A p \in N!Panels' : nPanel'[p] = "gone" => nThread'[p] = "dead"
    BY <1>2, <1>4, <1>7, <1>9 DEF Walked
  <2>2. DOMAIN nPath'[m] = {}
    BY <1>8
  <2>3. \A p \in N!Panels : nThread'[p] # "dead" =>
          \A i \in DOMAIN nPath'[p] : Reached(p, nPath'[p][i].in)
    BY <1>2, <1>7, <1>8 DEF Walked
  <2>4. N!Panels' = N!Panels \cup {m}
    BY <1>9
  <2> HIDE DEF m
  <2> QED
    BY <1>14, <2>1, <2>2, <2>3, <2>4 DEF Walked
<1>16. CASE nMisuse'
  <2>1. nMisuse' = TRUE
    BY <1>1, <1>16 DEF N!Misuse
  <2> QED
    BY <1>11, <1>12, <1>13, <1>15, <2>1 DEF WindowsInv
<1>17. CASE ~nMisuse'
  <2>1. ~(Len(nPanel) > 0 /\ N!NoWindow)
    BY <1>17, <1>1 DEF N!Misuse
  <2>2. nFault' = "none"
    BY <1>1, <1>3, <2>1 DEF N!Fault, N!WindowFault, N!top, N!NoWindow
  <2>3. nMisuse' \in BOOLEAN
    BY <1>1 DEF N!Misuse
  <2>4. \A w \in N!Widgets' : nKind'[w] \in N!Groups /\ nRef'[w] > 0 =>
          nParent'[w] = 0 \/ nRef'[nParent'[w]] > 0
    BY <1>1, <1>2, <1>9 DEF Rooted, There
  <2>5. \A w \in N!Widgets' : nKind'[w] \in N!Texts => \A i \in DOMAIN nList'[w] : nList'[w][i] = 0
    BY <1>1, <1>2, <1>9 DEF Rooted
  <2>6. Rooted'
    BY <1>4, <1>5, <2>4, <2>5 DEF Rooted, There
  <2> QED
    BY <1>11, <1>12, <1>13, <1>15, <2>2, <2>3, <2>6 DEF WindowsInv
<1> QED
  BY <1>16, <1>17

-----------------------------------------------------------------------------
(* Panels that have no thread may go, and what was in them.                *)
RootsStay ==
  /\ nPanel' \in Seq({"live", "closing", "gone"}) /\ Len(nPanel') = Len(nPanel)
  /\ nRoots' \in Seq(Seq(Nat)) /\ Len(nRoots') = Len(nRoots)
  /\ \A q \in N!Panels :
       /\ nPanel'[q] = "gone" => nThread[q] = "dead"
       /\ nRoots'[q] = nRoots[q] \/ (nRoots'[q] = <<>> /\ nThread[q] = "dead")

(* As when none goes. *)
LEMMA NoneGoes ==
  ASSUME WindowsInv, nFault = "none", UNCHANGED <<nPanel, nRoots>>
  PROVE  RootsStay
BY DEF WindowsInv, TreeTyped, Walked, RootsStay

(* A variable may go, and references, and the last group may be another.   *)
LEMMA RecountInv ==
  ASSUME WindowsInv, nFault = "none", RootsStay,
         UNCHANGED <<nKind, nParent, nList, nThread, nPath>>,
         nHeld' \subseteq nHeld, nRef' \in Seq(Int), Len(nRef') = Len(nRef),
         nLast' \in Seq(Nat), Len(nLast') = Len(nLast),
         \A p \in N!Panels : GroupOrNone(nLast'[p]),
         Counted', nMisuse' \in BOOLEAN,
         ~nMisuse' =>
           /\ ~nMisuse /\ nFault' = "none"
           /\ Len(nPanel) > 0 => nLast'[Len(nPanel)] = 0 \/ nRef'[nLast'[Len(nPanel)]] > 0
           /\ \A w \in N!Widgets : nKind[w] \in N!Groups /\ nRef'[w] > 0 =>
                nParent[w] = 0 \/ nRef'[nParent[w]] > 0
  PROVE  WindowsInv'
<1>1. TreeTyped /\ ThreadsTyped /\ Walked /\ (~nMisuse => Rooted)
  BY DEF WindowsInv
<1>2. N!Widgets' = N!Widgets /\ N!Panels' = N!Panels
  <2>1. DOMAIN nPanel' = 1 .. Len(nPanel) /\ DOMAIN nPanel = 1 .. Len(nPanel)
    BY <1>1, LenProperties DEF RootsStay, TreeTyped
  <2> QED
    BY <2>1 DEF N!Widgets, N!Panels
<1>3. \A q \in N!Panels : Len(nRoots'[q]) <= MaxItems
  <2>1. 0 <= MaxItems /\ Len(<<>>) = 0
    BY <1>1, Shapes, EmptySeq
  <2>2. \A q \in N!Panels : nRoots'[q] = nRoots[q] \/ nRoots'[q] = <<>>
    BY DEF RootsStay
  <2> QED
    BY <1>1, <2>1, <2>2 DEF TreeTyped
<1>4. \A q \in N!Panels : \A i \in DOMAIN nRoots'[q] : nRoots'[q][i] \in N!Widgets
  <2>1. \A q \in N!Panels : nRoots'[q] = nRoots[q] \/ DOMAIN nRoots'[q] = {}
    BY DEF RootsStay
  <2> QED
    BY <1>1, <2>1 DEF TreeTyped
<1>5. TreeTyped'
  <2>1. \A p \in N!Panels' : GroupOrNone(nLast[p])'
    BY <1>2 DEF GroupOrNone
  <2>2. \A w \in N!Widgets' : GroupOrNone(nParent[w])'
    BY <1>1, <1>2 DEF GroupOrNone, TreeTyped
  <2>3. /\ nPanel' \in Seq({"live", "closing", "gone"})
        /\ nKind' \in Seq(N!Kinds)
        /\ nParent' \in Seq(Nat) /\ Len(nParent') = Len(nKind')
        /\ nList' \in Seq(Seq(Nat)) /\ Len(nList') = Len(nKind')
        /\ nRef' \in Seq(Int) /\ Len(nRef') = Len(nKind')
        /\ nHeld' \subseteq N!Widgets'
        /\ nLast' \in Seq(Nat) /\ Len(nLast') = Len(nPanel')
        /\ nRoots' \in Seq(Seq(Nat)) /\ Len(nRoots') = Len(nPanel')
    BY <1>1, <1>2 DEF TreeTyped, RootsStay
  <2>4. /\ \A w \in N!Widgets' : Len(nList'[w]) <= MaxItems
        /\ \A p \in N!Panels' : Len(nRoots'[p]) <= MaxItems
        /\ \A w \in N!Widgets' : \A i \in DOMAIN nList'[w] :
             nList'[w][i] \in N!Widgets' \/ (nList'[w][i] = 0 /\ nKind'[w] \in N!Texts)
        /\ \A p \in N!Panels' : \A i \in DOMAIN nRoots'[p] : nRoots'[p][i] \in N!Widgets'
    BY <1>1, <1>2, <1>3, <1>4 DEF TreeTyped
  <2> QED
    BY <2>1, <2>2, <2>3, <2>4 DEF TreeTyped
<1>6. ThreadsTyped'
  BY <1>1 DEF ThreadsTyped, RootsStay
<1>7. \A p \in N!Panels : nThread[p] # "dead" => \A l : Reached(p, l) => Reached(p, l)'
  BY <1>2 DEF Reached, PutIn, RootsStay
<1>8. Walked'
  BY <1>1, <1>2, <1>7 DEF Walked, RootsStay
<1>9. ~nMisuse' => Rooted'
  <2> SUFFICES ASSUME ~nMisuse' PROVE Rooted'
    OBVIOUS
  <2>1. \A w \in N!Widgets' : nKind'[w] \in N!Texts => \A i \in DOMAIN nList'[w] : nList'[w][i] = 0
    BY <1>1, <1>2 DEF Rooted
  <2>2. Len(nPanel') > 0 => nLast'[Len(nPanel')] = 0 \/ nRef'[nLast'[Len(nPanel')]] > 0
    BY DEF RootsStay
  <2>3. \A w \in N!Widgets' : nKind'[w] \in N!Groups /\ nRef'[w] > 0 =>
          nParent'[w] = 0 \/ nRef'[nParent'[w]] > 0
    BY <1>2
  <2> QED
    BY <2>1, <2>2, <2>3 DEF Rooted, There
<1> QED
  BY <1>5, <1>6, <1>8, <1>9 DEF WindowsInv

(* A group that is held is there, and so is the one it was made in.        *)
LEMMA BeginInv ==
  ASSUME WindowsInv, NEW g \in N!Widgets, N!Begin(g)
  PROVE  WindowsInv'
<1>1. PICK w \in {g, nParent[g]} : nLast' = [nLast EXCEPT ![Len(nPanel)] = w]
  BY DEF N!Begin, N!top
<1>2. /\ nFault = "none" /\ ~nMisuse /\ nMisuse' = nMisuse /\ nFault' = nFault
      /\ g \in nHeld /\ nKind[g] \in N!Groups /\ Len(nPanel) > 0
      /\ UNCHANGED <<nPanel, nRoots, nKind, nParent, nList, nRef, nHeld, nThread, nPath>>
  BY DEF N!Begin, N!Idle, N!NoWindow, N!top, N!tree, N!walks
<1>3. TreeTyped /\ Counted /\ Rooted /\ nMisuse \in BOOLEAN
  BY <1>2 DEF WindowsInv
<1>4. nRef[g] > 0 /\ g \in Nat /\ nParent[g] \in Nat
  BY <1>2, <1>3, CountedIsThere, Shapes
<1>5. GroupOrNone(w) /\ There(w) /\ w \in Nat
  BY <1>2, <1>3, <1>4 DEF GroupOrNone, TreeTyped, Rooted, There
<1>6. /\ N!Panels = 1 .. Len(nPanel) /\ Len(nPanel) \in 1 .. Len(nLast)
      /\ Len(nLast) = Len(nPanel)
  BY <1>2, <1>3, Shapes DEF TreeTyped
<1>7. /\ nLast' \in Seq(Nat) /\ Len(nLast') = Len(nLast)
      /\ \A p \in 1 .. Len(nLast) : nLast'[p] = IF p = Len(nPanel) THEN w ELSE nLast[p]
  BY <1>1, <1>3, <1>5, <1>6, ExceptSeq DEF TreeTyped
<1>8. \A p \in N!Panels : GroupOrNone(nLast'[p])
  BY <1>3, <1>5, <1>6, <1>7 DEF TreeTyped
<1>9. Counted'
  BY <1>2, <1>3 DEF Counted, N!Widgets
<1>10. nRef' \in Seq(Int) /\ Len(nRef') = Len(nRef) /\ nHeld' \subseteq nHeld
  BY <1>2, <1>3 DEF TreeTyped
<1>11. nLast'[Len(nPanel)] = 0 \/ nRef'[nLast'[Len(nPanel)]] > 0
  BY <1>2, <1>5, <1>6, <1>7 DEF There
<1>12. \A u \in N!Widgets : nKind[u] \in N!Groups /\ nRef'[u] > 0 =>
         nParent[u] = 0 \/ nRef'[nParent[u]] > 0
  BY <1>2, <1>3 DEF Rooted, There
<1> QED
  BY <1>2, <1>3, <1>7, <1>8, <1>9, <1>10, <1>11, <1>12, NoneGoes, RecountInv

-----------------------------------------------------------------------------
(* References are lost, and `left` are left: what a group that goes leaves *)
(* behind is there, unless something outlives it.                          *)
LEMMA Released ==
  ASSUME TreeTyped, nFault = "none", nMisuse \in BOOLEAN, ~nMisuse => Rooted,
         NEW left, \A w \in N!Widgets : left[w] \in Nat /\ left[w] <= nRef[w],
         N!Release(left)
  PROVE  /\ nRef' = left /\ nMisuse' \in BOOLEAN
         /\ nLast' \in Seq(Nat) /\ Len(nLast') = Len(nLast)
         /\ \A p \in N!Panels : GroupOrNone(nLast'[p])
         /\ ~nMisuse' =>
              /\ ~nMisuse /\ nFault' = "none"
              /\ Len(nPanel) > 0 => nLast'[Len(nPanel)] = 0 \/ left[nLast'[Len(nPanel)]] > 0
              /\ \A w \in N!Widgets : nKind[w] \in N!Groups /\ left[w] > 0 =>
                   nParent[w] = 0 \/ left[nParent[w]] > 0
<1> DEFINE G == N!FreedGroups(left)
<1>1. /\ N!Widgets = 1 .. Len(nKind) /\ N!Panels = 1 .. Len(nPanel) /\ Len(nPanel) \in Nat
      /\ nLast \in Seq(Nat) /\ Len(nLast) = Len(nPanel)
      /\ \A w \in N!Widgets : GroupOrNone(nParent[w]) /\ nRef[w] \in Int
      /\ \A p \in N!Panels : GroupOrNone(nLast[p])
  BY Shapes DEF TreeTyped
<1>2. \A w : w \in G <=> w \in N!Widgets /\ nKind[w] \in N!Groups /\ nRef[w] > 0 /\ left[w] = 0
  BY DEF N!FreedGroups, N!Freed
<1>3. nRef' = left
  BY DEF N!Release
<1>4. \A w : GroupOrNone(w) /\ There(w) /\ w \notin G => w = 0 \/ left[w] > 0
  BY <1>1, <1>2 DEF GroupOrNone, There
<1>5. ASSUME ~nMisuse
      PROVE  /\ Len(nPanel) > 0 => GroupOrNone(nLast[Len(nPanel)]) /\ There(nLast[Len(nPanel)])
             /\ \A w \in N!Widgets : nKind[w] \in N!Groups /\ (nRef[w] > 0 \/ left[w] > 0) =>
                  GroupOrNone(nParent[w]) /\ There(nParent[w])
  <2>1. Rooted
    BY <1>5
  <2>2. \A w \in N!Widgets : left[w] > 0 => nRef[w] > 0
    BY <1>1
  <2> QED
    BY <1>1, <2>1, <2>2 DEF Rooted
<1>6. CASE G = {}
  <2>1. UNCHANGED <<nLast, nMisuse, nFault>>
    BY <1>6 DEF N!Release
  <2> QED
    BY <1>1, <1>3, <1>4, <1>5, <1>6, <2>1
<1>7. CASE G # {} /\ N!NoWindow
  <2>1. N!Misuse(TRUE) /\ nLast' = nLast
    BY <1>7 DEF N!Release
  <2>2. nMisuse' = TRUE
    BY <2>1 DEF N!Misuse
  <2> QED
    BY <1>1, <1>3, <2>1, <2>2
<1>8. CASE G # {} /\ ~N!NoWindow
  <2> DEFINE first == CHOOSE w \in G : \A u \in G : w <= u
             now == [nLast EXCEPT ![Len(nPanel)] = nParent[first]]
  <2>1. nLast' = now /\ N!Misuse(N!Outlived(left, now)) /\ nFault' = nFault /\ Len(nPanel) > 0
    BY <1>8 DEF N!Release, N!NoWindow, N!top
  <2>2. first \in G
    <3>1. G \subseteq Nat
      BY <1>1, <1>2
    <3>2. \E w \in G : \A u \in G : w <= u
      BY <1>8, <3>1, FirstOf
    <3> HIDE DEF G
    <3> QED
      BY <3>2
  <2> HIDE DEF first
  <2>3. first \in N!Widgets /\ nKind[first] \in N!Groups /\ nRef[first] > 0
    BY <1>2, <2>2
  <2>4. nParent[first] \in Nat /\ GroupOrNone(nParent[first])
    BY <1>1, <2>3, Shapes
  <2>5. /\ now \in Seq(Nat) /\ Len(now) = Len(nLast)
        /\ \A p \in 1 .. Len(nLast) : now[p] = IF p = Len(nPanel) THEN nParent[first] ELSE nLast[p]
    BY <1>1, <2>1, <2>4, ExceptSeq
  <2>6. \A p \in N!Panels : GroupOrNone(now[p])
    BY <1>1, <2>4, <2>5
  <2>7. now[Len(nPanel)] = nParent[first]
    BY <1>1, <2>1, <2>5
  <2> HIDE DEF now
  <2>8. nMisuse' \in BOOLEAN
    BY <2>1 DEF N!Misuse
  <2>9. ASSUME ~nMisuse'
        PROVE  /\ ~nMisuse /\ nFault' = "none"
               /\ nLast'[Len(nPanel)] = 0 \/ left[nLast'[Len(nPanel)]] > 0
               /\ \A w \in N!Widgets : nKind[w] \in N!Groups /\ left[w] > 0 =>
                    nParent[w] = 0 \/ left[nParent[w]] > 0
    <3>1. ~nMisuse /\ ~N!Outlived(left, now)
      BY <2>1, <2>9 DEF N!Misuse
    <3>2. /\ now[Len(nPanel)] \notin G
          /\ \A w \in N!Widgets : nKind[w] \in N!Groups /\ left[w] > 0 => nParent[w] \notin G
      BY <2>1, <3>1 DEF N!Outlived, N!top
    <3>3. GroupOrNone(nParent[first]) /\ There(nParent[first])
      BY <1>5, <2>3, <3>1
    <3>4. nLast'[Len(nPanel)] = 0 \/ left[nLast'[Len(nPanel)]] > 0
      BY <1>4, <2>1, <2>7, <3>2, <3>3
    <3>5. \A w \in N!Widgets : nKind[w] \in N!Groups /\ left[w] > 0 =>
            nParent[w] = 0 \/ left[nParent[w]] > 0
      BY <1>4, <1>5, <3>1, <3>2
    <3> QED
      BY <2>1, <3>1, <3>4, <3>5
  <2> QED
    BY <1>3, <2>1, <2>5, <2>6, <2>8, <2>9
<1> QED
  BY <1>6, <1>7, <1>8

(* A variable goes out of scope. *)
LEMMA DropInv ==
  ASSUME WindowsInv, NEW w \in N!Widgets, N!Drop(w)
  PROVE  WindowsInv'
<1> DEFINE left == [nRef EXCEPT ![w] = @ - 1]
<1>1. /\ nFault = "none" /\ ~nMisuse /\ w \in nHeld /\ nHeld' = nHeld \ {w}
      /\ UNCHANGED <<nPanel, nRoots, nKind, nParent, nList, nThread, nPath>>
      /\ N!Release(left)
  BY DEF N!Drop, N!Idle, N!walks
<1>2. TreeTyped /\ Counted /\ Rooted /\ nMisuse \in BOOLEAN
  BY <1>1 DEF WindowsInv
<1>3. /\ \A u \in N!Widgets : nRef[u] \in Nat
      /\ nRef[w] > 0
  BY <1>1, <1>2, CountedIsThere
<1>4. nRef \in Seq(Int) /\ N!Widgets = 1 .. Len(nRef)
  BY <1>2, Shapes DEF TreeTyped
<1>5. /\ left \in Seq(Int) /\ Len(left) = Len(nRef)
      /\ \A u \in N!Widgets : left[u] = IF u = w THEN nRef[u] - 1 ELSE nRef[u]
  <2>1. nRef[w] - 1 \in Int
    BY <1>3
  <2> QED
    BY <1>4, <2>1, ExceptSeq
<1> HIDE DEF left
<1>6. \A u \in N!Widgets : left[u] \in Nat /\ left[u] <= nRef[u]
  BY <1>3, <1>5
<1>7. /\ nRef' = left /\ nMisuse' \in BOOLEAN
      /\ nLast' \in Seq(Nat) /\ Len(nLast') = Len(nLast)
      /\ \A p \in N!Panels : GroupOrNone(nLast'[p])
      /\ ~nMisuse' =>
           /\ ~nMisuse /\ nFault' = "none"
           /\ Len(nPanel) > 0 => nLast'[Len(nPanel)] = 0 \/ left[nLast'[Len(nPanel)]] > 0
           /\ \A u \in N!Widgets : nKind[u] \in N!Groups /\ left[u] > 0 =>
                nParent[u] = 0 \/ left[nParent[u]] > 0
  BY <1>1, <1>2, <1>6, Released
<1>8. Counted'
  <2>1. N!Widgets' = N!Widgets
    BY <1>1 DEF N!Widgets
  <2> SUFFICES ASSUME NEW u \in N!Widgets
               PROVE  nRef'[u] = Cardinality({u} \cap nHeld')
                        + Cardinality(N!Places(nList', u)) + Cardinality(N!Places(nRoots', u))
    BY <2>1 DEF Counted
  <2>2. nRef[u] = Cardinality({u} \cap nHeld)
                  + Cardinality(N!Places(nList, u)) + Cardinality(N!Places(nRoots, u))
    BY <1>2 DEF Counted
  <2>3. /\ Cardinality(N!Places(nList, u)) \in Nat /\ Cardinality(N!Places(nRoots, u)) \in Nat
        /\ Cardinality({u} \cap nHeld) = IF u \in nHeld THEN 1 ELSE 0
    BY <1>2, CountedIs
  <2>4. UNCHANGED <<nList, nRoots>>
    BY <1>1
  <2>5. CASE u = w
    <3>1. {u} \cap nHeld' = {}
      BY <1>1, <2>5
    <3>2. Cardinality({u} \cap nHeld') = 0 /\ Cardinality({u} \cap nHeld) = 1
      BY <1>1, <2>3, <2>5, <3>1, FS_EmptySet
    <3> QED
      BY <1>5, <1>7, <2>2, <2>3, <2>4, <2>5, <3>2
  <2>6. CASE u # w
    <3>1. {u} \cap nHeld' = {u} \cap nHeld
      BY <1>1, <2>6
    <3> QED
      BY <1>5, <1>7, <2>2, <2>4, <2>6, <3>1
  <2> QED
    BY <2>5, <2>6
<1> QED
  BY <1>1, <1>5, <1>7, <1>8, NoneGoes, RecountInv

-----------------------------------------------------------------------------
(* A panel that is gone takes its list with it, and a reference to each of *)
(* the widgets there for each time it was in the list.                     *)
LEMMA JoinedInv ==
  ASSUME WindowsInv, NEW p \in N!Panels, N!Joined(p)
  PROVE  WindowsInv'
<1> DEFINE left == [w \in N!Widgets |-> nRef[w] - N!Times(nRoots[p], w)]
<1>1. /\ nFault = "none" /\ nThread[p] = "dead"
      /\ nPanel' = [nPanel EXCEPT ![p] = "gone"] /\ nRoots' = [nRoots EXCEPT ![p] = <<>>]
      /\ UNCHANGED <<nKind, nParent, nList, nHeld, nThread, nPath>>
      /\ N!Release(left)
  BY DEF N!Joined, N!walks
<1>2. TreeTyped /\ Counted /\ (~nMisuse => Rooted) /\ nMisuse \in BOOLEAN /\ Walked
  BY <1>1 DEF WindowsInv
<1>3. /\ N!Widgets = 1 .. Len(nKind) /\ N!Panels = 1 .. Len(nPanel) /\ Len(nPanel) \in Nat
      /\ nRef \in Seq(Int) /\ Len(nRef) = Len(nKind) /\ DOMAIN nRoots = N!Panels
      /\ nRoots \in Seq(Seq(Nat)) /\ Len(nRoots) = Len(nPanel)
      /\ nPanel \in Seq({"live", "closing", "gone"}) /\ Len(nKind) \in Nat
  BY <1>2, Shapes DEF TreeTyped
<1>4. PutOut(nRoots', nRoots, p)
  BY <1>1, <1>3 DEF PutOut
<1>5. \A u : /\ IsFiniteSet(N!Places(nRoots, u)) /\ Cardinality(N!Places(nRoots, u)) \in Nat
             /\ Cardinality(N!Places(nList, u)) \in Nat
             /\ Cardinality({u} \cap nHeld) \in Nat
  BY <1>2, CountedIs
<1>6. /\ nRoots' \in Seq(Seq(Nat)) /\ Len(nRoots') = Len(nRoots)
      /\ \A q \in N!Panels : nRoots'[q] = IF q = p THEN <<>> ELSE nRoots[q]
  BY <1>3, <1>4, Emptied
<1>7. \A u : /\ Cardinality(N!Places(nRoots', u)) =
                  Cardinality(N!Places(nRoots, u)) - N!Times(nRoots[p], u)
             /\ Cardinality(N!Places(nRoots', u)) \in Nat
             /\ N!Times(nRoots[p], u) \in Nat
  BY <1>4, <1>5, Emptied
<1>8. \A u \in N!Widgets : left[u] = nRef[u] - N!Times(nRoots[p], u)
  OBVIOUS
<1>9. left \in Seq(Int) /\ Len(left) = Len(nRef)
  <2>1. \A u \in 1 .. Len(nKind) : nRef[u] - N!Times(nRoots[p], u) \in Int
    <3>1. \A u \in 1 .. Len(nKind) : nRef[u] \in Int
      BY <1>3, ElementOfSeq
    <3>2. \A u : N!Times(nRoots[p], u) \in Int
      BY <1>7
    <3> QED
      BY <3>1, <3>2
  <2>2. left \in Seq(Int)
    BY <1>3, <2>1
  <2>3. DOMAIN left = 1 .. Len(nKind)
    BY <1>3
  <2>4. Len(left) = Len(nKind)
    BY <1>3, <2>2, <2>3, LenProperties
  <2> QED
    BY <1>3, <2>2, <2>4
<1> HIDE DEF left
<1>10. \A u \in N!Widgets : left[u] \in Nat /\ left[u] <= nRef[u]
  <2> TAKE u \in N!Widgets
  <2>1. nRef[u] = Cardinality({u} \cap nHeld)
                  + Cardinality(N!Places(nList, u)) + Cardinality(N!Places(nRoots, u))
    BY <1>2 DEF Counted
  <2>2. ASSUME NEW a \in Nat, NEW b \in Nat, NEW c \in Nat, NEW d \in Nat, c - d \in Nat
        PROVE  a + b + c - d \in Nat /\ a + b + c - d <= a + b + c
    BY <2>2
  <2>3. left[u] = nRef[u] - N!Times(nRoots[p], u)
    BY <1>8
  <2>4. Cardinality(N!Places(nRoots, u)) - N!Times(nRoots[p], u) \in Nat
        /\ N!Times(nRoots[p], u) \in Nat
    BY <1>7
  <2> QED
    BY <1>5, <2>1, <2>2, <2>3, <2>4
<1>11. /\ nRef' = left /\ nMisuse' \in BOOLEAN
       /\ nLast' \in Seq(Nat) /\ Len(nLast') = Len(nLast)
       /\ \A q \in N!Panels : GroupOrNone(nLast'[q])
       /\ ~nMisuse' =>
            /\ ~nMisuse /\ nFault' = "none"
            /\ Len(nPanel) > 0 => nLast'[Len(nPanel)] = 0 \/ left[nLast'[Len(nPanel)]] > 0
            /\ \A u \in N!Widgets : nKind[u] \in N!Groups /\ left[u] > 0 =>
                 nParent[u] = 0 \/ left[nParent[u]] > 0
  BY <1>1, <1>2, <1>10, Released
<1>12. Counted'
  <2>1. N!Widgets' = N!Widgets
    BY <1>1 DEF N!Widgets
  <2> SUFFICES ASSUME NEW u \in N!Widgets
               PROVE  nRef'[u] = Cardinality({u} \cap nHeld')
                        + Cardinality(N!Places(nList', u)) + Cardinality(N!Places(nRoots', u))
    BY <2>1 DEF Counted
  <2>2. nRef[u] = Cardinality({u} \cap nHeld)
                  + Cardinality(N!Places(nList, u)) + Cardinality(N!Places(nRoots, u))
    BY <1>2 DEF Counted
  <2>3. UNCHANGED <<nList, nHeld>>
    BY <1>1
  <2>4. nRef'[u] = nRef[u] - N!Times(nRoots[p], u)
    BY <1>8, <1>11
  <2>5. Cardinality(N!Places(nRoots', u)) =
          Cardinality(N!Places(nRoots, u)) - N!Times(nRoots[p], u)
    BY <1>7
  <2>6. ASSUME NEW a \in Nat, NEW b \in Nat, NEW c \in Nat, NEW d \in Nat
        PROVE  a + b + c - d = a + b + (c - d)
    BY <2>6
  <2>7. N!Times(nRoots[p], u) \in Nat
    BY <1>7
  <2> QED
    BY <1>5, <2>2, <2>3, <2>4, <2>5, <2>6, <2>7
<1>13. /\ nPanel' \in Seq({"live", "closing", "gone"}) /\ Len(nPanel') = Len(nPanel)
       /\ \A q \in N!Panels : nPanel'[q] = IF q = p THEN "gone" ELSE nPanel[q]
  BY <1>1, <1>3, ExceptSeq
<1>14. RootsStay
  BY <1>1, <1>2, <1>6, <1>13 DEF RootsStay, Walked
<1>15. nHeld' \subseteq nHeld
  BY <1>1
<1> QED
  BY <1>1, <1>9, <1>11, <1>12, <1>14, <1>15, RecountInv

-----------------------------------------------------------------------------
(* A string is put in a Menu or a Combo, or a menu that is held in a bar:  *)
(* it is counted once more.                                                *)
LEMMA AddToInv ==
  ASSUME WindowsInv, NEW g \in N!Widgets, NEW x \in N!Widgets \cup {0}, N!AddTo(g, x)
  PROVE  WindowsInv'
<1>1. /\ nFault = "none" /\ ~nMisuse /\ nFault' = nFault /\ nMisuse' = nMisuse
      /\ (nKind[g] \in N!Texts /\ x = 0) \/ (nKind[g] = "Row" /\ x \in nHeld)
      /\ Len(nList[g]) < MaxItems
      /\ nList' = [nList EXCEPT ![g] = Append(@, x)]
      /\ nRef' = IF x = 0 THEN nRef ELSE [nRef EXCEPT ![x] = @ + 1]
      /\ UNCHANGED <<nPanel, nLast, nRoots, nKind, nParent, nHeld, nThread, nPath>>
  BY DEF N!AddTo, N!Idle, N!walks, N!Text
<1>2. TreeTyped /\ ThreadsTyped /\ Counted /\ Walked /\ Rooted
  BY <1>1 DEF WindowsInv
<1>3. /\ N!Widgets = 1 .. Len(nKind) /\ Len(nKind) \in Nat /\ MaxItems \in Nat
      /\ nList \in Seq(Seq(Nat)) /\ Len(nList) = Len(nKind) /\ DOMAIN nList = N!Widgets
      /\ nRef \in Seq(Int) /\ Len(nRef) = Len(nKind)
      /\ \A u \in N!Widgets : Len(nList[u]) <= MaxItems /\ nList[u] \in Seq(Nat)
  BY <1>2, Shapes DEF TreeTyped
<1>4. x \in Nat /\ (x \in N!Widgets \/ (x = 0 /\ nKind[g] \in N!Texts))
  BY <1>1, <1>2, <1>3 DEF TreeTyped
<1>5. PutLast(nList', nList, g, x)
  BY <1>1, <1>3, <1>4 DEF PutLast
<1>6. \A u : /\ IsFiniteSet(N!Places(nList, u)) /\ Cardinality(N!Places(nList, u)) \in Nat
             /\ Cardinality(N!Places(nRoots, u)) \in Nat
             /\ Cardinality({u} \cap nHeld) \in Nat
  BY <1>2, CountedIs
<1>7. /\ nList' \in Seq(Seq(Nat)) /\ Len(nList') = Len(nList)
      /\ \A u \in N!Widgets : nList'[u] = IF u = g THEN Append(nList[u], x) ELSE nList[u]
      /\ \A u : Cardinality(N!Places(nList', u)) =
                  Cardinality(N!Places(nList, u)) + (IF x = u THEN 1 ELSE 0)
  <2>1. DOMAIN nList = N!Widgets /\ \A u : IsFiniteSet(N!Places(nList, u))
    BY <1>3, <1>6
  <2>2. /\ nList' \in Seq(Seq(Nat)) /\ Len(nList') = Len(nList)
        /\ \A u \in DOMAIN nList : nList'[u] = IF u = g THEN Append(nList[u], x) ELSE nList[u]
        /\ \A u : IsFiniteSet(N!Places(nList, u)) =>
                  Cardinality(N!Places(nList', u)) =
                    Cardinality(N!Places(nList, u)) + (IF x = u THEN 1 ELSE 0)
    BY <1>5, PutAtEnd
  <2> QED
    BY <2>1, <2>2
<1>8. /\ nRef' \in Seq(Int) /\ Len(nRef') = Len(nRef)
      /\ \A u \in N!Widgets : nRef'[u] = IF x = u THEN nRef[u] + 1 ELSE nRef[u]
  <2>1. CASE x = 0
    BY <1>1, <1>3, <2>1
  <2>2. CASE x \in N!Widgets
    <3>1. nRef[x] + 1 \in Int /\ x # 0 /\ x \in 1 .. Len(nRef)
      BY <1>3, <2>2, ElementOfSeq
    <3>2. nRef' = [nRef EXCEPT ![x] = nRef[x] + 1]
      BY <1>1, <3>1
    <3>3. /\ nRef' \in Seq(Int) /\ Len(nRef') = Len(nRef)
          /\ \A u \in 1 .. Len(nRef) : nRef'[u] = IF u = x THEN nRef[x] + 1 ELSE nRef[u]
      <4>1. nRef \in Seq(Int)
        BY <1>3
      <4> QED
        BY <3>1, <3>2, <4>1, ExceptSeq
    <3>4. N!Widgets = 1 .. Len(nRef)
      BY <1>3
    <3> QED
      BY <3>3, <3>4
  <2> QED
    BY <2>1, <2>2
<1>9. \A u \in N!Widgets : Longer(nList[u], nList'[u], x)
  BY <1>3, <1>4, <1>7, AppendIsLonger
<1>10. N!Widgets' = N!Widgets /\ N!Panels' = N!Panels
  BY <1>1 DEF N!Widgets, N!Panels
<1>11. \A u \in N!Widgets : Len(nList'[u]) <= MaxItems
  <2> TAKE u \in N!Widgets
  <2>1. CASE u = g
    <3>1. Len(Append(nList[g], x)) = Len(nList[g]) + 1 /\ Len(nList[g]) \in Nat
      BY <1>3, AppendProperties, LenProperties
    <3>2. nList'[u] = Append(nList[g], x)
      BY <1>7, <2>1
    <3> QED
      BY <1>1, <1>3, <3>1, <3>2
  <2>2. CASE u # g
    BY <1>3, <1>7, <2>2
  <2> QED
    BY <2>1, <2>2
<1>12. \A u \in N!Widgets : \A i \in DOMAIN nList'[u] :
         nList'[u][i] \in N!Widgets \/ (nList'[u][i] = 0 /\ nKind[u] \in N!Texts)
  <2> TAKE u \in N!Widgets
  <2> TAKE i \in DOMAIN nList'[u]
  <2>1. CASE i \in DOMAIN nList[u] /\ nList'[u][i] = nList[u][i]
    BY <1>2, <2>1 DEF TreeTyped
  <2>2. CASE u = g /\ nList'[u][i] = x
    BY <1>4, <2>2
  <2>3. CASE u # g
    BY <1>2, <1>7, <2>3 DEF TreeTyped
  <2>4. (i \in DOMAIN nList[u] /\ nList'[u][i] = nList[u][i]) \/ nList'[u][i] = x
    BY <1>9 DEF Longer
  <2> QED
    BY <2>1, <2>2, <2>3, <2>4
<1>13. TreeTyped'
  <2>1. /\ \A p \in N!Panels' : GroupOrNone(nLast[p])'
        /\ \A w \in N!Widgets' : GroupOrNone(nParent[w])'
    BY <1>1, <1>2, <1>10 DEF GroupOrNone, TreeTyped
  <2>2. /\ nPanel' \in Seq({"live", "closing", "gone"})
        /\ nKind' \in Seq(N!Kinds)
        /\ nParent' \in Seq(Nat) /\ Len(nParent') = Len(nKind')
        /\ nList' \in Seq(Seq(Nat)) /\ Len(nList') = Len(nKind')
        /\ nRef' \in Seq(Int) /\ Len(nRef') = Len(nKind')
        /\ nHeld' \subseteq N!Widgets'
        /\ nLast' \in Seq(Nat) /\ Len(nLast') = Len(nPanel')
        /\ nRoots' \in Seq(Seq(Nat)) /\ Len(nRoots') = Len(nPanel')
    BY <1>1, <1>2, <1>3, <1>7, <1>8, <1>10 DEF TreeTyped
  <2>3. /\ \A p \in N!Panels' : Len(nRoots'[p]) <= MaxItems
        /\ \A p \in N!Panels' : \A i \in DOMAIN nRoots'[p] : nRoots'[p][i] \in N!Widgets'
    BY <1>1, <1>2, <1>10 DEF TreeTyped
  <2>4. /\ \A w \in N!Widgets' : Len(nList'[w]) <= MaxItems
        /\ \A w \in N!Widgets' : \A i \in DOMAIN nList'[w] :
             nList'[w][i] \in N!Widgets' \/ (nList'[w][i] = 0 /\ nKind'[w] \in N!Texts)
    BY <1>1, <1>10, <1>11, <1>12
  <2> QED
    BY <2>1, <2>2, <2>3, <2>4 DEF TreeTyped
<1>14. ThreadsTyped'
  BY <1>1, <1>2 DEF ThreadsTyped
<1>15. Counted'
  <2> SUFFICES ASSUME NEW u \in N!Widgets
               PROVE  nRef'[u] = Cardinality({u} \cap nHeld')
                        + Cardinality(N!Places(nList', u)) + Cardinality(N!Places(nRoots', u))
    BY <1>10 DEF Counted
  <2> DEFINE more == IF x = u THEN 1 ELSE 0
  <2>1. nRef[u] = Cardinality({u} \cap nHeld)
                  + Cardinality(N!Places(nList, u)) + Cardinality(N!Places(nRoots, u))
    BY <1>2 DEF Counted
  <2>2. UNCHANGED <<nRoots, nHeld>>
    BY <1>1
  <2>3. nRef[u] \in Int
    BY <1>3, ElementOfSeq
  <2>4. more \in Nat /\ nRef'[u] = nRef[u] + more
    BY <1>8, <2>3
  <2>5. Cardinality(N!Places(nList', u)) = Cardinality(N!Places(nList, u)) + more
    BY <1>7
  <2> HIDE DEF more
  <2>6. ASSUME NEW a \in Nat, NEW b \in Nat, NEW c \in Nat, NEW d \in Nat
        PROVE  (a + b + c) + d = a + (b + d) + c
    BY <2>6
  <2> QED
    BY <1>6, <2>1, <2>2, <2>4, <2>5, <2>6
<1>16. \A p, l : Reached(p, l) => Reached(p, l)'
  <2>1. ASSUME NEW p, NEW u \in N!Widgets, PutIn(p, u)
        PROVE  PutIn(p, u)'
    <3>1. CASE \E v \in N!Widgets : \E i \in DOMAIN nList[v] : nList[v][i] = u
      <4>1. \E v \in N!Widgets : \E i \in DOMAIN nList'[v] : nList'[v][i] = u
        BY <1>9, <3>1 DEF Longer
      <4> QED
        BY <1>10, <4>1 DEF PutIn
    <3>2. CASE \E i \in DOMAIN nRoots[p] : nRoots[p][i] = u
      BY <1>1, <3>2 DEF PutIn
    <3> QED
      BY <2>1, <3>1, <3>2 DEF PutIn
  <2> QED
    BY <1>10, <2>1 DEF Reached
<1>17. Walked'
  BY <1>1, <1>2, <1>10, <1>16 DEF Walked
<1>18. Rooted'
  <2>1. \A u \in N!Widgets : nRef[u] > 0 => nRef'[u] > 0
    <3>1. \A u \in N!Widgets : nRef[u] \in Int
      BY <1>2, Shapes
    <3> QED
      BY <1>8, <3>1
  <2>2. \A u \in N!Widgets : nRef'[u] > 0 => nRef[u] > 0
    <3>1. x \in N!Widgets => nRef[x] > 0
      <4>1. CASE x = 0
        BY <1>3, <4>1
      <4>2. CASE x \in nHeld
        BY <1>2, <4>2, CountedIsThere
      <4> QED
        BY <1>1, <4>1, <4>2
    <3> QED
      BY <1>8, <3>1
  <2>3. \A u : GroupOrNone(u) /\ There(u) => u = 0 \/ nRef'[u] > 0
    BY <2>1 DEF GroupOrNone, There
  <2>4. Len(nPanel) > 0 => GroupOrNone(nLast[Len(nPanel)]) /\ There(nLast[Len(nPanel)])
    <3>1. Len(nPanel) > 0 => Len(nPanel) \in N!Panels
      BY <1>2, Shapes
    <3> QED
      BY <1>2, <3>1 DEF Rooted, TreeTyped
  <2>5. \A u \in N!Widgets : nKind[u] \in N!Groups /\ nRef'[u] > 0 =>
          GroupOrNone(nParent[u]) /\ There(nParent[u])
    BY <1>2, <2>2 DEF Rooted, TreeTyped
  <2>6. \A u \in N!Widgets : nKind[u] \in N!Texts => \A i \in DOMAIN nList'[u] : nList'[u][i] = 0
    <3> TAKE u \in N!Widgets
    <3>1. CASE u = g /\ nKind[g] \in N!Texts
      <4>1. x = 0
        BY <1>1, <3>1 DEF N!Texts
      <4>2. \A i \in DOMAIN nList[g] : nList[g][i] = 0
        BY <1>2, <3>1 DEF Rooted
      <4> QED
        BY <1>9, <3>1, <4>1, <4>2 DEF Longer
    <3>2. CASE u # g
      BY <1>2, <1>7, <3>2 DEF Rooted
    <3> QED
      BY <3>1, <3>2
  <2> QED
    BY <1>1, <1>10, <2>3, <2>4, <2>5, <2>6 DEF Rooted, There
<1> QED
  BY <1>1, <1>13, <1>14, <1>15, <1>17, <1>18 DEF WindowsInv

-----------------------------------------------------------------------------
(* Every step of the machine and of the threads keeps the invariant.       *)
LEMMA WindowsInductive == WindowsInv /\ [N!Next]_N!vars => WindowsInv'
<1> SUFFICES ASSUME WindowsInv, [N!Next]_N!vars PROVE WindowsInv'
  OBVIOUS
<1>1. CASE N!NewPanel \/ N!BadWindow \/ N!Added
  BY <1>1, NewPanelInv, BadWindowInv, AddedInv
<1>2. CASE \E k \in N!Kinds : \E t \in N!Targets(k) : N!New(k, t)
  BY <1>2, NewInv
<1>3. ASSUME NEW g \in N!Widgets,
             N!Begin(g) \/ N!Drop(g) \/ \E x \in N!Widgets \cup {N!Text} : N!AddTo(g, x)
      PROVE  WindowsInv'
  BY <1>3, BeginInv, DropInv, AddToInv DEF N!Text
<1>4. ASSUME NEW p \in N!Panels, N!Close(p) \/ N!Cancelled(p) \/ N!Joined(p) \/ N!Loop(p)
      PROVE  WindowsInv'
  BY <1>4, CloseInv, CancelledInv, JoinedInv, XLockInv, VisitInv, LeaveInv, DrawInv DEF N!Loop
<1>5. CASE UNCHANGED N!vars
  <2>1. UNCHANGED <<nPanel, nLast, nRoots, nKind, nParent, nList, nRef, nHeld, nThread, nPath,
                    nMisuse, nFault>>
    BY <1>5 DEF N!vars, N!tree, N!walks
  <2>2. N!Widgets' = N!Widgets /\ N!Panels' = N!Panels
    BY <2>1 DEF N!Widgets, N!Panels
  <2>3. TreeTyped => TreeTyped'
    BY <2>1, <2>2 DEF TreeTyped, GroupOrNone
  <2>4. Counted => Counted'
    BY <2>1, <2>2 DEF Counted
  <2>5. \A p, l : Reached(p, l) => Reached(p, l)'
    BY <2>1, <2>2 DEF Reached, PutIn
  <2>6. Walked => Walked'
    BY <2>1, <2>2, <2>5 DEF Walked
  <2>7. Rooted => Rooted'
    BY <2>1, <2>2 DEF Rooted, There
  <2>8. ThreadsTyped => ThreadsTyped'
    BY <2>1 DEF ThreadsTyped
  <2> QED
    BY <2>1, <2>3, <2>4, <2>6, <2>7, <2>8 DEF WindowsInv
<1> QED
  BY <1>1, <1>2, <1>3, <1>4, <1>5 DEF N!Next

-----------------------------------------------------------------------------
(* Beside each other, the driver and the windows are each as they are      *)
(* alone: what is proved of one is so of both.                             *)
THEOREM OutputsAreBoth == OutputsSpec => Spec /\ N!Spec
<1>1. OutputsInit => Init /\ N!Init
  BY DEF OutputsInit
<1>2. [OutputsNext]_<<plug, vars, windowVars>> => [Next]_vars
  BY DEF OutputsNext
<1>3. [OutputsNext]_<<plug, vars, windowVars>> => [N!Next]_N!vars
  <2>1. UNCHANGED windowVars => UNCHANGED N!vars
    BY DEF windowVars, N!vars, N!bounds, N!tree, N!walks
  <2> QED
    BY <2>1 DEF OutputsNext
<1> QED
  BY <1>1, <1>2, <1>3, PTL DEF OutputsSpec, Spec, N!Spec

(* The sound of a driver is right whatever windows there are beside it     *)
(* (alsa.c:147-185 and the other drivers).                                 *)
THEOREM OutputsSamplesPlaced == OutputsSpec => []SamplesPlaced
BY OutputsAreBoth, SpecSamplesPlaced, PTL

(* So is what del leaves (alsa.c:218-234 and the other drivers).           *)
THEOREM OutputsDelIsSafe == OutputsSpec => DelIsSafe
BY OutputsAreBoth, SpecDelIsSafe, PTL

(* No thread of Nuklear meets a widget that was freed, however shreds make *)
(* and drop them meanwhile, and every reference is counted                 *)
(* (nuklear.c:152-181, 399-415): for every number of panels and widgets.   *)
THEOREM OutputsWidgetsSafe == OutputsSpec => []WidgetsSafe
<1>1. N!Spec => []WindowsInv
  BY WindowsInit, WindowsInductive, PTL DEF N!Spec
<1>2. WindowsInv => WidgetsSafe
  BY WindowsInvIs DEF WidgetsSafe
<1> QED
  BY <1>1, <1>2, OutputsAreBoth, PTL

=============================================================================
