--------------------------- MODULE SoundpipeUnits ---------------------------
(***************************************************************************)
(* The unit generators of the Soundpipe plug-in (Soundpipe/soundpipe.c).   *)
(* The file is generated: every unit is a structure GW_<unit>, a tick, a   *)
(* constructor, a destructor, an init when the library needs parameters,   *)
(* and a getter and a setter for each field.  A definition below says what *)
(* these functions of one unit do that the next unit's do not; Soundpipe   *)
(* has the steps they share.                                               *)
(*                                                                         *)
(*   late     the oscillator is made by init, not by the constructor       *)
(*   init     what init reads in the shred's memory, in order              *)
(*   counted  init counts a reference to each of its tables, and gives it  *)
(*            back on failure, on the next init and in the destructor      *)
(*   ins,outs the channels the constructor asks of ugen_ini                *)
(*   trig     it asks ugen_gen for a trigger                               *)
(*   tick     the signals the tick reads and writes                        *)
(*   floats, ints  the fields with a getter and a setter                   *)
(*   dials    those that the library keeps behind a pointer                *)
(***************************************************************************)
EXTENDS Naturals, Sequences

(* What the ticks read and write: the mono signal (in, out), the trigger,  *)
(* or the channels of a multi-channel unit.                                *)
Tick(reads, writes) == [reads |-> reads, writes |-> writes]

Source == Tick({}, {"out"})
Through == Tick({"in"}, {"out"})
Struck == Tick({"trig"}, {"out"})
Gated == Tick({"in", "trig"}, {"out"})
Merge == Tick({"ch0", "ch1"}, {"out"})
Switched == Tick({"ch0", "ch1", "trig"}, {"out"})
Spread == Tick({"ch0"}, {"ch0", "ch1"})
Stereo == Tick({"ch0", "ch1"}, {"ch0", "ch1"})

(* The constructor makes the oscillator, whatever the library answers. *)
Made(ins, outs, tick) ==
  [late |-> FALSE, init |-> <<>>, counted |-> TRUE, ins |-> ins, outs |-> outs,
   trig |-> FALSE, tick |-> tick, floats |-> {}, dials |-> {}, ints |-> {}]

(* The constructor leaves it NULL until init is called. *)
Late(init, ins, outs, tick) ==
  [Made(ins, outs, tick) EXCEPT !.late = TRUE, !.init = init]

Trig(unit) == [unit EXCEPT !.trig = TRUE]
Floats(unit, names) == [unit EXCEPT !.floats = names]
Dials(unit, names) == [unit EXCEPT !.dials = names]
Ints(unit, names) == [unit EXCEPT !.ints = names]

(* nsmp_init alone counts its table and never gives the count back. *)
Uncounted(unit) == [unit EXCEPT !.counted = FALSE]

-----------------------------------------------------------------------------
GW_adsr == Floats(Made(1, 1, Through), {"atk", "dec", "sus", "rel"})

GW_allpass == Floats(Late(<<"float">>, 1, 1, Through), {"revtime"})

GW_atone == Floats(Made(1, 1, Through), {"hp"})

GW_autowah == Dials(Made(1, 1, Through), {"level", "wah", "mix"})

GW_bal == Made(2, 1, Merge)

GW_bar ==
  Floats(Trig(Late(<<"float", "float">>, 1, 1, Struck)), {"bcL", "bcR", "T30",
    "scan", "pos", "vel", "wid"})

GW_biquad == Floats(Made(1, 1, Through), {"b0", "b1", "b2", "a0", "a1", "a2"})

GW_biscale == Floats(Made(1, 1, Through), {"min", "max"})

GW_bitcrush == Floats(Made(1, 1, Through), {"bitdepth", "srate"})

GW_blsaw == Dials(Made(0, 1, Source), {"freq", "amp"})

GW_blsquare == Dials(Made(0, 1, Source), {"freq", "amp", "width"})

GW_bltriangle == Dials(Made(0, 1, Source), {"freq", "amp"})

GW_brown == Made(0, 1, Source)

GW_butbp == Floats(Made(1, 1, Through), {"freq", "bw"})

GW_butbr == Floats(Made(1, 1, Through), {"freq", "bw"})

GW_buthp == Floats(Made(1, 1, Through), {"freq"})

GW_butlp == Floats(Made(1, 1, Through), {"freq"})

GW_clip == Floats(Made(1, 1, Through), {"lim"})

GW_clock == Floats(Trig(Made(1, 1, Struck)), {"bpm", "subdiv"})

GW_comb == Floats(Late(<<"float">>, 1, 1, Through), {"revtime"})

GW_compressor == Dials(Made(1, 1, Through), {"ratio", "thresh", "atk", "rel"})

GW_conv == Late(<<"ftbl", "float">>, 1, 1, Through)

GW_count == Floats(Trig(Made(1, 1, Struck)), {"count", "mode"})

GW_crossfade == Floats(Made(2, 1, Merge), {"pos"})

GW_dcblock == Made(1, 1, Through)

GW_delay == Floats(Late(<<"float">>, 1, 1, Through), {"feedback"})

GW_diode == Floats(Made(1, 1, Through), {"freq", "res"})

GW_diskin == Late(<<"string">>, 0, 1, Source)

GW_dist == Floats(Made(1, 1, Through), {"pregain", "postgain", "shape1", "shape2"})

GW_dmetro == Floats(Made(0, 1, Source), {"time"})

GW_drip ==
  Floats(Trig(Late(<<"float">>, 1, 1, Struck)), {"num_tubes", "amp", "damp",
    "shake_max", "freq", "freq1", "freq2"})

GW_dtrig ==
  Ints(Floats(Trig(Late(<<"ftbl">>, 1, 1, Struck)), {"delay", "scale"}), {"loop"})

GW_dust == Ints(Floats(Made(0, 1, Source), {"amp", "density"}), {"bipolar"})

GW_eqfil == Floats(Made(1, 1, Through), {"freq", "bw", "gain"})

GW_expon == Floats(Trig(Made(1, 1, Struck)), {"a", "dur", "b"})

GW_fof ==
  Floats(Late(<<"ftbl", "ftbl", "int", "float">>, 0, 1, Source), {"amp", "fund",
    "form", "oct", "band", "ris", "dec", "dur"})

GW_fofilt == Floats(Made(1, 1, Through), {"freq", "atk", "dec"})

GW_fog ==
  Floats(Late(<<"ftbl", "ftbl", "int", "float">>, 0, 1, Source), {"amp", "dens",
    "trans", "spd", "oct", "band", "ris", "dec", "dur"})

GW_fold == Floats(Made(1, 1, Through), {"incr"})

GW_fosc ==
  Floats(Late(<<"ftbl">>, 0, 1, Source), {"freq", "amp", "car", "mod", "indx"})

GW_gbuzz ==
  Floats(Late(<<"ftbl", "float">>, 0, 1, Source), {"freq", "amp", "nharm",
    "lharm", "mul"})

GW_hilbert == Made(1, 2, Spread)

GW_in == Made(0, 1, Source)

GW_incr == Floats(Trig(Late(<<"float">>, 1, 1, Struck)), {"step", "min", "max"})

GW_jcrev == Made(1, 1, Through)

GW_jitter == Floats(Made(0, 1, Source), {"amp", "cpsMin", "cpsMax"})

GW_line == Floats(Trig(Made(1, 1, Struck)), {"a", "dur", "b"})

GW_lpc == Late(<<"int">>, 1, 1, Through)

GW_lpf18 == Floats(Made(1, 1, Through), {"cutoff", "res", "dist"})

GW_maygate == Ints(Floats(Trig(Made(1, 1, Struck)), {"prob"}), {"mode"})

GW_metro == Floats(Made(0, 1, Source), {"freq"})

GW_mincer == Floats(Late(<<"ftbl", "int">>, 0, 1, Source), {"time", "amp", "pitch"})

GW_mode == Floats(Made(1, 1, Through), {"freq", "q"})

GW_moogladder == Floats(Made(1, 1, Through), {"freq", "res"})

GW_noise == Floats(Made(0, 1, Source), {"amp"})

(* Mutant: nsmp_init reads the rate before the table. *)
GW_nsmpSwapped ==
  Uncounted(Ints(Trig(Late(<<"int", "ftbl", "string">>, 1, 1, Struck)),
    {"index"}))

GW_nsmp ==
  Uncounted(Ints(Trig(Late(<<"ftbl", "int", "string">>, 1, 1, Struck)),
    {"index"}))

GW_osc == Floats(Late(<<"ftbl", "float">>, 0, 1, Source), {"freq", "amp"})

GW_oscmorph ==
  Floats(Late(<<"ftbl[]", "int", "float">>, 0, 1, Source), {"freq", "amp",
    "wtpos"})

GW_pan2 == Ints(Floats(Made(1, 2, Spread), {"pan"}), {"type"})

GW_panst == Ints(Floats(Made(2, 2, Stereo), {"pan"}), {"type"})

GW_pareq == Floats(Made(1, 1, Through), {"fc", "v", "q", "mode"})

GW_paulstretch == Late(<<"ftbl", "float", "float">>, 0, 1, Source)

GW_pdhalf == Floats(Made(1, 1, Through), {"amount"})

GW_peaklim == Floats(Made(1, 1, Through), {"atk", "rel", "thresh"})

GW_phaser ==
  Dials(Made(2, 2, Stereo), {"MaxNotch1Freq", "MinNotch1Freq", "Notch_width",
    "NotchFreq", "VibratoMode", "depth", "feedback_gain", "invert", "level",
    "lfobpm"})

GW_phasor == Floats(Late(<<"float">>, 0, 1, Source), {"freq"})

GW_pinknoise == Floats(Made(0, 1, Source), {"amp"})

GW_pitchamdf == Late(<<"float", "float">>, 1, 2, Spread)

GW_pluck == Floats(Trig(Late(<<"float">>, 1, 1, Struck)), {"freq", "amp"})

GW_port == Floats(Late(<<"float">>, 1, 1, Through), {"htime"})

GW_posc3 == Floats(Late(<<"ftbl">>, 0, 1, Source), {"freq", "amp"})

GW_progress == Ints(Made(0, 1, Source), {"nbars", "skip"})

GW_prop == Floats(Late(<<"string">>, 0, 1, Source), {"bpm"})

GW_pshift == Dials(Made(1, 1, Through), {"shift", "window", "xfade"})

GW_ptrack == Late(<<"int", "int">>, 1, 2, Spread)

GW_randh == Floats(Made(0, 1, Source), {"min", "max", "freq"})

GW_randi == Floats(Made(0, 1, Source), {"min", "max", "cps", "mode"})

GW_random == Floats(Made(0, 1, Source), {"min", "max"})

GW_reson == Floats(Made(1, 1, Through), {"freq", "bw"})

GW_reverse == Late(<<"float">>, 1, 1, Through)

GW_revsc == Floats(Made(2, 2, Stereo), {"feedback", "lpfreq"})

GW_rms == Floats(Made(1, 1, Through), {"ihp"})

GW_rpt == Trig(Late(<<"float">>, 2, 1, Gated))

GW_rspline == Floats(Made(0, 1, Source), {"min", "max", "cps_min", "cps_max"})

GW_samphold == Trig(Made(2, 1, Gated))

GW_saturator == Floats(Made(1, 1, Through), {"drive", "dcoffset"})

GW_scale == Floats(Made(1, 1, Through), {"min", "max"})

GW_sdelay == Late(<<"float">>, 1, 1, Through)

GW_slice == Floats(Trig(Late(<<"ftbl", "ftbl">>, 1, 1, Struck)), {"id"})

GW_smoothdelay ==
  Floats(Late(<<"float", "int">>, 1, 1, Through), {"feedback", "del"})

GW_spa == Late(<<"string">>, 0, 1, Source)

GW_sparec == Late(<<"string">>, 1, 1, Through)

GW_streson == Floats(Made(1, 1, Through), {"freq", "fdbgain"})

GW_switch == Trig(Made(3, 1, Switched))

GW_tabread ==
  Floats(Late(<<"ftbl", "float">>, 0, 1, Source), {"index", "offset", "wrap"})

GW_tadsr == Floats(Trig(Made(1, 1, Struck)), {"atk", "dec", "sus", "rel"})

GW_talkbox == Floats(Made(2, 1, Merge), {"quality"})

GW_tblrec == Trig(Late(<<"ftbl">>, 2, 1, Gated))

GW_tbvcf == Floats(Made(1, 1, Through), {"fco", "res", "dist", "asym"})

GW_tdiv == Floats(Trig(Made(1, 1, Struck)), {"num", "offset"})

GW_tenv == Floats(Trig(Made(1, 1, Struck)), {"atk", "hold", "rel"})

GW_tenv2 == Floats(Trig(Made(1, 1, Struck)), {"atk", "rel"})

GW_tenvx == Floats(Trig(Made(1, 1, Struck)), {"atk", "hold", "rel"})

GW_tgate == Floats(Trig(Made(1, 1, Struck)), {"time"})

GW_thresh == Ints(Floats(Made(1, 1, Through), {"thresh"}), {"mode"})

GW_timer == Made(1, 1, Through)

GW_tin == Trig(Made(1, 1, Struck))

GW_tone == Floats(Made(1, 1, Through), {"hp"})

GW_trand == Floats(Trig(Made(1, 1, Struck)), {"min", "max"})

GW_tseg == Floats(Trig(Late(<<"float">>, 1, 1, Struck)), {"end", "dur", "type"})

GW_tseq == Ints(Trig(Late(<<"ftbl">>, 1, 1, Struck)), {"shuf"})

GW_vdelay == Floats(Late(<<"float">>, 1, 1, Through), {"del", "feedback"})

GW_voc == Made(0, 1, Source)

GW_vocoder == Dials(Made(2, 1, Merge), {"atk", "rel", "bwratio"})

GW_waveset == Floats(Late(<<"float">>, 1, 1, Through), {"rep"})

GW_wavin == Late(<<"string">>, 0, 1, Source)

GW_wavout == Late(<<"string">>, 1, 1, Through)

GW_wpkorg35 == Floats(Made(1, 1, Through), {"cutoff", "res", "saturation"})

GW_zitarev ==
  Dials(Made(2, 2, Stereo), {"in_delay", "lf_x", "rt60_low", "rt60_mid",
    "hf_damping", "eq1_freq", "eq1_level", "eq2_freq", "eq2_level", "mix",
    "level"})

=============================================================================
