-------------------------- MODULE SoundpipeClasses --------------------------
(***************************************************************************)
(* What the Soundpipe plug-in declares to the compiler (GWION_IMPORT of    *)
(* Soundpipe/soundpipe.c): a class per unit generator, with the types of   *)
(* the arguments of init and the overloaded getter and setter of each      *)
(* field.  The compiler type-checks a call and lays its arguments out by   *)
(* these declarations; the functions read them as SoundpipeUnits says.     *)
(***************************************************************************)
EXTENDS SoundpipeUnits

Class(unit, init, floats, ints) ==
  [unit |-> unit, init |-> init, floats |-> floats, ints |-> ints]

Adsr == Class(GW_adsr, <<>>, {"atk", "dec", "sus", "rel"}, {})

Allpass == Class(GW_allpass, <<"float">>, {"revtime"}, {})

Atone == Class(GW_atone, <<>>, {"hp"}, {})

Autowah == Class(GW_autowah, <<>>, {"level", "wah", "mix"}, {})

Bal == Class(GW_bal, <<>>, {}, {})

Bar ==
  Class(GW_bar, <<"float", "float">>, {"bcL", "bcR", "T30", "scan", "pos", "vel",
    "wid"}, {})

Biquad == Class(GW_biquad, <<>>, {"b0", "b1", "b2", "a0", "a1", "a2"}, {})

Biscale == Class(GW_biscale, <<>>, {"min", "max"}, {})

Bitcrush == Class(GW_bitcrush, <<>>, {"bitdepth", "srate"}, {})

Blsaw == Class(GW_blsaw, <<>>, {"freq", "amp"}, {})

Blsquare == Class(GW_blsquare, <<>>, {"freq", "amp", "width"}, {})

Bltriangle == Class(GW_bltriangle, <<>>, {"freq", "amp"}, {})

Brown == Class(GW_brown, <<>>, {}, {})

Butbp == Class(GW_butbp, <<>>, {"freq", "bw"}, {})

Butbr == Class(GW_butbr, <<>>, {"freq", "bw"}, {})

Buthp == Class(GW_buthp, <<>>, {"freq"}, {})

Butlp == Class(GW_butlp, <<>>, {"freq"}, {})

Clip == Class(GW_clip, <<>>, {"lim"}, {})

Clock == Class(GW_clock, <<>>, {"bpm", "subdiv"}, {})

Comb == Class(GW_comb, <<"float">>, {"revtime"}, {})

Compressor == Class(GW_compressor, <<>>, {"ratio", "thresh", "atk", "rel"}, {})

Conv == Class(GW_conv, <<"ftbl", "float">>, {}, {})

Count == Class(GW_count, <<>>, {"count", "mode"}, {})

Crossfade == Class(GW_crossfade, <<>>, {"pos"}, {})

Dcblock == Class(GW_dcblock, <<>>, {}, {})

Delay == Class(GW_delay, <<"float">>, {"feedback"}, {})

Diode == Class(GW_diode, <<>>, {"freq", "res"}, {})

Diskin == Class(GW_diskin, <<"string">>, {}, {})

Dist == Class(GW_dist, <<>>, {"pregain", "postgain", "shape1", "shape2"}, {})

Dmetro == Class(GW_dmetro, <<>>, {"time"}, {})

Drip ==
  Class(GW_drip, <<"float">>, {"num_tubes", "amp", "damp", "shake_max", "freq",
    "freq1", "freq2"}, {})

Dtrig == Class(GW_dtrig, <<"ftbl">>, {"delay", "scale"}, {"loop"})

Dust == Class(GW_dust, <<>>, {"amp", "density"}, {"bipolar"})

Eqfil == Class(GW_eqfil, <<>>, {"freq", "bw", "gain"}, {})

Expon == Class(GW_expon, <<>>, {"a", "dur", "b"}, {})

Fof ==
  Class(GW_fof, <<"ftbl", "ftbl", "int", "float">>, {"amp", "fund", "form", "oct",
    "band", "ris", "dec", "dur"}, {})

Fofilt == Class(GW_fofilt, <<>>, {"freq", "atk", "dec"}, {})

Fog ==
  Class(GW_fog, <<"ftbl", "ftbl", "int", "float">>, {"amp", "dens", "trans",
    "spd", "oct", "band", "ris", "dec", "dur"}, {})

Fold == Class(GW_fold, <<>>, {"incr"}, {})

Fosc == Class(GW_fosc, <<"ftbl">>, {"freq", "amp", "car", "mod", "indx"}, {})

Gbuzz ==
  Class(GW_gbuzz, <<"ftbl", "float">>, {"freq", "amp", "nharm", "lharm", "mul"},
    {})

Hilbert == Class(GW_hilbert, <<>>, {}, {})

In == Class(GW_in, <<>>, {}, {})

Incr == Class(GW_incr, <<"float">>, {"step", "min", "max"}, {})

Jcrev == Class(GW_jcrev, <<>>, {}, {})

Jitter == Class(GW_jitter, <<>>, {"amp", "cpsMin", "cpsMax"}, {})

Line == Class(GW_line, <<>>, {"a", "dur", "b"}, {})

Lpc == Class(GW_lpc, <<"int">>, {}, {})

Lpf18 == Class(GW_lpf18, <<>>, {"cutoff", "res", "dist"}, {})

Maygate == Class(GW_maygate, <<>>, {"prob"}, {"mode"})

Metro == Class(GW_metro, <<>>, {"freq"}, {})

Mincer == Class(GW_mincer, <<"ftbl", "int">>, {"time", "amp", "pitch"}, {})

Mode == Class(GW_mode, <<>>, {"freq", "q"}, {})

Moogladder == Class(GW_moogladder, <<>>, {"freq", "res"}, {})

Noise == Class(GW_noise, <<>>, {"amp"}, {})

Nsmp == Class(GW_nsmp, <<"ftbl", "int", "string">>, {}, {"index"})

Osc == Class(GW_osc, <<"ftbl", "float">>, {"freq", "amp"}, {})

Oscmorph ==
  Class(GW_oscmorph, <<"ftbl[]", "int", "float">>, {"freq", "amp", "wtpos"}, {})

Pan2 == Class(GW_pan2, <<>>, {"pan"}, {"type"})

Panst == Class(GW_panst, <<>>, {"pan"}, {"type"})

Pareq == Class(GW_pareq, <<>>, {"fc", "v", "q", "mode"}, {})

Paulstretch == Class(GW_paulstretch, <<"ftbl", "float", "float">>, {}, {})

Pdhalf == Class(GW_pdhalf, <<>>, {"amount"}, {})

Peaklim == Class(GW_peaklim, <<>>, {"atk", "rel", "thresh"}, {})

Phaser ==
  Class(GW_phaser, <<>>, {"MaxNotch1Freq", "MinNotch1Freq", "Notch_width",
    "NotchFreq", "VibratoMode", "depth", "feedback_gain", "invert", "level",
    "lfobpm"}, {})

Phasor == Class(GW_phasor, <<"float">>, {"freq"}, {})

Pinknoise == Class(GW_pinknoise, <<>>, {"amp"}, {})

Pitchamdf == Class(GW_pitchamdf, <<"float", "float">>, {}, {})

Pluck == Class(GW_pluck, <<"float">>, {"freq", "amp"}, {})

Port == Class(GW_port, <<"float">>, {"htime"}, {})

Posc3 == Class(GW_posc3, <<"ftbl">>, {"freq", "amp"}, {})

Progress == Class(GW_progress, <<>>, {}, {"nbars", "skip"})

Prop == Class(GW_prop, <<"string">>, {"bpm"}, {})

Pshift == Class(GW_pshift, <<>>, {"shift", "window", "xfade"}, {})

Ptrack == Class(GW_ptrack, <<"int", "int">>, {}, {})

Randh == Class(GW_randh, <<>>, {"min", "max", "freq"}, {})

Randi == Class(GW_randi, <<>>, {"min", "max", "cps", "mode"}, {})

Random == Class(GW_random, <<>>, {"min", "max"}, {})

Reson == Class(GW_reson, <<>>, {"freq", "bw"}, {})

Reverse == Class(GW_reverse, <<"float">>, {}, {})

Revsc == Class(GW_revsc, <<>>, {"feedback", "lpfreq"}, {})

Rms == Class(GW_rms, <<>>, {"ihp"}, {})

Rpt == Class(GW_rpt, <<"float">>, {}, {})

Rspline == Class(GW_rspline, <<>>, {"min", "max", "cps_min", "cps_max"}, {})

Samphold == Class(GW_samphold, <<>>, {}, {})

Saturator == Class(GW_saturator, <<>>, {"drive", "dcoffset"}, {})

Scale == Class(GW_scale, <<>>, {"min", "max"}, {})

Sdelay == Class(GW_sdelay, <<"float">>, {}, {})

Slice == Class(GW_slice, <<"ftbl", "ftbl">>, {"id"}, {})

Smoothdelay == Class(GW_smoothdelay, <<"float", "int">>, {"feedback", "del"}, {})

Spa == Class(GW_spa, <<"string">>, {}, {})

Sparec == Class(GW_sparec, <<"string">>, {}, {})

Streson == Class(GW_streson, <<>>, {"freq", "fdbgain"}, {})

Switch == Class(GW_switch, <<>>, {}, {})

Tabread == Class(GW_tabread, <<"ftbl", "float">>, {"index", "offset", "wrap"}, {})

Tadsr == Class(GW_tadsr, <<>>, {"atk", "dec", "sus", "rel"}, {})

Talkbox == Class(GW_talkbox, <<>>, {"quality"}, {})

Tblrec == Class(GW_tblrec, <<"ftbl">>, {}, {})

Tbvcf == Class(GW_tbvcf, <<>>, {"fco", "res", "dist", "asym"}, {})

Tdiv == Class(GW_tdiv, <<>>, {"num", "offset"}, {})

Tenv == Class(GW_tenv, <<>>, {"atk", "hold", "rel"}, {})

Tenv2 == Class(GW_tenv2, <<>>, {"atk", "rel"}, {})

Tenvx == Class(GW_tenvx, <<>>, {"atk", "hold", "rel"}, {})

Tgate == Class(GW_tgate, <<>>, {"time"}, {})

Thresh == Class(GW_thresh, <<>>, {"thresh"}, {"mode"})

Timer == Class(GW_timer, <<>>, {}, {})

Tin == Class(GW_tin, <<>>, {}, {})

Tone == Class(GW_tone, <<>>, {"hp"}, {})

Trand == Class(GW_trand, <<>>, {"min", "max"}, {})

Tseg == Class(GW_tseg, <<"float">>, {"end", "dur", "type"}, {})

Tseq == Class(GW_tseq, <<"ftbl">>, {}, {"shuf"})

Vdelay == Class(GW_vdelay, <<"float">>, {"del", "feedback"}, {})

Voc == Class(GW_voc, <<>>, {}, {})

Vocoder == Class(GW_vocoder, <<>>, {"atk", "rel", "bwratio"}, {})

Waveset == Class(GW_waveset, <<"float">>, {"rep"}, {})

Wavin == Class(GW_wavin, <<"string">>, {}, {})

Wavout == Class(GW_wavout, <<"string">>, {}, {})

Wpkorg35 == Class(GW_wpkorg35, <<>>, {"cutoff", "res", "saturation"}, {})

Zitarev ==
  Class(GW_zitarev, <<>>, {"in_delay", "lf_x", "rt60_low", "rt60_mid",
    "hf_damping", "eq1_freq", "eq1_level", "eq2_freq", "eq2_level", "mix",
    "level"}, {})

Classes ==
  {Adsr, Allpass, Atone, Autowah, Bal, Bar, Biquad, Biscale, Bitcrush,
   Blsaw, Blsquare, Bltriangle, Brown, Butbp, Butbr, Buthp, Butlp, Clip,
   Clock, Comb, Compressor, Conv, Count, Crossfade, Dcblock, Delay, Diode,
   Diskin, Dist, Dmetro, Drip, Dtrig, Dust, Eqfil, Expon, Fof, Fofilt, Fog,
   Fold, Fosc, Gbuzz, Hilbert, In, Incr, Jcrev, Jitter, Line, Lpc, Lpf18,
   Maygate, Metro, Mincer, Mode, Moogladder, Noise, Nsmp, Osc, Oscmorph,
   Pan2, Panst, Pareq, Paulstretch, Pdhalf, Peaklim, Phaser, Phasor,
   Pinknoise, Pitchamdf, Pluck, Port, Posc3, Progress, Prop, Pshift, Ptrack,
   Randh, Randi, Random, Reson, Reverse, Revsc, Rms, Rpt, Rspline, Samphold,
   Saturator, Scale, Sdelay, Slice, Smoothdelay, Spa, Sparec, Streson,
   Switch, Tabread, Tadsr, Talkbox, Tblrec, Tbvcf, Tdiv, Tenv, Tenv2, Tenvx,
   Tgate, Thresh, Timer, Tin, Tone, Trand, Tseg, Tseq, Vdelay, Voc, Vocoder,
   Waveset, Wavin, Wavout, Wpkorg35, Zitarev}

=============================================================================
