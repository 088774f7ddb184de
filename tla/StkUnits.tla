------------------------------ MODULE StkUnits ------------------------------
(***************************************************************************)
(* The functions of the STK plug-in (STK/stk.cc).  The file is generated:  *)
(* every class of the library gets a tick, a constructor unless it is      *)
(* abstract or needs arguments, static functions that construct it from    *)
(* arguments, a destructor, and one function per method.  A definition     *)
(* below says what those of one class do; Stk has the steps they share.    *)
(*                                                                         *)
(*   made     there is a constructor that makes the library's object       *)
(*   wires    what the constructors set up: a UGen without an input, with  *)
(*            one, or none at all                                          *)
(*   statics  what each static constructor reads in the shred's memory     *)
(*   funs     what each method reads there, and the value it returns       *)
(***************************************************************************)
EXTENDS Naturals, Sequences

(* The functions of some names that read the same arguments and return the *)
(* same kind of value: after the object they are called on, or without     *)
(* looking at it because the library's function is a static one.           *)
Fun(args, ret, names) ==
  {[name |-> n, reads |-> <<"this">> \o args, ret |-> ret] : n \in names}
Lib(args, ret, names) ==
  {[name |-> n, reads |-> args, ret |-> ret] : n \in names}

Made(wires, statics, funs) ==
  [made |-> TRUE, wires |-> wires, statics |-> statics, funs |-> funs]
Unmade(wires, statics, funs) ==
  [Made(wires, statics, funs) EXCEPT !.made = FALSE]

-----------------------------------------------------------------------------
GW_Stk ==
  Unmade("none", {},
    Lib(<<>>, "int", {"STK_FLOAT32", "STK_FLOAT64", "STK_SINT16", "STK_SINT24",
         "STK_SINT32", "STK_SINT8"}) \cup
    Lib(<<>>, "float", {"sampleRate"}) \cup
    Lib(<<"float">>, "void", {"setSampleRate"}) \cup
    Fun(<<"int">>, "void", {"ignoreSampleRateChange"}) \cup
    Fun(<<>>, "void", {"ignoreSampleRateChange"}) \cup
    Lib(<<>>, "string", {"rawwavePath"}) \cup
    Lib(<<"string">>, "void", {"setRawwavePath"}) \cup
    Lib(<<"int">>, "void", {"printErrors", "showWarnings", "sleep"}) \cup
    Lib(<<"float", "float", "float">>, "int", {"inRange"}))

GW_Instrmnt ==
  Unmade("none", {},
    Fun(<<>>, "void", {"clear"}) \cup
    Fun(<<"float", "float">>, "void", {"noteOn"}) \cup
    Fun(<<"float">>, "void", {"noteOff", "setFrequency"}) \cup
    Fun(<<"int", "float">>, "void", {"controlChange"}) \cup
    Fun(<<>>, "int", {"channelsOut"}))

GW_Generator == Unmade("none", {}, Fun(<<>>, "int", {"channelsOut"}))

GW_FM ==
  Unmade("none", {},
    Fun(<<"char*[]">>, "void", {"loadWaves"}) \cup
    Fun(<<"float">>, "void", {"noteOff", "setControl1", "setControl2",
         "setFrequency", "setModulationDepth", "setModulationSpeed"}) \cup
    Fun(<<"int", "float">>, "void", {"controlChange", "setGain", "setRatio"}) \cup
    Fun(<<>>, "void", {"keyOff", "keyOn"}))

GW_Filter ==
  Unmade("none", {},
    Fun(<<>>, "int", {"channelsIn", "channelsOut"}) \cup
    Fun(<<>>, "void", {"clear"}) \cup
    Fun(<<"float">>, "void", {"setGain"}) \cup
    Fun(<<>>, "float", {"getGain"}) \cup
    Fun(<<"float">>, "float", {"phaseDelay"}))

GW_Effect ==
  Unmade("none", {},
    Fun(<<>>, "int", {"channelsOut"}) \cup
    Fun(<<>>, "void", {"clear"}) \cup
    Fun(<<"float">>, "void", {"setEffectMix"}))

GW_Function == Unmade("none", {}, Fun(<<>>, "float", {"lastOut"}))

GW_Sampler ==
  Unmade("none", {},
    Fun(<<"float">>, "void", {"noteOff", "setFrequency"}) \cup
    Fun(<<>>, "void", {"keyOff", "keyOn"}) \cup
    Fun(<<"int", "float">>, "void", {"controlChange"}))

GW_ADSR ==
  Made("source", {},
    Fun(<<>>, "void", {"keyOff", "keyOn"}) \cup
    Fun(<<"float">>, "void", {"setAttackRate", "setAttackTarget", "setAttackTime",
         "setDecayRate", "setDecayTime", "setReleaseRate", "setReleaseTime",
         "setSustainLevel", "setTarget", "setValue"}) \cup
    Fun(<<"float", "float", "float", "float">>, "void", {"setAllTimes"}) \cup
    Fun(<<>>, "int", {"getState"}))

GW_Asymp ==
  Made("source", {},
    Fun(<<>>, "void", {"keyOff", "keyOn"}) \cup
    Fun(<<"float">>, "void", {"setT60", "setTarget", "setTau", "setTime",
         "setValue"}) \cup
    Fun(<<>>, "int", {"getState"}))

GW_BandedWG ==
  Made("source", {},
    Fun(<<>>, "void", {"clear"}) \cup
    Fun(<<"float">>, "void", {"noteOff", "pluck", "setFrequency",
         "setStrikePosition", "stopBowing"}) \cup
    Fun(<<"int">>, "void", {"setPreset"}) \cup
    Fun(<<"float", "float">>, "void", {"noteOn", "startBowing"}) \cup
    Fun(<<"int", "float">>, "void", {"controlChange"}))

GW_BiQuad ==
  Made("through", {},
    Fun(<<"int">>, "void", {"ignoreSampleRateChange"}) \cup
    Fun(<<>>, "void", {"ignoreSampleRateChange", "setEqualGainZeroes"}) \cup
    Fun(<<"float", "float", "float", "float", "float", "int">>, "void", {
         "setCoefficients"}) \cup
    Fun(<<"float", "float", "float", "float", "float">>, "void", {"setCoefficients"}) \cup
    Fun(<<"float">>, "void", {"setA1", "setA2", "setB0", "setB1", "setB2"}) \cup
    Fun(<<"float", "float", "int">>, "void", {"setResonance"}) \cup
    Fun(<<"float", "float">>, "void", {"setNotch", "setResonance"}))

GW_Blit ==
  Made("source", {<<"float">>},
    Fun(<<>>, "void", {"reset", "setHarmonics"}) \cup
    Fun(<<"float">>, "void", {"setFrequency", "setPhase"}) \cup
    Fun(<<>>, "float", {"getPhase"}) \cup
    Fun(<<"int">>, "void", {"setHarmonics"}))

GW_BlitSaw ==
  Made("source", {<<"float">>},
    Fun(<<>>, "void", {"reset", "setHarmonics"}) \cup
    Fun(<<"float">>, "void", {"setFrequency"}) \cup
    Fun(<<"int">>, "void", {"setHarmonics"}))

GW_BlitSquare ==
  Made("source", {<<"float">>},
    Fun(<<>>, "void", {"reset", "setHarmonics"}) \cup
    Fun(<<"float">>, "void", {"setFrequency", "setPhase"}) \cup
    Fun(<<>>, "float", {"getPhase"}) \cup
    Fun(<<"int">>, "void", {"setHarmonics"}))

GW_BeeThree == Made("source", {}, Fun(<<"float", "float">>, "void", {"noteOn"}))

GW_BlowBotl ==
  Made("source", {},
    Fun(<<>>, "void", {"clear"}) \cup
    Fun(<<"float">>, "void", {"noteOff", "setFrequency", "stopBlowing"}) \cup
    Fun(<<"float", "float">>, "void", {"noteOn", "startBlowing"}) \cup
    Fun(<<"int", "float">>, "void", {"controlChange"}))

GW_BlowHole ==
  Unmade("source", {<<"float">>},
    Fun(<<>>, "void", {"clear"}) \cup
    Fun(<<"float">>, "void", {"noteOff", "setFrequency", "setTonehole", "setVent",
         "stopBlowing"}) \cup
    Fun(<<"float", "float">>, "void", {"noteOn", "startBlowing"}) \cup
    Fun(<<"int", "float">>, "void", {"controlChange"}))

GW_Bowed ==
  Made("source", {<<"float">>},
    Fun(<<>>, "void", {"clear"}) \cup
    Fun(<<"float">>, "void", {"noteOff", "setFrequency", "setVibrato", "stopBowing"}) \cup
    Fun(<<"float", "float">>, "void", {"noteOn", "startBowing"}) \cup
    Fun(<<"int", "float">>, "void", {"controlChange"}))

GW_BowTable ==
  Made("source", {},
    Fun(<<"float">>, "void", {"setMaxOutput", "setMinOutput", "setOffset",
         "setSlope"}))

GW_Brass ==
  Made("source", {<<"float">>},
    Fun(<<>>, "void", {"clear"}) \cup
    Fun(<<"float">>, "void", {"noteOff", "setFrequency", "setLip", "stopBlowing"}) \cup
    Fun(<<"float", "float">>, "void", {"noteOn", "startBlowing"}) \cup
    Fun(<<"int", "float">>, "void", {"controlChange"}))

GW_Chorus ==
  Made("through", {<<"float">>},
    Fun(<<>>, "void", {"clear"}) \cup
    Fun(<<"float">>, "void", {"setModDepth", "setModFrequency"}))

GW_Clarinet ==
  Made("source", {<<"float">>},
    Fun(<<>>, "void", {"clear"}) \cup
    Fun(<<"float">>, "void", {"noteOff", "setFrequency", "stopBlowing"}) \cup
    Fun(<<"float", "float">>, "void", {"noteOn", "startBlowing"}) \cup
    Fun(<<"int", "float">>, "void", {"controlChange"}))

GW_Cubic ==
  Made("through", {},
    Fun(<<"float">>, "void", {"setA1", "setA2", "setA3", "setGain", "setThreshold"}))

GW_Delay ==
  Made("through", {<<"int", "int">>, <<"int">>},
    Fun(<<>>, "int", {"getDelay", "getMaximumDelay"}) \cup
    Fun(<<"int">>, "void", {"setDelay", "setMaximumDelay"}) \cup
    Fun(<<"int">>, "float", {"tapOut"}) \cup
    Fun(<<"float", "int">>, "void", {"tapIn"}) \cup
    Fun(<<"float", "int">>, "float", {"addTo"}) \cup
    Fun(<<>>, "float", {"energy", "nextOut"}))

GW_DelayA ==
  Made("through", {<<"float", "int">>, <<"float">>},
    Fun(<<>>, "void", {"clear"}) \cup
    Fun(<<>>, "int", {"getMaximumDelay"}) \cup
    Fun(<<"int">>, "void", {"setMaximumDelay"}) \cup
    Fun(<<"float">>, "void", {"setDelay"}) \cup
    Fun(<<>>, "float", {"getDelay", "nextOut"}) \cup
    Fun(<<"int">>, "float", {"tapOut"}) \cup
    Fun(<<"float", "int">>, "void", {"tapIn"}))

GW_DelayL ==
  Made("through", {<<"float", "int">>, <<"float">>},
    Fun(<<>>, "int", {"getMaximumDelay"}) \cup
    Fun(<<"int">>, "void", {"setMaximumDelay"}) \cup
    Fun(<<"float">>, "void", {"setDelay"}) \cup
    Fun(<<>>, "float", {"getDelay", "nextOut"}) \cup
    Fun(<<"int">>, "float", {"tapOut"}) \cup
    Fun(<<"float", "int">>, "void", {"tapIn"}))

GW_Drummer ==
  Made("source", {},
    Fun(<<"float", "float">>, "void", {"noteOn"}) \cup
    Fun(<<"float">>, "void", {"noteOff"}))

GW_Echo ==
  Made("through", {<<"int">>},
    Fun(<<>>, "void", {"clear"}) \cup
    Fun(<<"int">>, "void", {"setDelay", "setMaximumDelay"}))

GW_Flute ==
  Unmade("source", {<<"float">>},
    Fun(<<>>, "void", {"clear"}) \cup
    Fun(<<"float">>, "void", {"noteOff", "setEndReflection", "setFrequency",
         "setJetDelay", "setJetReflection", "stopBlowing"}) \cup
    Fun(<<"float", "float">>, "void", {"noteOn", "startBlowing"}) \cup
    Fun(<<"int", "float">>, "void", {"controlChange"}))

GW_FMVoices ==
  Made("source", {},
    Fun(<<"float">>, "void", {"setFrequency"}) \cup
    Fun(<<"float", "float">>, "void", {"noteOn"}) \cup
    Fun(<<"int", "float">>, "void", {"controlChange"}))

GW_FormSwep ==
  Made("source", {},
    Fun(<<"int">>, "void", {"ignoreSampleRateChange"}) \cup
    Fun(<<>>, "void", {"ignoreSampleRateChange"}) \cup
    Fun(<<"float", "float">>, "void", {"setResonance", "setStates", "setTargets"}) \cup
    Fun(<<"float", "float", "float">>, "void", {"setStates", "setTargets"}) \cup
    Fun(<<"float">>, "void", {"setSweepRate", "setSweepTime"}))

GW_FreeVerb ==
  Made("source", {},
    Fun(<<"float">>, "void", {"setDamping", "setEffectMix", "setRoomSize",
         "setWidth"}) \cup
    Fun(<<>>, "float", {"getDamping", "getMode", "getRoomSize", "getWidth"}) \cup
    Fun(<<"int">>, "void", {"setMode"}) \cup
    Fun(<<>>, "void", {"clear"}))

GW_Granulate ==
  Made("source", {<<"int", "string", "int">>, <<"int", "string">>},
    Fun(<<"string", "int">>, "void", {"openFile"}) \cup
    Fun(<<"string">>, "void", {"openFile"}) \cup
    Fun(<<>>, "void", {"reset", "setGrainParameters", "setRandomFactor",
         "setStretch", "setVoices"}) \cup
    Fun(<<"int">>, "void", {"setGrainParameters", "setStretch", "setVoices"}) \cup
    Fun(<<"int", "int", "int", "int">>, "void", {"setGrainParameters"}) \cup
    Fun(<<"int", "int", "int">>, "void", {"setGrainParameters"}) \cup
    Fun(<<"int", "int">>, "void", {"setGrainParameters"}) \cup
    Fun(<<"float">>, "void", {"setRandomFactor"}))

GW_Guitar ==
  Made("source", {<<"int", "string">>, <<"int">>},
    Fun(<<>>, "void", {"clear", "setBodyFile"}) \cup
    Fun(<<"string">>, "void", {"setBodyFile"}) \cup
    Fun(<<"float", "int">>, "void", {"noteOff", "setFrequency", "setLoopGain",
         "setPluckPosition"}) \cup
    Fun(<<"float">>, "void", {"noteOff", "setFrequency", "setLoopGain",
         "setPluckPosition"}) \cup
    Fun(<<"float", "float", "int">>, "void", {"noteOn"}) \cup
    Fun(<<"float", "float">>, "void", {"noteOn"}) \cup
    Fun(<<"int", "float", "int">>, "void", {"controlChange"}) \cup
    Fun(<<"int", "float">>, "void", {"controlChange"}))

GW_HevyMetl == Made("source", {}, Fun(<<"float", "float">>, "void", {"noteOn"}))

GW_JCRev ==
  Made("through", {<<"float">>},
    Fun(<<>>, "void", {"clear"}) \cup
    Fun(<<"float">>, "void", {"setT60"}))

GW_JetTable == Made("source", {}, {})

GW_LentPitShift ==
  Made("source", {<<"float", "int">>, <<"float">>},
    Fun(<<>>, "void", {"clear"}) \cup
    Fun(<<"float">>, "void", {"setShift"}))

GW_Mandolin ==
  Unmade("source", {<<"float">>},
    Fun(<<>>, "void", {"clear"}) \cup
    Fun(<<"float">>, "void", {"noteOff", "pluck", "setBodySize", "setDetune",
         "setFrequency", "setPluckPosition"}) \cup
    Fun(<<"float", "float">>, "void", {"noteOn", "pluck"}) \cup
    Fun(<<"int", "float">>, "void", {"controlChange"}))

GW_Mesh2D ==
  Unmade("source", {<<"int", "int">>},
    Fun(<<>>, "void", {"clear"}) \cup
    Fun(<<"int">>, "void", {"setNX", "setNY"}) \cup
    Fun(<<"float", "float">>, "void", {"noteOn", "setInputPosition"}) \cup
    Fun(<<"float">>, "void", {"noteOff", "setDecay"}) \cup
    Fun(<<>>, "float", {"energy"}) \cup
    Fun(<<"float">>, "float", {"inputTick"}) \cup
    Fun(<<"int", "float">>, "void", {"controlChange"}))

GW_Modal ==
  Unmade("none", {},
    Fun(<<>>, "void", {"clear"}) \cup
    Fun(<<"float">>, "void", {"damp", "noteOff", "setDirectGain", "setFrequency",
         "setMasterGain", "strike"}) \cup
    Fun(<<"int", "float", "float">>, "void", {"setRatioAndRadius"}) \cup
    Fun(<<"int", "float">>, "void", {"controlChange", "setModeGain"}) \cup
    Fun(<<"float", "float">>, "void", {"noteOn"}))

GW_ModalBar ==
  Made("source", {},
    Fun(<<"float">>, "void", {"setModulationDepth", "setStickHardness",
         "setStrikePosition"}) \cup
    Fun(<<"int">>, "void", {"setPreset"}) \cup
    Fun(<<"int", "float">>, "void", {"controlChange"}))

GW_Modulate ==
  Made("source", {},
    Fun(<<>>, "void", {"reset"}) \cup
    Fun(<<"float">>, "void", {"setRandomGain", "setRandomRate", "setVibratoGain",
         "setVibratoRate"}))

GW_Moog ==
  Made("source", {},
    Fun(<<"float">>, "void", {"setFrequency", "setModulationDepth",
         "setModulationSpeed"}) \cup
    Fun(<<"float", "float">>, "void", {"noteOn"}) \cup
    Fun(<<"int", "float">>, "void", {"controlChange"}))

GW_Noise ==
  Made("source", {<<"int">>},
    Fun(<<"int">>, "void", {"setSeed"}) \cup
    Fun(<<>>, "void", {"setSeed"}))

GW_NRev ==
  Made("through", {<<"float">>},
    Fun(<<>>, "void", {"clear"}) \cup
    Fun(<<"float">>, "void", {"setT60"}))

GW_OnePole ==
  Made("through", {<<"float">>},
    Fun(<<"float">>, "void", {"setA1", "setB0", "setPole"}) \cup
    Fun(<<"float", "float", "int">>, "void", {"setCoefficients"}) \cup
    Fun(<<"float", "float">>, "void", {"setCoefficients"}))

GW_OneZero ==
  Made("through", {<<"float">>},
    Fun(<<"float">>, "void", {"setB0", "setB1", "setZero"}) \cup
    Fun(<<"float", "float", "int">>, "void", {"setCoefficients"}) \cup
    Fun(<<"float", "float">>, "void", {"setCoefficients"}))

GW_PercFlut ==
  Made("source", {},
    Fun(<<"float">>, "void", {"setFrequency"}) \cup
    Fun(<<"float", "float">>, "void", {"noteOn"}))

GW_Phonemes ==
  Made("none", {},
    Lib(<<"int">>, "string", {"name"}) \cup
    Lib(<<"int">>, "float", {"noiseGain", "voiceGain"}) \cup
    Lib(<<"int", "int">>, "float", {"formantFrequency", "formantGain",
         "formantRadius"}))

GW_PitShift ==
  Made("through", {},
    Fun(<<>>, "void", {"clear"}) \cup
    Fun(<<"float">>, "void", {"setShift"}))

GW_Plucked ==
  Made("source", {<<"float">>},
    Fun(<<>>, "void", {"clear"}) \cup
    Fun(<<"float">>, "void", {"noteOff", "pluck", "setFrequency"}) \cup
    Fun(<<"float", "float">>, "void", {"noteOn"}))

GW_PoleZero ==
  Made("through", {},
    Fun(<<"float">>, "void", {"setA1", "setAllpass", "setB0", "setB1",
         "setBlockZero"}) \cup
    Fun(<<"float", "float", "float", "int">>, "void", {"setCoefficients"}) \cup
    Fun(<<"float", "float", "float">>, "void", {"setCoefficients"}) \cup
    Fun(<<>>, "void", {"setBlockZero"}))

GW_PRCRev ==
  Made("through", {<<"float">>},
    Fun(<<>>, "void", {"clear"}) \cup
    Fun(<<"float">>, "void", {"setT60"}))

GW_Recorder ==
  Made("through", {},
    Fun(<<>>, "void", {"clear"}) \cup
    Fun(<<"float">>, "void", {"noteOff", "setBlowPressure", "setBreathCutoff",
         "setFrequency", "setNoiseGain", "setSoftness", "setVibratoFrequency",
         "setVibratoGain", "stopBlowing"}) \cup
    Fun(<<"float", "float">>, "void", {"noteOn", "startBlowing"}) \cup
    Fun(<<"int", "float">>, "void", {"controlChange"}))

GW_ReedTable ==
  Made("source", {},
    Fun(<<"float">>, "void", {"setOffset", "setSlope"}))

GW_Resonate ==
  Made("through", {},
    Fun(<<"float", "float">>, "void", {"noteOn", "setNotch", "setResonance"}) \cup
    Fun(<<>>, "void", {"keyOff", "keyOn", "setEqualGainZeroes"}) \cup
    Fun(<<"float">>, "void", {"noteOff"}) \cup
    Fun(<<"int", "float">>, "void", {"controlChange"}))

GW_Rhodey ==
  Made("source", {},
    Fun(<<"float">>, "void", {"setFrequency"}) \cup
    Fun(<<"float", "float">>, "void", {"noteOn"}))

GW_Saxofony ==
  Unmade("source", {<<"float">>},
    Fun(<<>>, "void", {"clear"}) \cup
    Fun(<<"float">>, "void", {"noteOff", "setBlowPosition", "setFrequency",
         "stopBlowing"}) \cup
    Fun(<<"float", "float">>, "void", {"noteOn", "startBlowing"}) \cup
    Fun(<<"int", "float">>, "void", {"controlChange"}))

GW_Shakers ==
  Made("source", {<<"int">>},
    Fun(<<"float", "float">>, "void", {"noteOn"}) \cup
    Fun(<<"float">>, "void", {"noteOff"}) \cup
    Fun(<<"int", "float">>, "void", {"controlChange"}))

GW_Simple ==
  Made("source", {},
    Fun(<<"float">>, "void", {"noteOff", "setFrequency"}) \cup
    Fun(<<>>, "void", {"keyOff", "keyOn"}) \cup
    Fun(<<"float", "float">>, "void", {"noteOn"}) \cup
    Fun(<<"int", "float">>, "void", {"controlChange"}))

GW_SineWave ==
  Made("source", {},
    Fun(<<>>, "void", {"reset"}) \cup
    Fun(<<"float">>, "void", {"addPhase", "addPhaseOffset", "addTime",
         "setFrequency", "setRate"}))

GW_SingWave ==
  Unmade("source", {<<"string", "int">>, <<"string">>},
    Fun(<<>>, "void", {"normalize", "noteOff", "noteOn", "reset"}) \cup
    Fun(<<"float">>, "void", {"normalize", "setFrequency", "setGainRate",
         "setGainTarget", "setRandomGain", "setSweepRate", "setVibratoGain",
         "setVibratoRate"}))

GW_Sitar ==
  Made("source", {<<"float">>},
    Fun(<<>>, "void", {"clear"}) \cup
    Fun(<<"float">>, "void", {"noteOff", "pluck", "setFrequency"}) \cup
    Fun(<<"float", "float">>, "void", {"noteOn"}))

GW_Vector3D ==
  Made("none", {<<"float", "float", "float">>, <<"float", "float">>, <<"float">>},
    Fun(<<>>, "float", {"getLength", "getX", "getY", "getZ"}) \cup
    Fun(<<"float", "float", "float">>, "void", {"setXYZ"}) \cup
    Fun(<<"float">>, "void", {"setX", "setY", "setZ"}))

GW_StifKarp ==
  Made("source", {<<"float">>},
    Fun(<<>>, "void", {"clear"}) \cup
    Fun(<<"float">>, "void", {"noteOff", "pluck", "setBaseLoopGain",
         "setFrequency", "setPickupPosition", "setStretch"}) \cup
    Fun(<<"float", "float">>, "void", {"noteOn"}) \cup
    Fun(<<"int", "float">>, "void", {"controlChange"}))

GW_TubeBell == Made("source", {}, Fun(<<"float", "float">>, "void", {"noteOn"}))

GW_Twang ==
  Made("source", {<<"float">>},
    Fun(<<>>, "void", {"clear"}) \cup
    Fun(<<"float">>, "void", {"setFrequency", "setLoopGain", "setLowestFrequency",
         "setPluckPosition"}) \cup
    Fun(<<"float[]">>, "void", {"setLoopFilter"}))

GW_TwoPole ==
  Made("through", {},
    Fun(<<"int">>, "void", {"ignoreSampleRateChange"}) \cup
    Fun(<<>>, "void", {"ignoreSampleRateChange"}) \cup
    Fun(<<"float">>, "void", {"setA1", "setA2", "setB0"}) \cup
    Fun(<<"float", "float", "float", "int">>, "void", {"setCoefficients"}) \cup
    Fun(<<"float", "float", "float">>, "void", {"setCoefficients"}) \cup
    Fun(<<"float", "float", "int">>, "void", {"setResonance"}) \cup
    Fun(<<"float", "float">>, "void", {"setResonance"}))

GW_TwoZero ==
  Made("through", {},
    Fun(<<"int">>, "void", {"ignoreSampleRateChange"}) \cup
    Fun(<<>>, "void", {"ignoreSampleRateChange"}) \cup
    Fun(<<"float">>, "void", {"setB0", "setB1", "setB2"}) \cup
    Fun(<<"float", "float", "float", "int">>, "void", {"setCoefficients"}) \cup
    Fun(<<"float", "float", "float">>, "void", {"setCoefficients"}) \cup
    Fun(<<"float", "float">>, "void", {"setNotch"}))

GW_Voicer ==
  Made("source", {<<"float">>},
    Fun(<<"stk.Instrmnt", "int">>, "void", {"addInstrument"}) \cup
    Fun(<<"stk.Instrmnt">>, "void", {"addInstrument", "removeInstrument"}) \cup
    Fun(<<"float", "float", "int">>, "int", {"noteOn"}) \cup
    Fun(<<"float", "float">>, "int", {"noteOn"}) \cup
    Fun(<<"float", "float", "int">>, "void", {"noteOff"}) \cup
    Fun(<<"float", "float">>, "void", {"noteOff"}) \cup
    Fun(<<"int", "float">>, "void", {"controlChange", "noteOff", "pitchBend",
         "setFrequency"}) \cup
    Fun(<<"float", "int">>, "void", {"pitchBend", "setFrequency"}) \cup
    Fun(<<"float">>, "void", {"pitchBend", "setFrequency"}) \cup
    Fun(<<"int", "float", "int">>, "void", {"controlChange"}) \cup
    Fun(<<"int", "int", "float">>, "void", {"controlChange"}) \cup
    Fun(<<>>, "void", {"silence"}) \cup
    Fun(<<>>, "int", {"channelsOut"}))

GW_VoicForm ==
  Made("source", {},
    Fun(<<>>, "void", {"clear", "quiet", "speak"}) \cup
    Fun(<<"float">>, "void", {"noteOff", "setFrequency", "setPitchSweepRate",
         "setUnVoiced", "setVoiced"}) \cup
    Fun(<<"string">>, "int", {"setPhoneme"}) \cup
    Fun(<<"int", "float">>, "void", {"controlChange", "setFilterSweepRate"}) \cup
    Fun(<<"float", "float">>, "void", {"noteOn"}))

GW_Whistle ==
  Made("source", {},
    Fun(<<>>, "void", {"clear"}) \cup
    Fun(<<"float">>, "void", {"noteOff", "setFrequency", "stopBlowing"}) \cup
    Fun(<<"float", "float">>, "void", {"noteOn", "startBlowing"}) \cup
    Fun(<<"int", "float">>, "void", {"controlChange"}))

GW_Wurley ==
  Made("source", {},
    Fun(<<"float">>, "void", {"setFrequency"}) \cup
    Fun(<<"float", "float">>, "void", {"noteOn"}))

=============================================================================
