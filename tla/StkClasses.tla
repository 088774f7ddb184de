----------------------------- MODULE StkClasses -----------------------------
(***************************************************************************)
(* What the STK plug-in declares to the compiler (CPPIMPORT of             *)
(* STK/stk.cc): the classes, which of them are abstract, what they extend, *)
(* their static constructors and their methods.  The compiler lays the     *)
(* arguments of a call out by these declarations, the object first.        *)
(***************************************************************************)
EXTENDS StkUnits

(* A class keeps the name of its parent and all it inherits. *)
Root == [name |-> "UGen", above |-> {}, funs |-> {}, unit |-> Unmade("none", {}, {})]

Class(name, parent, unit, statics, funs) ==
  [name |-> name, parent |-> parent.name, above |-> parent.above \cup {parent.name},
   unit |-> unit, statics |-> statics, funs |-> funs, abstract |-> FALSE]
Abstract(name, parent, unit, statics, funs) ==
  [Class(name, parent, unit, statics, funs) EXCEPT !.abstract = TRUE]

-----------------------------------------------------------------------------
Stk ==
  Abstract("Stk", Root, GW_Stk, {},
    Lib(<<>>, "int", {"STK_FLOAT32", "STK_FLOAT64", "STK_SINT16", "STK_SINT24",
         "STK_SINT32", "STK_SINT8"}) \cup
    Fun(<<>>, "float", {"sampleRate"}) \cup
    Fun(<<>>, "void", {"ignoreSampleRateChange", "printErrors", "setRawwavePath",
         "setSampleRate", "showWarnings", "sleep"}) \cup
    Fun(<<"int">>, "void", {"ignoreSampleRateChange"}) \cup
    Fun(<<>>, "string", {"rawwavePath"}) \cup
    Fun(<<"float", "float">>, "int", {"inRange"}))

Instrmnt ==
  Abstract("Instrmnt", Stk, GW_Instrmnt, {},
    Fun(<<>>, "void", {"clear"}) \cup
    Fun(<<"float", "float">>, "void", {"noteOn"}) \cup
    Fun(<<"float">>, "void", {"noteOff", "setFrequency"}) \cup
    Fun(<<"int", "float">>, "void", {"controlChange"}) \cup
    Fun(<<>>, "int", {"channelsOut"}))

Generator ==
  Abstract("Generator", Stk, GW_Generator, {},
    Fun(<<>>, "int", {"channelsOut"}))

FM ==
  Abstract("FM", Instrmnt, GW_FM, {},
    Fun(<<"string[]">>, "void", {"loadWaves"}) \cup
    Fun(<<"float">>, "void", {"noteOff", "setControl1", "setControl2",
         "setFrequency", "setModulationDepth", "setModulationSpeed"}) \cup
    Fun(<<"int", "float">>, "void", {"controlChange", "setGain", "setRatio"}) \cup
    Fun(<<>>, "void", {"keyOff", "keyOn"}))

Filter ==
  Abstract("Filter", Stk, GW_Filter, {},
    Fun(<<>>, "int", {"channelsIn", "channelsOut"}) \cup
    Fun(<<>>, "void", {"clear"}) \cup
    Fun(<<"float">>, "void", {"setGain"}) \cup
    Fun(<<>>, "float", {"getGain"}) \cup
    Fun(<<"float">>, "float", {"phaseDelay"}))

Effect ==
  Abstract("Effect", Stk, GW_Effect, {},
    Fun(<<>>, "int", {"channelsOut"}) \cup
    Fun(<<>>, "void", {"clear"}) \cup
    Fun(<<"float">>, "void", {"setEffectMix"}))

Function ==
  Abstract("Function", Stk, GW_Function, {},
    Fun(<<>>, "float", {"lastOut"}))

Sampler ==
  Abstract("Sampler", Instrmnt, GW_Sampler, {},
    Fun(<<"float">>, "void", {"noteOff", "setFrequency"}) \cup
    Fun(<<>>, "void", {"keyOff", "keyOn"}) \cup
    Fun(<<"int", "float">>, "void", {"controlChange"}))

ADSR ==
  Class("ADSR", Generator, GW_ADSR, {},
    Fun(<<>>, "void", {"keyOff", "keyOn"}) \cup
    Fun(<<"float">>, "void", {"setAttackRate", "setAttackTarget", "setAttackTime",
         "setDecayRate", "setDecayTime", "setReleaseRate", "setReleaseTime",
         "setSustainLevel", "setTarget", "setValue"}) \cup
    Fun(<<"float", "float", "float", "float">>, "void", {"setAllTimes"}) \cup
    Fun(<<>>, "int", {"getState"}))

Asymp ==
  Class("Asymp", Generator, GW_Asymp, {},
    Fun(<<>>, "void", {"keyOff", "keyOn"}) \cup
    Fun(<<"float">>, "void", {"setT60", "setTarget", "setTau", "setTime",
         "setValue"}) \cup
    Fun(<<>>, "int", {"getState"}))

BandedWG ==
  Class("BandedWG", Instrmnt, GW_BandedWG, {},
    Fun(<<>>, "void", {"clear"}) \cup
    Fun(<<"float">>, "void", {"noteOff", "pluck", "setFrequency",
         "setStrikePosition", "stopBowing"}) \cup
    Fun(<<"int">>, "void", {"setPreset"}) \cup
    Fun(<<"float", "float">>, "void", {"noteOn", "startBowing"}) \cup
    Fun(<<"int", "float">>, "void", {"controlChange"}))

BiQuad ==
  Class("BiQuad", Filter, GW_BiQuad, {},
    Fun(<<"int">>, "void", {"ignoreSampleRateChange"}) \cup
    Fun(<<>>, "void", {"ignoreSampleRateChange", "setEqualGainZeroes"}) \cup
    Fun(<<"float", "float", "float", "float", "float", "int">>, "void", {
         "setCoefficients"}) \cup
    Fun(<<"float", "float", "float", "float", "float">>, "void", {"setCoefficients"}) \cup
    Fun(<<"float">>, "void", {"setA1", "setA2", "setB0", "setB1", "setB2"}) \cup
    Fun(<<"float", "float", "int">>, "void", {"setResonance"}) \cup
    Fun(<<"float", "float">>, "void", {"setNotch", "setResonance"}))

Blit ==
  Class("Blit", Generator, GW_Blit, {<<"float">>},
    Fun(<<>>, "void", {"reset", "setHarmonics"}) \cup
    Fun(<<"float">>, "void", {"setFrequency", "setPhase"}) \cup
    Fun(<<>>, "float", {"getPhase"}) \cup
    Fun(<<"int">>, "void", {"setHarmonics"}))

BlitSaw ==
  Class("BlitSaw", Generator, GW_BlitSaw, {<<"float">>},
    Fun(<<>>, "void", {"reset", "setHarmonics"}) \cup
    Fun(<<"float">>, "void", {"setFrequency"}) \cup
    Fun(<<"int">>, "void", {"setHarmonics"}))

BlitSquare ==
  Class("BlitSquare", Generator, GW_BlitSquare, {<<"float">>},
    Fun(<<>>, "void", {"reset", "setHarmonics"}) \cup
    Fun(<<"float">>, "void", {"setFrequency", "setPhase"}) \cup
    Fun(<<>>, "float", {"getPhase"}) \cup
    Fun(<<"int">>, "void", {"setHarmonics"}))

BeeThree ==
  Class("BeeThree", FM, GW_BeeThree, {},
    Fun(<<"float", "float">>, "void", {"noteOn"}))

BlowBotl ==
  Class("BlowBotl", Instrmnt, GW_BlowBotl, {},
    Fun(<<>>, "void", {"clear"}) \cup
    Fun(<<"float">>, "void", {"noteOff", "setFrequency", "stopBlowing"}) \cup
    Fun(<<"float", "float">>, "void", {"noteOn", "startBlowing"}) \cup
    Fun(<<"int", "float">>, "void", {"controlChange"}))

BlowHole ==
  Abstract("BlowHole", Instrmnt, GW_BlowHole, {<<"float">>},
    Fun(<<>>, "void", {"clear"}) \cup
    Fun(<<"float">>, "void", {"noteOff", "setFrequency", "setTonehole", "setVent",
         "stopBlowing"}) \cup
    Fun(<<"float", "float">>, "void", {"noteOn", "startBlowing"}) \cup
    Fun(<<"int", "float">>, "void", {"controlChange"}))

Bowed ==
  Class("Bowed", Instrmnt, GW_Bowed, {<<"float">>},
    Fun(<<>>, "void", {"clear"}) \cup
    Fun(<<"float">>, "void", {"noteOff", "setFrequency", "setVibrato", "stopBowing"}) \cup
    Fun(<<"float", "float">>, "void", {"noteOn", "startBowing"}) \cup
    Fun(<<"int", "float">>, "void", {"controlChange"}))

BowTable ==
  Class("BowTable", Function, GW_BowTable, {},
    Fun(<<"float">>, "void", {"setMaxOutput", "setMinOutput", "setOffset",
         "setSlope"}))

Brass ==
  Class("Brass", Instrmnt, GW_Brass, {<<"float">>},
    Fun(<<>>, "void", {"clear"}) \cup
    Fun(<<"float">>, "void", {"noteOff", "setFrequency", "setLip", "stopBlowing"}) \cup
    Fun(<<"float", "float">>, "void", {"noteOn", "startBlowing"}) \cup
    Fun(<<"int", "float">>, "void", {"controlChange"}))

Chorus ==
  Class("Chorus", Effect, GW_Chorus, {<<"float">>},
    Fun(<<>>, "void", {"clear"}) \cup
    Fun(<<"float">>, "void", {"setModDepth", "setModFrequency"}))

Clarinet ==
  Class("Clarinet", Instrmnt, GW_Clarinet, {<<"float">>},
    Fun(<<>>, "void", {"clear"}) \cup
    Fun(<<"float">>, "void", {"noteOff", "setFrequency", "stopBlowing"}) \cup
    Fun(<<"float", "float">>, "void", {"noteOn", "startBlowing"}) \cup
    Fun(<<"int", "float">>, "void", {"controlChange"}))

Cubic ==
  Class("Cubic", Function, GW_Cubic, {},
    Fun(<<"float">>, "void", {"setA1", "setA2", "setA3", "setGain", "setThreshold"}))

Delay ==
  Class("Delay", Filter, GW_Delay, {<<"int", "int">>, <<"int">>},
    Fun(<<>>, "int", {"getDelay", "getMaximumDelay"}) \cup
    Fun(<<"int">>, "void", {"setDelay", "setMaximumDelay"}) \cup
    Fun(<<"int">>, "float", {"tapOut"}) \cup
    Fun(<<"float", "int">>, "void", {"tapIn"}) \cup
    Fun(<<"float", "int">>, "float", {"addTo"}) \cup
    Fun(<<>>, "float", {"energy", "nextOut"}))

DelayA ==
  Class("DelayA", Filter, GW_DelayA, {<<"float", "int">>, <<"float">>},
    Fun(<<>>, "void", {"clear"}) \cup
    Fun(<<>>, "int", {"getMaximumDelay"}) \cup
    Fun(<<"int">>, "void", {"setMaximumDelay"}) \cup
    Fun(<<"float">>, "void", {"setDelay"}) \cup
    Fun(<<>>, "float", {"getDelay", "nextOut"}) \cup
    Fun(<<"int">>, "float", {"tapOut"}) \cup
    Fun(<<"float", "int">>, "void", {"tapIn"}))

DelayL ==
  Class("DelayL", Filter, GW_DelayL, {<<"float", "int">>, <<"float">>},
    Fun(<<>>, "int", {"getMaximumDelay"}) \cup
    Fun(<<"int">>, "void", {"setMaximumDelay"}) \cup
    Fun(<<"float">>, "void", {"setDelay"}) \cup
    Fun(<<>>, "float", {"getDelay", "nextOut"}) \cup
    Fun(<<"int">>, "float", {"tapOut"}) \cup
    Fun(<<"float", "int">>, "void", {"tapIn"}))

Drummer ==
  Class("Drummer", Instrmnt, GW_Drummer, {},
    Fun(<<"float", "float">>, "void", {"noteOn"}) \cup
    Fun(<<"float">>, "void", {"noteOff"}))

Echo ==
  Class("Echo", Effect, GW_Echo, {<<"int">>},
    Fun(<<>>, "void", {"clear"}) \cup
    Fun(<<"int">>, "void", {"setDelay", "setMaximumDelay"}))

Flute ==
  Abstract("Flute", Instrmnt, GW_Flute, {<<"float">>},
    Fun(<<>>, "void", {"clear"}) \cup
    Fun(<<"float">>, "void", {"noteOff", "setEndReflection", "setFrequency",
         "setJetDelay", "setJetReflection", "stopBlowing"}) \cup
    Fun(<<"float", "float">>, "void", {"noteOn", "startBlowing"}) \cup
    Fun(<<"int", "float">>, "void", {"controlChange"}))

FMVoices ==
  Class("FMVoices", FM, GW_FMVoices, {},
    Fun(<<"float">>, "void", {"setFrequency"}) \cup
    Fun(<<"float", "float">>, "void", {"noteOn"}) \cup
    Fun(<<"int", "float">>, "void", {"controlChange"}))

FormSwep ==
  Class("FormSwep", Filter, GW_FormSwep, {},
    Fun(<<"int">>, "void", {"ignoreSampleRateChange"}) \cup
    Fun(<<>>, "void", {"ignoreSampleRateChange"}) \cup
    Fun(<<"float", "float">>, "void", {"setResonance", "setStates", "setTargets"}) \cup
    Fun(<<"float", "float", "float">>, "void", {"setStates", "setTargets"}) \cup
    Fun(<<"float">>, "void", {"setSweepRate", "setSweepTime"}))

FreeVerb ==
  Class("FreeVerb", Effect, GW_FreeVerb, {},
    Fun(<<"float">>, "void", {"setDamping", "setEffectMix", "setRoomSize",
         "setWidth"}) \cup
    Fun(<<>>, "float", {"getDamping", "getMode", "getRoomSize", "getWidth"}) \cup
    Fun(<<"int">>, "void", {"setMode"}) \cup
    Fun(<<>>, "void", {"clear"}))

Granulate ==
  Class("Granulate", Generator, GW_Granulate, {<<"int", "string", "int">>, <<"int", "string">>},
    Fun(<<"string", "int">>, "void", {"openFile"}) \cup
    Fun(<<"string">>, "void", {"openFile"}) \cup
    Fun(<<>>, "void", {"reset", "setGrainParameters", "setRandomFactor",
         "setStretch", "setVoices"}) \cup
    Fun(<<"int">>, "void", {"setGrainParameters", "setStretch", "setVoices"}) \cup
    Fun(<<"int", "int", "int", "int">>, "void", {"setGrainParameters"}) \cup
    Fun(<<"int", "int", "int">>, "void", {"setGrainParameters"}) \cup
    Fun(<<"int", "int">>, "void", {"setGrainParameters"}) \cup
    Fun(<<"float">>, "void", {"setRandomFactor"}))

Guitar ==
  Class("Guitar", Stk, GW_Guitar, {<<"int", "string">>, <<"int">>},
    Fun(<<>>, "void", {"clear", "setBodyFile"}) \cup
    Fun(<<"string">>, "void", {"setBodyFile"}) \cup
    Fun(<<"float", "int">>, "void", {"noteOff", "setFrequency", "setLoopGain",
         "setPluckPosition"}) \cup
    Fun(<<"float">>, "void", {"noteOff", "setFrequency", "setLoopGain",
         "setPluckPosition"}) \cup
    Fun(<<"float", "float", "int">>, "void", {"noteOn"}) \cup
    Fun(<<"float", "float">>, "void", {"noteOn"}) \cup
    Fun(<<"int", "float", "int">>, "void", {"controlChange"}) \cup
    Fun(<<"int", "float">>, "void", {"controlChange"}))

HevyMetl ==
  Class("HevyMetl", FM, GW_HevyMetl, {},
    Fun(<<"float", "float">>, "void", {"noteOn"}))

JCRev ==
  Class("JCRev", Effect, GW_JCRev, {<<"float">>},
    Fun(<<>>, "void", {"clear"}) \cup
    Fun(<<"float">>, "void", {"setT60"}))

JetTable == Class("JetTable", Function, GW_JetTable, {}, {})

LentPitShift ==
  Class("LentPitShift", Effect, GW_LentPitShift, {<<"float", "int">>, <<"float">>},
    Fun(<<>>, "void", {"clear"}) \cup
    Fun(<<"float">>, "void", {"setShift"}))

Mandolin ==
  Abstract("Mandolin", Instrmnt, GW_Mandolin, {<<"float">>},
    Fun(<<>>, "void", {"clear"}) \cup
    Fun(<<"float">>, "void", {"noteOff", "pluck", "setBodySize", "setDetune",
         "setFrequency", "setPluckPosition"}) \cup
    Fun(<<"float", "float">>, "void", {"noteOn", "pluck"}) \cup
    Fun(<<"int", "float">>, "void", {"controlChange"}))

Mesh2D ==
  Abstract("Mesh2D", Instrmnt, GW_Mesh2D, {<<"int", "int">>},
    Fun(<<>>, "void", {"clear"}) \cup
    Fun(<<"int">>, "void", {"setNX", "setNY"}) \cup
    Fun(<<"float", "float">>, "void", {"noteOn", "setInputPosition"}) \cup
    Fun(<<"float">>, "void", {"noteOff", "setDecay"}) \cup
    Fun(<<>>, "float", {"energy"}) \cup
    Fun(<<"float">>, "float", {"inputTick"}) \cup
    Fun(<<"int", "float">>, "void", {"controlChange"}))

Modal ==
  Abstract("Modal", Instrmnt, GW_Modal, {},
    Fun(<<>>, "void", {"clear"}) \cup
    Fun(<<"float">>, "void", {"damp", "noteOff", "setDirectGain", "setFrequency",
         "setMasterGain", "strike"}) \cup
    Fun(<<"int", "float", "float">>, "void", {"setRatioAndRadius"}) \cup
    Fun(<<"int", "float">>, "void", {"controlChange", "setModeGain"}) \cup
    Fun(<<"float", "float">>, "void", {"noteOn"}))

ModalBar ==
  Class("ModalBar", Modal, GW_ModalBar, {},
    Fun(<<"float">>, "void", {"setModulationDepth", "setStickHardness",
         "setStrikePosition"}) \cup
    Fun(<<"int">>, "void", {"setPreset"}) \cup
    Fun(<<"int", "float">>, "void", {"controlChange"}))

Modulate ==
  Class("Modulate", Generator, GW_Modulate, {},
    Fun(<<>>, "void", {"reset"}) \cup
    Fun(<<"float">>, "void", {"setRandomGain", "setRandomRate", "setVibratoGain",
         "setVibratoRate"}))

Moog ==
  Class("Moog", Sampler, GW_Moog, {},
    Fun(<<"float">>, "void", {"setFrequency", "setModulationDepth",
         "setModulationSpeed"}) \cup
    Fun(<<"float", "float">>, "void", {"noteOn"}) \cup
    Fun(<<"int", "float">>, "void", {"controlChange"}))

Noise ==
  Class("Noise", Generator, GW_Noise, {<<"int">>},
    Fun(<<"int">>, "void", {"setSeed"}) \cup
    Fun(<<>>, "void", {"setSeed"}))

NRev ==
  Class("NRev", Effect, GW_NRev, {<<"float">>},
    Fun(<<>>, "void", {"clear"}) \cup
    Fun(<<"float">>, "void", {"setT60"}))

OnePole ==
  Class("OnePole", Filter, GW_OnePole, {<<"float">>},
    Fun(<<"float">>, "void", {"setA1", "setB0", "setPole"}) \cup
    Fun(<<"float", "float", "int">>, "void", {"setCoefficients"}) \cup
    Fun(<<"float", "float">>, "void", {"setCoefficients"}))

OneZero ==
  Class("OneZero", Filter, GW_OneZero, {<<"float">>},
    Fun(<<"float">>, "void", {"setB0", "setB1", "setZero"}) \cup
    Fun(<<"float", "float", "int">>, "void", {"setCoefficients"}) \cup
    Fun(<<"float", "float">>, "void", {"setCoefficients"}))

PercFlut ==
  Class("PercFlut", FM, GW_PercFlut, {},
    Fun(<<"float">>, "void", {"setFrequency"}) \cup
    Fun(<<"float", "float">>, "void", {"noteOn"}))

Phonemes ==
  Class("Phonemes", Stk, GW_Phonemes, {},
    Fun(<<>>, "string", {"name"}) \cup
    Fun(<<>>, "float", {"noiseGain", "voiceGain"}) \cup
    Fun(<<"int">>, "float", {"formantFrequency", "formantGain", "formantRadius"}))

PitShift ==
  Class("PitShift", Effect, GW_PitShift, {},
    Fun(<<>>, "void", {"clear"}) \cup
    Fun(<<"float">>, "void", {"setShift"}))

Plucked ==
  Class("Plucked", Instrmnt, GW_Plucked, {<<"float">>},
    Fun(<<>>, "void", {"clear"}) \cup
    Fun(<<"float">>, "void", {"noteOff", "pluck", "setFrequency"}) \cup
    Fun(<<"float", "float">>, "void", {"noteOn"}))

PoleZero ==
  Class("PoleZero", Filter, GW_PoleZero, {},
    Fun(<<"float">>, "void", {"setA1", "setAllpass", "setB0", "setB1",
         "setBlockZero"}) \cup
    Fun(<<"float", "float", "float", "int">>, "void", {"setCoefficients"}) \cup
    Fun(<<"float", "float", "float">>, "void", {"setCoefficients"}) \cup
    Fun(<<>>, "void", {"setBlockZero"}))

PRCRev ==
  Class("PRCRev", Effect, GW_PRCRev, {<<"float">>},
    Fun(<<>>, "void", {"clear"}) \cup
    Fun(<<"float">>, "void", {"setT60"}))

Recorder ==
  Class("Recorder", Instrmnt, GW_Recorder, {},
    Fun(<<>>, "void", {"clear"}) \cup
    Fun(<<"float">>, "void", {"noteOff", "setBlowPressure", "setBreathCutoff",
         "setFrequency", "setNoiseGain", "setSoftness", "setVibratoFrequency",
         "setVibratoGain", "stopBlowing"}) \cup
    Fun(<<"float", "float">>, "void", {"noteOn", "startBlowing"}) \cup
    Fun(<<"int", "float">>, "void", {"controlChange"}))

ReedTable ==
  Class("ReedTable", Function, GW_ReedTable, {},
    Fun(<<"float">>, "void", {"setOffset", "setSlope"}))

Resonate ==
  Class("Resonate", Instrmnt, GW_Resonate, {},
    Fun(<<"float", "float">>, "void", {"noteOn", "setNotch", "setResonance"}) \cup
    Fun(<<>>, "void", {"keyOff", "keyOn", "setEqualGainZeroes"}) \cup
    Fun(<<"float">>, "void", {"noteOff"}) \cup
    Fun(<<"int", "float">>, "void", {"controlChange"}))

Rhodey ==
  Class("Rhodey", FM, GW_Rhodey, {},
    Fun(<<"float">>, "void", {"setFrequency"}) \cup
    Fun(<<"float", "float">>, "void", {"noteOn"}))

Saxofony ==
  Abstract("Saxofony", Instrmnt, GW_Saxofony, {<<"float">>},
    Fun(<<>>, "void", {"clear"}) \cup
    Fun(<<"float">>, "void", {"noteOff", "setBlowPosition", "setFrequency",
         "stopBlowing"}) \cup
    Fun(<<"float", "float">>, "void", {"noteOn", "startBlowing"}) \cup
    Fun(<<"int", "float">>, "void", {"controlChange"}))

Shakers ==
  Class("Shakers", Instrmnt, GW_Shakers, {<<"int">>},
    Fun(<<"float", "float">>, "void", {"noteOn"}) \cup
    Fun(<<"float">>, "void", {"noteOff"}) \cup
    Fun(<<"int", "float">>, "void", {"controlChange"}))

Simple ==
  Class("Simple", Instrmnt, GW_Simple, {},
    Fun(<<"float">>, "void", {"noteOff", "setFrequency"}) \cup
    Fun(<<>>, "void", {"keyOff", "keyOn"}) \cup
    Fun(<<"float", "float">>, "void", {"noteOn"}) \cup
    Fun(<<"int", "float">>, "void", {"controlChange"}))

SineWave ==
  Class("SineWave", Generator, GW_SineWave, {},
    Fun(<<>>, "void", {"reset"}) \cup
    Fun(<<"float">>, "void", {"addPhase", "addPhaseOffset", "addTime",
         "setFrequency", "setRate"}))

SingWave ==
  Abstract("SingWave", Generator, GW_SingWave, {<<"string", "int">>, <<"string">>},
    Fun(<<>>, "void", {"normalize", "noteOff", "noteOn", "reset"}) \cup
    Fun(<<"float">>, "void", {"normalize", "setFrequency", "setGainRate",
         "setGainTarget", "setRandomGain", "setSweepRate", "setVibratoGain",
         "setVibratoRate"}))

Sitar ==
  Class("Sitar", Instrmnt, GW_Sitar, {<<"float">>},
    Fun(<<>>, "void", {"clear"}) \cup
    Fun(<<"float">>, "void", {"noteOff", "pluck", "setFrequency"}) \cup
    Fun(<<"float", "float">>, "void", {"noteOn"}))

Vector3D ==
  Class("Vector3D", Stk, GW_Vector3D, {<<"float", "float", "float">>, <<"float", "float">>, <<"float">>},
    Fun(<<>>, "float", {"getLength", "getX", "getY", "getZ"}) \cup
    Fun(<<"float", "float", "float">>, "void", {"setXYZ"}) \cup
    Fun(<<"float">>, "void", {"setX", "setY", "setZ"}))

StifKarp ==
  Class("StifKarp", Instrmnt, GW_StifKarp, {<<"float">>},
    Fun(<<>>, "void", {"clear"}) \cup
    Fun(<<"float">>, "void", {"noteOff", "pluck", "setBaseLoopGain",
         "setFrequency", "setPickupPosition", "setStretch"}) \cup
    Fun(<<"float", "float">>, "void", {"noteOn"}) \cup
    Fun(<<"int", "float">>, "void", {"controlChange"}))

TubeBell ==
  Class("TubeBell", FM, GW_TubeBell, {},
    Fun(<<"float", "float">>, "void", {"noteOn"}))

Twang ==
  Class("Twang", Stk, GW_Twang, {<<"float">>},
    Fun(<<>>, "void", {"clear"}) \cup
    Fun(<<"float">>, "void", {"setFrequency", "setLoopGain", "setLowestFrequency",
         "setPluckPosition"}) \cup
    Fun(<<"float[]">>, "void", {"setLoopFilter"}))

TwoPole ==
  Class("TwoPole", Filter, GW_TwoPole, {},
    Fun(<<"int">>, "void", {"ignoreSampleRateChange"}) \cup
    Fun(<<>>, "void", {"ignoreSampleRateChange"}) \cup
    Fun(<<"float">>, "void", {"setA1", "setA2", "setB0"}) \cup
    Fun(<<"float", "float", "float", "int">>, "void", {"setCoefficients"}) \cup
    Fun(<<"float", "float", "float">>, "void", {"setCoefficients"}) \cup
    Fun(<<"float", "float", "int">>, "void", {"setResonance"}) \cup
    Fun(<<"float", "float">>, "void", {"setResonance"}))

TwoZero ==
  Class("TwoZero", Filter, GW_TwoZero, {},
    Fun(<<"int">>, "void", {"ignoreSampleRateChange"}) \cup
    Fun(<<>>, "void", {"ignoreSampleRateChange"}) \cup
    Fun(<<"float">>, "void", {"setB0", "setB1", "setB2"}) \cup
    Fun(<<"float", "float", "float", "int">>, "void", {"setCoefficients"}) \cup
    Fun(<<"float", "float", "float">>, "void", {"setCoefficients"}) \cup
    Fun(<<"float", "float">>, "void", {"setNotch"}))

Voicer ==
  Class("Voicer", Stk, GW_Voicer, {<<"float">>},
    Fun(<<"stk.Instrmnt", "int">>, "void", {"addInstrument"}) \cup
    Fun(<<"stk.Instrmnt">>, "void", {"addInstrument", "removeInstrument"}) \cup
    Fun(<<"float", "float", "int">>, "int", {"noteOn"}) \cup
    Fun(<<"float", "float">>, "int", {"noteOn"}) \cup
    Fun(<<"float", "float", "int">>, "void", {"noteOff"}) \cup
    Fun(<<"float", "float">>, "void", {"noteOff"}) \cup
    Fun(<<"int", "float">>, "void", {"controlChange", "noteOff", "pitchBend",
         "setFrequency"}) \cup
    Fun(<<"float", "int">>, "void", {"pitchBend", "setFrequency"}) \cup
    Fun(<<"float">>, "void", {"pitchBend", "setFrequency"}) \cup
    Fun(<<"int", "float", "int">>, "void", {"controlChange"}) \cup
    Fun(<<"int", "int", "float">>, "void", {"controlChange"}) \cup
    Fun(<<>>, "void", {"silence"}) \cup
    Fun(<<>>, "int", {"channelsOut"}))

VoicForm ==
  Class("VoicForm", Instrmnt, GW_VoicForm, {},
    Fun(<<>>, "void", {"clear", "quiet", "speak"}) \cup
    Fun(<<"float">>, "void", {"noteOff", "setFrequency", "setPitchSweepRate",
         "setUnVoiced", "setVoiced"}) \cup
    Fun(<<"string">>, "int", {"setPhoneme"}) \cup
    Fun(<<"int", "float">>, "void", {"controlChange", "setFilterSweepRate"}) \cup
    Fun(<<"float", "float">>, "void", {"noteOn"}))

Whistle ==
  Class("Whistle", Instrmnt, GW_Whistle, {},
    Fun(<<>>, "void", {"clear"}) \cup
    Fun(<<"float">>, "void", {"noteOff", "setFrequency", "stopBlowing"}) \cup
    Fun(<<"float", "float">>, "void", {"noteOn", "startBlowing"}) \cup
    Fun(<<"int", "float">>, "void", {"controlChange"}))

Wurley ==
  Class("Wurley", FM, GW_Wurley, {},
    Fun(<<"float">>, "void", {"setFrequency"}) \cup
    Fun(<<"float", "float">>, "void", {"noteOn"}))

Classes ==
  {Stk, Instrmnt, Generator, FM, Filter, Effect, Function, Sampler, ADSR,
   Asymp, BandedWG, BiQuad, Blit, BlitSaw, BlitSquare, BeeThree, BlowBotl,
   BlowHole, Bowed, BowTable, Brass, Chorus, Clarinet, Cubic, Delay,
   DelayA, DelayL, Drummer, Echo, Flute, FMVoices, FormSwep, FreeVerb,
   Granulate, Guitar, HevyMetl, JCRev, JetTable, LentPitShift, Mandolin,
   Mesh2D, Modal, ModalBar, Modulate, Moog, Noise, NRev, OnePole, OneZero,
   PercFlut, Phonemes, PitShift, Plucked, PoleZero, PRCRev, Recorder,
   ReedTable, Resonate, Rhodey, Saxofony, Shakers, Simple, SineWave,
   SingWave, Sitar, Vector3D, StifKarp, TubeBell, Twang, TwoPole, TwoZero,
   Voicer, VoicForm, Whistle, Wurley}

=============================================================================
