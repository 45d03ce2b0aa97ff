--------------------------------- MODULE Sound ---------------------------------
(* The sound device: the envelopes of its channels (devices/sound.js with the *)
(* registers of registers/audio.js).                                          *)
(*                                                                            *)
(* The guest stores control words, selects channels and sets sustain levels;  *)
(* time generates samples, each of which steps every envelope. Levels are     *)
(* whole numbers up to Full. Waves, frequencies, volumes and the host's audio *)
(* programs are left out: no envelope depends on them.                        *)
EXTENDS Naturals

CONSTANTS
    Channels,      \* number of channels
    Full,          \* the highest level
    AttackStep, DecayStep, \* change of a level in one sample
    ReleaseSamples, \* samples a release lasts
    Sustains,      \* sustain levels stored
    BaseHz, SampleRate, \* cycles and samples in a second
    Cycles,        \* cycles of an advance
    Parts,         \* parts of a sample, for intervals of real time
    Intervals      \* intervals, in parts

ASSUME SoundAssumption ==
    /\ Channels \in Nat \ {0} /\ Full \in Nat \ {0} /\ ReleaseSamples \in Nat \ {0}
    /\ AttackStep \in Nat \ {0} /\ DecayStep \in Nat \ {0}
    /\ BaseHz \in Nat \ {0} /\ SampleRate \in Nat \ {0} /\ Parts \in Nat \ {0}
    /\ Sustains \subseteq 0 .. Full
    /\ Cycles \subseteq Nat /\ Intervals \subseteq Nat

VARIABLES
    channel,       \* the channels
    index,         \* the channel the window selects
    enabled, muted, \* of the control word of the mixer
    accumulator,   \* cycles not yet worth a sample, times SampleRate
    fraction,      \* parts not yet worth a sample
    due            \* samples the running advance has still to generate

registers == <<index, enabled, muted>>
clock == <<accumulator, fraction>>
soundVars == <<channel, registers, clock, due>>

Channel == 1 .. Channels
States == {"idle", "attack", "decay", "sustain", "release"}

NewChannel ==
    [enable |-> FALSE, gate |-> FALSE, sr |-> 0, env |-> 0, envState |-> "idle",
     releaseStep |-> 0, stateBits |-> [active |-> FALSE, phase |-> "idle"]]

-------------------------------------------------------------------------------
(* One channel. *)

UpdateStateBits(c) ==
    [c EXCEPT !.stateBits =
        [active |-> c.enable /\ c.env > 0, phase |-> c.envState]]

\* Mutant: a channel that is switched off keeps its status.
SilencedQuietly(c) == [c EXCEPT !.env = 0, !.envState = "idle"]

Silenced(c) == UpdateStateBits([c EXCEPT !.env = 0, !.envState = "idle"])

ReleaseStepOf(env) == (env + ReleaseSamples - 1) \div ReleaseSamples

\* Mutant: only the note on is looked at.
HandleGateOn(c, oldGate) ==
    IF c.gate /\ ~oldGate THEN UpdateStateBits([c EXCEPT !.envState = "attack"]) ELSE c

\* Only an edge of the gate changes the envelope.
HandleGateWrite(c, oldGate) ==
    CASE c.gate = oldGate -> c
      [] c.gate /\ ~oldGate -> UpdateStateBits([c EXCEPT !.envState = "attack"])
      [] ~c.gate /\ oldGate /\ c.env > 0 ->
            UpdateStateBits([c EXCEPT !.envState = "release",
                                      !.releaseStep = ReleaseStepOf(c.env)])
      [] OTHER -> UpdateStateBits([c EXCEPT !.env = 0, !.envState = "idle"])

Attacked(c) ==
    IF c.env + AttackStep >= Full
    THEN [c EXCEPT !.env = Full, !.envState = "decay"]
    ELSE [c EXCEPT !.env = @ + AttackStep]

Decayed(c) ==
    IF c.env <= c.sr + DecayStep
    THEN [c EXCEPT !.env = c.sr, !.envState = "sustain"]
    ELSE [c EXCEPT !.env = @ - DecayStep]

\* Mutant: a release that reaches the bottom stays one.
ReleasedOn(c) == [c EXCEPT !.env = IF c.env <= c.releaseStep THEN 0 ELSE @ - c.releaseStep]

Released(c) ==
    IF c.env <= c.releaseStep
    THEN [c EXCEPT !.env = 0, !.envState = "idle"]
    ELSE [c EXCEPT !.env = @ - c.releaseStep]

StepEnvelope(c) ==
    IF ~c.enable THEN Silenced(c)
    ELSE UpdateStateBits(
            CASE c.envState = "attack" -> Attacked(c)
              [] c.envState = "decay" -> Decayed(c)
              [] c.envState = "sustain" -> [c EXCEPT !.env = c.sr]
              [] c.envState = "release" -> Released(c)
              [] OTHER -> c)

-------------------------------------------------------------------------------
(* Stores of the guest: an advance is one call, which none of them falls into. *)

WriteCtrl(enable, gate) ==
    LET c == [channel[index] EXCEPT !.enable = enable, !.gate = gate]
    IN /\ due = 0
       /\ channel' = [channel EXCEPT ![index] =
                        UpdateStateBits(HandleGateWrite(c, channel[index].gate))]
       /\ UNCHANGED <<registers, clock, due>>

WriteSr(level) ==
    /\ due = 0
    /\ channel' = [channel EXCEPT ![index].sr = level]
    /\ UNCHANGED <<registers, clock, due>>

SelectChannel(i) ==
    /\ due = 0
    /\ index' = i
    /\ UNCHANGED <<channel, enabled, muted, clock, due>>

WriteGlobal(enable, mute) ==
    /\ due = 0
    /\ enabled' = enable /\ muted' = mute
    /\ UNCHANGED <<channel, index, clock, due>>

\* The reset bit of the control word, whose other bits are stored afterwards,
\* and with them false the reset of the bus.
Reset(enable, mute) ==
    /\ due = 0
    /\ channel' = [i \in Channel |-> NewChannel]
    /\ index' = 1
    /\ accumulator' = 0 /\ fraction' = 0
    /\ enabled' = enable /\ muted' = mute
    /\ UNCHANGED due

-------------------------------------------------------------------------------
(* Time. *)

Mixing == enabled /\ ~muted

\* One turn of the loop of an advance: a mixer that is off or muted steps
\* nothing.
GenerateSample ==
    /\ due > 0
    /\ due' = due - 1
    /\ channel' = IF Mixing THEN [i \in Channel |-> StepEnvelope(channel[i])] ELSE channel
    /\ UNCHANGED <<registers, clock>>

\* Mutant: one sample is taken out of what has accumulated.
RestOne(total, unit) == IF total < unit THEN total ELSE total - unit

\* What is left when all whole samples have been taken out.
Rest(total, unit) == total % unit

Advance(cycles) ==
    LET total == accumulator + cycles * SampleRate
    IN /\ due = 0
       /\ due' = total \div BaseHz
       /\ accumulator' = Rest(total, BaseHz)
       /\ UNCHANGED <<channel, registers, fraction>>

AdvanceTime(parts) ==
    /\ due = 0
    /\ due' = (fraction + parts) \div Parts
    /\ fraction' = Rest(fraction + parts, Parts)
    /\ UNCHANGED <<channel, registers, accumulator>>

Time ==
    \/ GenerateSample
    \/ \E n \in Cycles : Advance(n)
    \/ \E p \in Intervals : AdvanceTime(p)

SoundInit ==
    /\ channel = [i \in Channel |-> NewChannel]
    /\ index = 1
    /\ enabled = FALSE /\ muted = FALSE
    /\ accumulator = 0 /\ fraction = 0 /\ due = 0

SoundNext ==
    \/ \E e, g \in BOOLEAN : WriteCtrl(e, g)
    \/ \E l \in Sustains : WriteSr(l)
    \/ \E i \in Channel : SelectChannel(i)
    \/ \E e, m \in BOOLEAN : WriteGlobal(e, m) \/ Reset(e, m)
    \/ Time

SoundSpec == SoundInit /\ [][SoundNext]_soundVars

\* The machine advances its devices after every block or tick.
SoundFairSpec == SoundSpec /\ WF_soundVars(Time)

-------------------------------------------------------------------------------
(* Properties. *)

\* Levels stay between silence and Full however stores and samples follow each
\* other, and less than a sample is left over by any advance.
SoundTypeOK ==
    /\ channel \in [Channel ->
            [enable : BOOLEAN, gate : BOOLEAN, sr : 0 .. Full, env : 0 .. Full,
             envState : States, releaseStep : 0 .. Full,
             stateBits : [active : BOOLEAN, phase : States]]]
    /\ index \in Channel
    /\ enabled \in BOOLEAN /\ muted \in BOOLEAN
    /\ accumulator \in 0 .. BaseHz - 1 /\ fraction \in 0 .. Parts - 1
    /\ due \in Nat

\* A note is held only while its gate is on and fades only when it is off, and a
\* channel that does neither is silent: whatever is stored between two samples,
\* while the mixer is muted or while the channel is switched off.
NotesFollowGates ==
    \A i \in Channel :
        /\ channel[i].envState \in {"attack", "decay", "sustain"} => channel[i].gate
        /\ channel[i].envState = "release" => ~channel[i].gate /\ channel[i].env > 0
        /\ channel[i].envState = "idle" => channel[i].env = 0

\* The status the guest reads, from which BUSY is made, is that of the envelope,
\* although it is kept apart and many stores and samples change the envelope.
StatusFresh ==
    \A i \in Channel : channel[i].stateBits = UpdateStateBits(channel[i]).stateBits

\* A note that was let go ends, once the mixer stays on: none hangs.
ReleaseEnds ==
    <>[]Mixing =>
        \A i \in Channel : channel[i].envState = "release" ~> channel[i].envState # "release"

=============================================================================
