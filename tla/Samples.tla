------------------------------ MODULE Samples ------------------------------
(***************************************************************************)
(* What the ALSA bridge computes on a sample: bytes_to_i32 and             *)
(* i32_to_bytes of src/audio_format.rs, and apply_mixer of src/mixer.rs    *)
(* between them.                                                           *)
(*                                                                         *)
(* Every sample goes its own way through these loops, so one is enough.    *)
(* The arithmetic is that of the code with bytes of Base values instead of *)
(* 256: an i32 has four of them, the significand of an f32 three.  A float *)
(* sample is a fraction of the step of an i32, which is 1/Half of full     *)
(* scale, so a scaling by Half is left out of both conversions.            *)
(***************************************************************************)
EXTENDS Integers, Sequences

CONSTANTS
    Base,           \* values of a byte, a power of two above 2: an i32 must
                    \* have more digits than the significand of an f32
    Denominators,   \* of the floats that lie between two steps of an i32
    Percents        \* settings of the card's volume control

ASSUME BaseAssumption == Base \in {4, 8, 16, 256}
ASSUME DenominatorsAssumption == Denominators \subseteq Nat \ {0}
ASSUME PercentsAssumption == Percents \subseteq Int

VARIABLES
    c_pc,           \* where the sample stands
    format,         \* AudioFormat.format
    chunk,          \* the sample as it came: bytes, the lowest first, or a fraction
    decoded,        \* the sample as an i32
    volume,         \* the volume of its channel, a fraction of Base
    muted,          \* the mute of its channel
    out             \* the sample as it leaves

conversion == <<c_pc, format, chunk, decoded, volume, muted, out>>

Digit == 0..(Base - 1)
Half == Base ^ 4 \div 2
I32 == (-Half)..(Half - 1)
Significand == Base ^ 3

Magnitude(n) == IF n < 0 THEN -n ELSE n
Clamp(n, low, high) == IF n < low THEN low ELSE IF n > high THEN high ELSE n

\* Division that truncates, as Rust's does; \div rounds down, as its >> does.
Quotient(n, d) == IF n < 0 THEN -((-n) \div d) ELSE n \div d

\* A float cast to an integer saturates.
ToI32(n) == Clamp(n, -Half, Half - 1)

\* The exponents that a product of a sample and a volume takes, at most.
Exponents == 0..17

\* The least k at which n is no more than the significand holds in steps of 2 ^ k.
Exponent(n) ==
    CHOOSE k \in Exponents :
        /\ n <= 2 ^ k * Significand
        /\ k = 0 \/ n > 2 ^ (k - 1) * Significand

\* The nearest multiple of step to n, the even one of two.
Rounded(n, step) ==
    LET low == n \div step
        rest == n % step
        up == 2 * rest > step \/ (2 * rest = step /\ low % 2 = 1)
    IN  step * (IF up THEN low + 1 ELSE low)

\* The nearest f32 to an integer.
Nearest(n) ==
    LET size == Rounded(Magnitude(n), 2 ^ Exponent(Magnitude(n)))
    IN  IF n < 0 THEN -size ELSE size
-----------------------------------------------------------------------------
Formats == {"S16LE", "S24LE", "S32LE", "FloatLE"}

bytes_per_sample(f) == CASE f = "S16LE" -> 2 [] f = "S24LE" -> 3 [] OTHER -> 4

NaN == <<0, 0>>

\* The f32s, as numerator and denominator: whole steps, up to twice full scale,
\* for what is further out is clipped alike, and fractions of a step.  Zero has
\* one sign here.
Floats ==
    {NaN} \cup {<<n, 1>> : n \in {m \in (-2 * Half)..(2 * Half) : Nearest(m) = m}}
          \cup ((-Significand)..Significand) \X Denominators

Chunks(f) == IF f = "FloatLE" THEN Floats ELSE [1..bytes_per_sample(f) -> Digit]

\* from_le_bytes and to_le_bytes of a signed integer of Len(bytes), or n, bytes.
Unsigned(bytes) ==
    LET sum[i \in 0..Len(bytes)] ==
          IF i = 0 THEN 0 ELSE sum[i - 1] + bytes[i] * Base ^ (i - 1)
    IN  sum[Len(bytes)]

Signed(bytes) ==
    IF bytes[Len(bytes)] < Base \div 2 THEN Unsigned(bytes)
    ELSE Unsigned(bytes) - Base ^ Len(bytes)

Bytes(v, n) == [i \in 1..n |-> (v \div Base ^ (i - 1)) % Base]

\* An operator with an underscore in its name is a faulty variant of the
\* definition that follows it; the runs refute it.
FromFloat_Down(x) ==
    IF x = NaN THEN 0
    ELSE LET full == Half * x[2]
         IN  ToI32(Clamp(x[1], -full, full) \div x[2])

\* Clipped to full scale and cast, which truncates and makes 0 of NaN.
FromFloat(x) ==
    IF x = NaN THEN 0
    ELSE LET full == Half * x[2]
         IN  ToI32(Quotient(Clamp(x[1], -full, full), x[2]))

ToSample_Unsigned(f, data) ==
    IF f = "FloatLE" THEN data[1] ELSE Unsigned(data)

\* A 24-bit sample is assembled in the upper three bytes and shifted down again.
ToSample(f, data) ==
    CASE f = "S16LE" -> ToI32(Signed(data) * Base ^ 2)
      [] f = "S24LE" -> (Signed(data) * Base) \div Base
      [] f = "S32LE" -> Signed(data)
      [] f = "FloatLE" -> FromFloat(data)

FromSample(f, s) ==
    CASE f = "S16LE" -> Bytes(Clamp(Quotient(s, Base ^ 2), -(Base ^ 2) \div 2, Base ^ 2 \div 2 - 1), 2)
      [] f = "S24LE" -> Bytes(s \div Base, 3)
      [] f = "S32LE" -> Bytes(s, 4)
      [] f = "FloatLE" -> <<Clamp(Nearest(s), -Half, Half), 1>>

\* set_volume_f32 of a percentage: at most four times unity.
Volume(percent) == (Clamp(percent, 0, 400) * Base) \div 100

Scaled_Wrapping(s, vol) == Quotient(s * vol, Base) % Base ^ 4

\* *sample as f32 * vol, cast back; unity is left out.
Scaled(s, vol) ==
    IF vol = Base THEN s ELSE ToI32(Quotient(Nearest(Nearest(s) * vol), Base))
-----------------------------------------------------------------------------
ConversionInit ==
    /\ c_pc = "idle"
    /\ format = "S32LE"
    /\ chunk = [i \in 1..4 |-> 0]
    /\ decoded = 0 /\ out = 0
    /\ volume = Base /\ muted = FALSE

Decode ==
    /\ c_pc = "idle"
    /\ \E f \in Formats : \E data \in Chunks(f) :
        format' = f /\ chunk' = data /\ decoded' = ToSample(f, data)
    /\ c_pc' = "decoded"
    /\ UNCHANGED <<volume, muted, out>>

\* apply_mixer, with the settings the mixer has.
ApplyMixer ==
    /\ c_pc = "decoded"
    /\ \E p \in Percents : volume' = Volume(p)
    /\ \E m \in BOOLEAN :
        muted' = m /\ out' = IF m THEN 0 ELSE Scaled(decoded, volume')
    /\ c_pc' = "mixed"
    /\ UNCHANGED <<format, chunk, decoded>>

\* The sample comes back from a PCM as it was written to one.
Encode ==
    /\ c_pc = "decoded"
    /\ out' = FromSample(format, decoded)
    /\ c_pc' = "encoded"
    /\ UNCHANGED <<format, chunk, decoded, volume, muted>>

ConversionNext == Decode \/ ApplyMixer \/ Encode
-----------------------------------------------------------------------------
ConversionTypeOK ==
    /\ c_pc \in {"idle", "decoded", "mixed", "encoded"}
    /\ format \in Formats /\ chunk \in Chunks(format)
    /\ decoded \in I32
    /\ volume \in 0..(4 * Base) /\ muted \in BOOLEAN
    /\ c_pc = "mixed" => out \in I32
    /\ c_pc = "encoded" => out \in Chunks(format)

\* A float that comes back is a whole number of steps: the same when it was one,
\* and nearer to zero by less than one when it lay between two, but clipped at
\* full scale.  NaN comes back as silence.
FloatComesBack ==
    IF chunk = NaN THEN out = <<0, 1>>
    ELSE LET d == chunk[2]
             n == Clamp(chunk[1], -Half * d, Half * d)
         IN  /\ out[2] = 1
             /\ out[1] * n >= 0
             /\ Magnitude(out[1]) * d <= Magnitude(n)
             /\ Magnitude(n) < (Magnitude(out[1]) + 1) * d

\* A sample of 16 or 32 bits that is decoded and encoded again is the same, and a
\* float is as far as an i32 can tell.
RoundTrip ==
    c_pc = "encoded" =>
        /\ format \in {"S16LE", "S32LE"} => out = chunk
        /\ format = "FloatLE" => FloatComesBack

\* audio_format.rs: an i32 is the "normalized internal format" (line 118), and
\* i32_to_bytes converts "back to raw bytes in this format" (line 154); so of a
\* sample of 24 bits.
RoundTrip24 == c_pc = "encoded" /\ format = "S24LE" => out = chunk

\* Mute silences, unity changes nothing, and no volume turns a louder sample
\* into a softer one or one sign into the other: a boost clips at full scale.
\* Below unity nothing gets louder, but for the rounding of the sample itself.
ScaledInOrder ==
    c_pc = "mixed" =>
        IF muted THEN out = 0
        ELSE /\ volume = Base => out = decoded
             /\ volume < Base => Magnitude(out) <= Magnitude(Nearest(decoded))
             /\ \A s \in I32 : s <= decoded => Scaled(s, volume) <= out
             /\ out * decoded >= 0

\* What makes them inductive: each value is the conversion of the one before.
ConversionInv ==
    /\ ConversionTypeOK
    /\ c_pc # "idle" => decoded = ToSample(format, chunk)
    /\ c_pc = "mixed" => out = IF muted THEN 0 ELSE Scaled(decoded, volume)
    /\ c_pc = "encoded" => out = FromSample(format, decoded)
=============================================================================
