-------------------------- MODULE FormatDescriptor --------------------------
(***************************************************************************)
(* parse_format_descriptor of src/usb_descriptor.rs: it walks the class-   *)
(* specific descriptors that follow an interface descriptor and takes the  *)
(* stream's format from the first format type descriptor among them.       *)
(*                                                                         *)
(* Every descriptor begins with its own length, its type and its subtype.  *)
(* A sample rate is left as its four bytes, the lowest first.  An index    *)
(* past the end of extra panics, and so does an overflow in a build that   *)
(* checks for it.                                                          *)
(***************************************************************************)
EXTENDS Integers, Sequences

CONSTANT OverflowChecks     \* the build's overflow-checks: on in cargo's dev profile

ASSUME OverflowAssumption == OverflowChecks \in BOOLEAN

VARIABLES
    extra,          \* the bytes handed over
    pos,            \* where the descriptor it is at begins
    p_pc,           \* where the parse stands
    data_pos,       \* the next byte of the rate list
    num_rates,      \* rates of the list that are still to come
    fmt             \* what it returns

parser == <<extra, pos, p_pc, data_pos, num_rates, fmt>>

Byte == 0..255

CS_INTERFACE == 36
FORMAT_TYPE == 2

Hz48000 == <<128, 187, 0, 0>>

DefaultFormat ==
    [sample_rates |-> <<Hz48000>>, channels |-> 2, bit_resolution |-> 32,
     subslot_size |-> 4]

\* extra[i], which counts from 0.
At(i) == extra[i + 1]
Rate(i) == <<At(i), At(i + 1), At(i + 2), At(i + 3)>>
Length == At(pos)
End == pos + Length

ParserInit ==
    /\ extra = <<>>
    /\ pos = 0 /\ p_pc = "idle"
    /\ data_pos = 0 /\ num_rates = 0
    /\ fmt = DefaultFormat
-----------------------------------------------------------------------------
ParserReset(pc, bytes) ==
    /\ extra' = bytes
    /\ pos' = 0 /\ p_pc' = pc
    /\ data_pos' = 0 /\ num_rates' = 0
    /\ fmt' = DefaultFormat

Parse(bytes) == p_pc = "idle" /\ ParserReset("walking", bytes)

\* The caller has the result.
Return == p_pc = "done" /\ ParserReset("idle", <<>>)

\* An operator with an underscore in its name is a faulty variant of the
\* definition that follows it; the runs refute it.
DescriptorHere_MaybeEmpty == pos + 3 <= Len(extra) /\ End <= Len(extra)

DescriptorHere == pos + 3 <= Len(extra) /\ Length # 0 /\ End <= Len(extra)

IsFormat == At(pos + 1) = CS_INTERFACE /\ At(pos + 2) = FORMAT_TYPE /\ Length >= 6

\* Nothing was found, or what follows is not a descriptor: the default format.
EndWalk ==
    /\ p_pc = "walking"
    /\ ~DescriptorHere
    /\ p_pc' = "done"
    /\ UNCHANGED <<extra, pos, data_pos, num_rates, fmt>>

PassDescriptor ==
    /\ p_pc = "walking"
    /\ DescriptorHere
    /\ ~IsFormat
    /\ pos' = End
    /\ UNCHANGED <<extra, p_pc, data_pos, num_rates, fmt>>

Subslot == IF Length >= 7 THEN At(pos + 5) ELSE 4

\* subslot_size * 8 is a product of u8s.
SubslotOverflows == Length < 8 /\ Subslot * 8 \notin Byte

\* Without the checks it wraps.
BitResolution == IF Length >= 8 THEN At(pos + 6) ELSE (Subslot * 8) % 256

OverflowPanics ==
    /\ p_pc = "walking"
    /\ DescriptorHere
    /\ IsFormat
    /\ OverflowChecks /\ SubslotOverflows
    /\ p_pc' = "panicked"
    /\ UNCHANGED <<extra, pos, data_pos, num_rates, fmt>>

\* The fields up to the number of rates; without a rate list the rate is the
\* fallback that fmt already holds.
TakeFormat ==
    /\ p_pc = "walking"
    /\ DescriptorHere
    /\ IsFormat
    /\ ~(OverflowChecks /\ SubslotOverflows)
    /\ IF Length >= 8
       THEN p_pc' = "rates" /\ num_rates' = At(pos + 7) /\ data_pos' = pos + 8
       ELSE p_pc' = "done" /\ UNCHANGED <<num_rates, data_pos>>
    /\ fmt' = [sample_rates |-> IF Length >= 8 THEN <<>> ELSE <<Hz48000>>,
               channels |-> At(pos + 4),
               bit_resolution |-> BitResolution,
               subslot_size |-> Subslot]
    /\ UNCHANGED <<extra, pos>>

RateFits_InExtra == num_rates > 0 /\ data_pos + 4 <= Len(extra)

RateFits == num_rates > 0 /\ data_pos + 4 <= End

WithRate(rate) == [fmt EXCEPT !.sample_rates = Append(@, rate)]

TakeRate ==
    /\ p_pc = "rates"
    /\ RateFits
    /\ fmt' = WithRate(Rate(data_pos))
    /\ data_pos' = data_pos + 4
    /\ num_rates' = num_rates - 1
    /\ UNCHANGED <<extra, pos, p_pc>>

EndRates ==
    /\ p_pc = "rates"
    /\ ~RateFits
    /\ fmt.sample_rates # <<>>
    /\ p_pc' = "done"
    /\ UNCHANGED <<extra, pos, data_pos, num_rates, fmt>>

FixedRate_TwoBytes ==
    /\ p_pc = "rates"
    /\ ~RateFits
    /\ fmt.sample_rates = <<>>
    /\ IF data_pos + 2 > End
       THEN p_pc' = "done" /\ fmt' = WithRate(Hz48000)
       ELSE IF data_pos + 4 <= Len(extra)
            THEN p_pc' = "done" /\ fmt' = WithRate(Rate(data_pos))
            ELSE p_pc' = "panicked" /\ UNCHANGED fmt
    /\ UNCHANGED <<extra, pos, data_pos, num_rates>>

\* A single fixed rate: three bytes of it are checked for and four are read.
FixedRate ==
    /\ p_pc = "rates"
    /\ ~RateFits
    /\ fmt.sample_rates = <<>>
    /\ IF data_pos + 3 > End
       THEN p_pc' = "done" /\ fmt' = WithRate(Hz48000)
       ELSE IF data_pos + 4 <= Len(extra)
            THEN p_pc' = "done" /\ fmt' = WithRate(Rate(data_pos))
            ELSE p_pc' = "panicked" /\ UNCHANGED fmt
    /\ UNCHANGED <<extra, pos, data_pos, num_rates>>

ParserNext ==
    \/ EndWalk \/ PassDescriptor \/ OverflowPanics \/ TakeFormat
    \/ TakeRate \/ EndRates \/ FixedRate
-----------------------------------------------------------------------------
ParserTypeOK ==
    /\ extra \in Seq(Byte)
    /\ pos \in 0..Len(extra)
    /\ p_pc \in {"idle", "walking", "rates", "done", "panicked"}
    /\ data_pos \in Nat
    /\ num_rates \in Byte
    /\ fmt \in [sample_rates : Seq([1..4 -> Byte]), channels : Byte,
                bit_resolution : Byte, subslot_size : Byte]

(* The format by the first format type descriptor, apart from the loop.    *)
(* The places of the fields are the code's: the order of USB Audio 1.0,    *)
(* with rates of four bytes.                                               *)

\* Where the descriptor after the one at p begins, or the end of e if the bytes
\* at p are none.
Following(e, p) ==
    IF p + 3 <= Len(e) /\ e[p + 1] # 0 /\ p + e[p + 1] <= Len(e)
    THEN p + e[p + 1] ELSE Len(e)

\* Where the n-th descriptor of e begins, or the end of e when there are fewer.
Begins(e) ==
    LET start[n \in Nat] == IF n = 0 THEN 0 ELSE Following(e, start[n - 1])
    IN  start

\* The descriptors of e, each the sequence of its own bytes.
Descriptors(e) ==
    LET start == Begins(e)
    IN  [n \in 1..Len(e) |-> SubSeq(e, start[n - 1] + 1, start[n])]

IsFormatType(d) == Len(d) >= 6 /\ d[1] = Len(d) /\ d[2] = CS_INTERFACE /\ d[3] = FORMAT_TYPE

RateWord(d, k) == SubSeq(d, 5 + 4 * k, 8 + 4 * k)

\* Rates of the list that lie in d whole.
WholeRates(d) ==
    IF Len(d) < 12 THEN 0
    ELSE LET room == (Len(d) - 8) \div 4 IN IF d[8] < room THEN d[8] ELSE room

RatesOf(d) ==
    IF WholeRates(d) > 0 THEN [k \in 1..WholeRates(d) |-> RateWord(d, k)]
    ELSE IF Len(d) >= 12 THEN <<RateWord(d, 1)>>
    ELSE <<Hz48000>>

FormatOf(d) ==
    LET subslot == IF Len(d) = 6 THEN 4 ELSE d[6]
    IN  [sample_rates |-> RatesOf(d),
         channels |-> d[5],
         bit_resolution |-> IF Len(d) >= 8 THEN d[7] ELSE subslot * 8,
         subslot_size |-> subslot]

FormatTypes(e) == {n \in 1..Len(e) : IsFormatType(Descriptors(e)[n])}

\* Which of the descriptors of e the first format type descriptor is.
FirstAt(e) == CHOOSE n \in FormatTypes(e) : \A m \in FormatTypes(e) : n <= m

\* The first format type descriptor of e, or the empty sequence.
FirstFormat(e) == IF FormatTypes(e) = {} THEN <<>> ELSE Descriptors(e)[FirstAt(e)]

FormatIn(e) ==
    IF FirstFormat(e) = <<>> THEN DefaultFormat ELSE FormatOf(FirstFormat(e))

\* The one length at which the fixed rate is read a byte past the descriptor.
Overruns(d) == Len(d) = 11

\* Eight bits a byte of the subslot are more than a byte can say.
Overflows(d) == Len(d) = 7 /\ d[6] > 31

\* The bytes whose parse panics.
Panics(e) ==
    LET d == FirstFormat(e)
    IN  \/ Overruns(d) /\ Begins(e)[FirstAt(e)] = Len(e)
        \/ Overflows(d) /\ OverflowChecks

(* What makes the agreement of the two inductive. *)

\* The rate list lies in a format type descriptor that lies in extra.
ParserInv ==
    p_pc = "rates" =>
        /\ DescriptorHere /\ IsFormat /\ Length >= 8
        /\ data_pos = pos + 8 + 4 * Len(fmt.sample_rates)
        /\ data_pos <= End

\* The bytes of the descriptor at pos.
Here == SubSeq(extra, pos + 1, End)

\* The walk has passed over the descriptors before pos, and none of them is a
\* format type descriptor.
WalkInv ==
    p_pc = "walking" =>
        /\ fmt = DefaultFormat
        /\ \E n \in 0..pos :
              /\ Begins(extra)[n] = pos
              /\ \A m \in 1..n : ~IsFormatType(Descriptors(extra)[m])

\* The rates taken so far are the first of the format type descriptor found.
RatesInv ==
    p_pc = "rates" =>
        /\ FirstFormat(extra) = Here
        /\ Begins(extra)[FirstAt(extra)] = End
        /\ fmt = [FormatOf(Here) EXCEPT !.sample_rates =
                      [k \in 1..Len(fmt.sample_rates) |-> RateWord(Here, k)]]
        /\ num_rates + Len(fmt.sample_rates) = Here[8]

\* FormatIn says what is returned, of the descriptors that are read as they lie.
Taken(e, f) ==
    \/ Overruns(FirstFormat(e)) \/ Overflows(FirstFormat(e))
    \/ f = FormatIn(e)

ResultInv ==
    /\ p_pc = "done" => Taken(extra, fmt) /\ ~Panics(extra)
    /\ p_pc = "panicked" => Panics(extra)

LaidOutInv == WalkInv /\ RatesInv /\ ResultInv
=============================================================================
