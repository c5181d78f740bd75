----------------------------- MODULE MCStreams -----------------------------
(***************************************************************************)
(* Devices for the model checker: every sequence of up to three class-     *)
(* specific descriptors out of a few, well-formed and not, on a device with*)
(* one endpoint, and some devices with several settings.                   *)
(***************************************************************************)
EXTENDS Streams, SequencesExt

General == <<4, 36, 1, 9>>
Word(b) == <<b, 2, 3, 4>>

\* Format type descriptors, named after their length.
Short == <<5, 36, 2, 1, 2>>
Six == <<6, 36, 2, 1, 2, 16>>
Seven == <<7, 36, 2, 1, 2, 3, 24>>
SevenWide == <<7, 36, 2, 1, 2, 32, 0>>
Eight == <<8, 36, 2, 1, 3, 4, 32, 0>>
Eleven == <<11, 36, 2, 1, 2, 4, 32, 0, 1, 2, 3>>
Ten == <<10, 36, 2, 1, 2, 4, 32, 0, 1, 2>>
OneRate == <<12, 36, 2, 1, 2, 4, 32, 1>> \o Word(5)
FixedOnly == <<12, 36, 2, 1, 1, 2, 16, 0>> \o Word(6)
TwoRates == <<17, 36, 2, 1, 6, 2, 16, 3>> \o Word(7) \o Word(8) \o <<1>>

Fragments ==
    {General, Short, Six, Seven, SevenWide, Eight, Ten, Eleven, OneRate, FixedOnly,
     TwoRates, <<0>>, <<2, 36>>, <<1, 36, 2>>, <<9, 36>>}

Extras == {FlattenSeq(s) : s \in BoundedSeq(Fragments, 2)}
          \cup {General \o a \o b : a, b \in Fragments}

Alt(f, alt, class, endpoints, ex) ==
    [interface |-> f, alt |-> alt, class |-> class, subclass |-> 3,
     endpoints |-> endpoints, extra |-> ex]

Control == [Alt(0, 0, 1, <<131>>, <<>>) EXCEPT !.subclass = 1]

MCDevices ==
    {<<Alt(1, 0, 1, <<>>, <<>>), Alt(1, 1, 1, <<129>>, ex)>> : ex \in Extras}
    \cup {
    \* nothing to stream
    <<>>,
    <<Control, Alt(1, 1, 2, <<129>>, <<>>)>>,
    \* one setting with endpoints on each interface, more channels than rings
    <<Control, Alt(2, 0, 1, <<>>, <<>>), Alt(2, 1, 1, <<130, 2>>, Eight),
      Alt(1, 0, 1, <<>>, <<>>), Alt(1, 2, 255, <<129, 1>>, TwoRates)>>,
    <<Alt(1, 1, 1, <<129, 130, 131>>, Seven), Alt(3, 1, 1, <<1, 2, 3>>, FixedOnly)>>,
    \* a choice of formats on one interface
    <<Alt(1, 0, 1, <<>>, <<>>), Alt(1, 1, 1, <<129>>, FixedOnly),
      Alt(1, 2, 1, <<129>>, OneRate), Alt(2, 1, 1, <<1>>, OneRate)>>}

\* Halves and quarters of a step.
MCDenominators == {2, 4}

\* Below, at and above the ends of the range, and unity.
MCPercents == {-5, 0, 30, 60, 99, 100, 130, 250, 400, 500}
=============================================================================
