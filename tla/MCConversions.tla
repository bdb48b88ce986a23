---------------------------- MODULE MCConversions ----------------------------
(* Conversions on short texts, the days around every kind of century, two   *)
(* hosts with two ports and outputs with quotes and braces in strings.      *)
EXTENDS Conversions

UpTo(S, n) == UNION {[1..k -> S] : k \in 0..n}

ShortTexts == UpTo({"a", "b", "odd", "SP", "CR", "LF"}, 5)

\* 1970-1973, 1999-2001, 2023-2029, 2099-2101 and 2399-2401.
Calendar == (0..1500) \cup (10590..11400) \cup (19300..22000)
            \cup (47100..48200) \cup (156600..157800)
Midnights == {0, 3661, 86399}

Dests == {"h1", "h2"} \X {80, 443}
TwoDests == {Destinations(a, p, <<>>, <<>>, TRUE) : a, p \in Dests}
ThreeDests == TwoDests \cup
  {Destinations(a, p, <<k>>, <<m>>, local) :
     a, p, k, m \in Dests, local \in BOOLEAN}

Quoted == {<<"Q", "x", "Q">>, <<"Q", "OPEN", "Q">>, <<"Q", "B", "Q", "Q">>}
Other == <<"x">>
ShortNoise == {<<>>, <<Other>>, <<<<"B">>>>} \cup {<<q>> : q \in Quoted}
Braced(body) == <<Opening>> \o body \o <<Closing>>
SmallObjects == {Braced(<<q>>) : q \in Quoted} \cup
  {Braced(<<<<"Q", "B", "B", "Q">>>>), Braced(<<<<"Q", "CLOSE", "Q">>, Other>>),
   Braced(Braced(<<Other>>) \o <<Other>>)}
=============================================================================
