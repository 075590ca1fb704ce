----------------------------- MODULE MCLibrary -----------------------------
(* An instance of Library for TLC. *)
EXTENDS Library

\* The items written to packets: a negative number, a string with a letter of two bytes
\* and one that breaks off in such a letter, a guid with gaps, a date past 2031, one in
\* summer time and an infinity.
ItemValues ==
    [int16  |-> {-2},
     string |-> {<<65, 195, 169>>, <<195>>},
     guid   |-> {<<0, 7, 0, 0, 0, 0, 0, 9>>},
     time   |-> {[year |-> 132, mon |-> 11, mday |-> 31, wday |-> 5, hour |-> 23, min |-> 59,
                  sec |-> 30, isdst |-> FALSE],
                 [year |-> 110, mon |-> 6, mday |-> 1, wday |-> 4, hour |-> 12, min |-> 0,
                  sec |-> 15, isdst |-> TRUE]},
     float  |-> {<<0, 0, 128, 127>>}]

\* Location files: ranges that touch, overlap, are empty and end in front of their start,
\* with lines that are no record or lack commas; three lines of ranges that do not overlap,
\* and three with a short line between two records.
Line(r, n) == [range |-> r, commas |-> n]
TouchingRanges ==
    {[from |-> 0, to |-> 2], [from |-> 2, to |-> 2], [from |-> 2, to |-> 3], [from |-> 3, to |-> 1]}
TouchingLines == {Line(r, 3) : r \in TouchingRanges}
ShortLines == {Line([none |-> TRUE], 0), Line([from |-> 0, to |-> 2], 2)}
LocationLines ==
    TouchingLines \cup ShortLines
        \cup {Line([from |-> 0, to |-> 4], 3), Line([none |-> TRUE], 3)}
LocationFiles ==
    UNION {[1 .. n -> LocationLines] : n \in 0 .. 2} \cup [1 .. 3 -> TouchingLines]
        \cup {<<l, short, m>> : l, m \in TouchingLines, short \in ShortLines}
FiveAddresses == 0 .. 4

SmallRadices == <<3, 2, 2, 2, 2>>
ShortPlaintexts == {<<5>>, <<5, 6>>}
FourSteps == 3 .. 14
=============================================================================
