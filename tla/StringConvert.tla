--------------------------- MODULE StringConvert ---------------------------
(***************************************************************************)
(* Texts as options hold them, and their conversions (StringConvert.h,     *)
(* Tokenize.cpp).  A text is known by what the conversions tell apart: the *)
(* decimal numerals, words (up to case, which StringEqualI ignores), and   *)
(* texts with separators, which are given by what lies between them.  A    *)
(* value is written as its canonical text.                                 *)
(***************************************************************************)
EXTENDS Integers, Sequences

Numeral(n) == <<"int", n>>
Word(w) == <<"word", w>>
Words(ws) == <<"words", ws>>         \* words with spaces between them
List(tokens) == <<"list", tokens>>   \* texts with commas between them
EmptyText == Word("")

Plain == ({"int"} \X Int) \cup ({"word"} \X STRING) \cup ({"words"} \X Seq(STRING))
Text  == Plain \cup ({"list"} \X Seq(Plain))

\* An Optional is a sequence of one element or none.
NoValue == << >>

Types == {"bool", "uint8", "uint16", "string"}

RangeOf(T) == IF T = "uint8" THEN 0 .. 255 ELSE 0 .. 65535

\* The values of a type.
ValuesOf(T) ==
    CASE T = "bool"   -> {Numeral(0), Numeral(1)}
      [] T = "string" -> Text
      [] OTHER        -> {Numeral(n) : n \in RangeOf(T)}

\* from_chars() takes the whole text or nothing, and refuses what the type cannot hold.
IntFromString(T, text) ==
    IF text[1] = "int" /\ text[2] \in RangeOf(T) THEN <<text>> ELSE NoValue

BoolFromString(text) ==
    CASE text = Numeral(1) \/ text \in {Word(w) : w \in {"y", "on", "yes", "true"}} -> <<Numeral(1)>>
      [] text = Numeral(0) \/ text \in {Word(w) : w \in {"n", "off", "no", "false"}} -> <<Numeral(0)>>
      [] OTHER -> NoValue

StringTo(T, text) ==
    CASE T = "bool"   -> BoolFromString(text)
      [] T = "string" -> <<text>>
      [] OTHER        -> IntFromString(T, text)

\* ToString() of a value is its canonical text; "{}" names Booleans instead.
ToString(T, value) == value
Format(T, value) ==
    IF T = "bool" THEN Word(IF value = Numeral(1) THEN "true" ELSE "false") ELSE value

\* Tokenize(text, ',', true) and Tokenize(text, ' ', false).
TokenizeCommas(text) == IF text[1] = "list" THEN text[2] ELSE <<text>>
TokenizeSpaces(text) ==
    CASE text[1] = "words" -> text[2]
      [] text = EmptyText  -> << >>
      [] OTHER             -> <<text[2]>>
=============================================================================
