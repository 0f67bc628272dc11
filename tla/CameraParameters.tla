--------------------------- MODULE CameraParameters ---------------------------
(***************************************************************************)
(* The settings of a camera as a text and as a map (CameraParameters.cpp). *)
(* A text is a sequence of words, with "=" and ";" for the two characters  *)
(* that separate keys and values; a key or a value is a sequence of words, *)
(* and a size in it one of characters.                                     *)
(***************************************************************************)
EXTENDS Integers, Sequences, SequencesExt, FiniteSetsExt

NoText == <<>>
NoMap  == [k \in {} |-> NoText]

\* The first c of a text from a place on, 0 for none: strchr().
Find(text, from, c) ==
  LET places == {i \in from .. Len(text) : text[i] = c}
  IN IF places = {} THEN 0 ELSE CHOOSE i \in places : \A j \in places : i <= j

\* replaceValueFor()
Put(map, key, value) == [k \in DOMAIN map \cup {key} |-> IF k = key THEN value ELSE map[k]]

\* unflatten(): a key ends at the next "=", wherever a ";" is; its value ends at
\* the next ";" or at the end; what has no "=" is left out; the last one counts.
Unflatten(text) ==
  LET parse[a \in 1 .. Len(text) + 1] ==
        LET e == Find(text, a, "=")
            s == Find(text, e + 1, ";")
        IN IF e = 0 THEN <<>>
           ELSE << [key |-> SubSeq(text, a, e - 1), value |-> SubSeq(text, e + 1, IF s = 0 THEN Len(text) ELSE s - 1)] >>
                \o (IF s = 0 THEN <<>> ELSE parse[s + 1])
  IN FoldLeft(LAMBDA map, item : Put(map, item.key, item.value), NoMap, parse[1])

\* flatten(), here in any order of the keys.
Flatten(map) ==
  FoldSet(LAMBDA k, text : text \o (IF text = <<>> THEN <<>> ELSE <<";">>) \o k \o <<"=">> \o map[k], NoText, DOMAIN map)

\* set() takes neither a key nor a value with a separator in it.
Separates(words) == \E i \in 1 .. Len(words) : words[i] \in {"=", ";"}
SetTo(map, key, value) == IF Separates(key) \/ Separates(value) THEN map ELSE Put(map, key, value)

\* get(): an empty value is as good as none.
Get(map, key) == IF key \in DOMAIN map THEN map[key] ELSE NoText

Without(map, key) == [k \in DOMAIN map \ {key} |-> map[k]]

-----------------------------------------------------------------------------
(* Sizes, as "640x480", and lists of them, as "640x480,320x240". *)

Digits == <<"0", "1", "2", "3", "4", "5", "6", "7", "8", "9">>
IsDigit(c) == c \in ToSet(Digits)

Printed(number) ==
  LET print[n \in Nat] == (IF n < 10 THEN <<>> ELSE print[n \div 10]) \o <<Digits[(n % 10) + 1]>>
  IN print[number]
SizeText(size) == Printed(size[1]) \o <<"x">> \o Printed(size[2])

\* strtol() from a place on, where neither blanks nor a sign come first: where the
\* number ends, and its value, 0 for none.
NumberEnd(text, from) ==
  LET stops == {i \in from .. Len(text) : ~IsDigit(text[i])}
  IN IF stops = {} THEN Len(text) + 1 ELSE Min(stops)
Number(text, from) ==
  FoldLeft(LAMBDA n, c : 10 * n + (CHOOSE d \in 0 .. 9 : Digits[d + 1] = c), 0, SubSeq(text, from, NumberEnd(text, from) - 1))

\* parse_pair(): one sequence of a pair and the place after it, or none where the
\* delimiter does not follow the first number.
ParsePair(text, from, delim) ==
  LET e == NumberEnd(text, from)
  IN IF e > Len(text) \/ text[e] # delim THEN <<>>
     ELSE << [pair |-> <<Number(text, from), Number(text, e + 1)>>, end |-> NumberEnd(text, e + 1)] >>

\* Slip: a size counts before it is known how it ends.
ParseSizesGreedy(text) ==
  LET sizes[a \in 1 .. Len(text) + 1] ==
        LET p == ParsePair(text, a, "x")
        IN IF p = <<>> THEN <<>>
           ELSE <<p[1].pair>> \o (IF p[1].end <= Len(text) /\ text[p[1].end] = "," THEN sizes[p[1].end + 1] ELSE <<>>)
  IN IF text = <<>> THEN <<>> ELSE sizes[1]

\* parseSizesList(): up to the first size that is none, or that neither a comma nor
\* the end of the text follows.
ParseSizes(text) ==
  LET sizes[a \in 1 .. Len(text) + 1] ==
        LET p == ParsePair(text, a, "x")
        IN CASE p = <<>> -> <<>>
             [] p # <<>> /\ p[1].end > Len(text) -> <<p[1].pair>>
             [] p # <<>> /\ p[1].end <= Len(text) /\ text[p[1].end] = "," -> <<p[1].pair>> \o sizes[p[1].end + 1]
             [] OTHER -> <<>>
  IN IF text = <<>> THEN <<>> ELSE sizes[1]

\* setPreviewSize(), setVideoSize() and setPictureSize(), and their getters, with
\* <<-1, -1>> where there is no size or none that can be read.
SetSize(map, key, size) == SetTo(map, key, SizeText(size))
GetSize(map, key) ==
  LET p == ParsePair(Get(map, key), 1, "x") IN IF p = <<>> THEN <<-1, -1>> ELSE p[1].pair
GetSizes(map, key) == ParseSizes(Get(map, key))
=============================================================================
