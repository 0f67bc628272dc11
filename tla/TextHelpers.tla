----------------------------- MODULE TextHelpers -----------------------------
(***************************************************************************)
(* Helpers that take texts apart and put them together:                    *)
(* loc_misc_utils.cpp, the digits of LocApiBase.cpp, the checksum of       *)
(* loc_eng_nmea.cpp and the sizes of CameraParameters.cpp.                 *)
(*                                                                         *)
(* A text is a sequence of characters without its final NUL, a byte a pair *)
(* of its lower and its upper half, a room counts the NUL.  One call is    *)
(* made, and the properties compare what it returns with what it is for.   *)
(***************************************************************************)
EXTENDS CameraParameters, Bitwise

CONSTANTS
  Characters,  \* of texts: " " and "," among them
  MaxText,     \* bound: characters of a text
  Sizes,       \* of pictures: pairs of numbers
  Halves,      \* of bytes, in 0 .. 15
  Letters        \* of the characters of sentences

ASSUME TextAssumption ==
  /\ {" ", ","} \subseteq Characters /\ MaxText \in Nat
  /\ Sizes \subseteq Nat \X Nat /\ Halves \subseteq 0 .. 15 /\ Letters \subseteq 1 .. 127

VARIABLE call   \* the call: its function, its arguments and its result

TextInit == call = [of |-> "none"]
Calls(of, argument, room, result) ==
  /\ call.of = "none"
  /\ call' = [of |-> of, argument |-> argument, room |-> room, result |-> result]

UpTo(S, n) == UNION {[1 .. k -> S] : k \in 0 .. n}
Least(m, n) == IF m < n THEN m ELSE n

-----------------------------------------------------------------------------
(* loc_misc_utils.cpp *)

\* Slip: the last place is filled with all the rest.
SplitKeepingRest(text, max, delimiter) ==
  LET pieces[a \in 1 .. Len(text) + 1, n \in Nat] ==
        LET c == Find(text, a, delimiter)
        IN IF c = 0 \/ n + 1 >= max THEN << SubSeq(text, a, Len(text)) >>
           ELSE << SubSeq(text, a, c - 1) >> \o pieces[c + 1, n + 1]
  IN pieces[1, 0]

\* loc_util_split_string(): every delimiter ends a piece, until the places are full.
SplitString(text, max, delimiter) ==
  LET pieces[a \in 1 .. Len(text) + 1, n \in Nat] ==
        LET c == Find(text, a, delimiter)
        IN IF c = 0 THEN << SubSeq(text, a, Len(text)) >>
           ELSE << SubSeq(text, a, c - 1) >> \o (IF n + 1 < max THEN pieces[c + 1, n + 1] ELSE <<>>)
  IN pieces[1, 0]

\* loc_util_trim_space(): from the first character that is no blank on, all are
\* written to the front; the text ends after the last that was none.
TrimSpace(text) ==
  LET scan == FoldLeft(LAMBDA s, c :
                IF c = " " /\ s.out = <<>> THEN s
                ELSE [out |-> Append(s.out, c), last |-> IF c = " " THEN s.last ELSE Len(s.out) + 1],
                [out |-> <<>>, last |-> 0], text)
  IN IF scan.last = 0 THEN text ELSE SubSeq(scan.out, 1, scan.last)

-----------------------------------------------------------------------------
(* LocApiBase.cpp *)

HexDigits == <<"0", "1", "2", "3", "4", "5", "6", "7", "8", "9", "A", "B", "C", "D", "E", "F">>
ByteText(byte) == << HexDigits[byte[2] + 1], HexDigits[byte[1] + 1] >>

\* hexcode(): as many bytes as have room for two digits and the NUL.
Hexcode(data, room) == FlattenSeq([i \in 1 .. Least(Len(data), (room - 1) \div 2) |-> ByteText(data[i])])

Prefix == <<1, 9>>   \* 0x91

\* decodeAddress(): the lower half of a byte first; what is no digit is left out.
DecodeAddress(data, room) ==
  LET halves == FlattenSeq(SubSeq(data, 2, Len(data)))
      digits == SelectSeq(halves, LAMBDA h : h <= 9)
  IN IF data = <<>> \/ data[1] # Prefix THEN <<>> ELSE SubSeq(digits, 1, Least(Len(digits), room - 1))

-----------------------------------------------------------------------------
(* loc_eng_nmea.cpp *)

\* loc_eng_nmea_put_checksum(): the sum of all but the "$", and five characters for
\* it, of which those are written that have room; all are counted.
PutChecksum(sentence, room) ==
  [sum     |-> FoldLeft(LAMBDA s, c : s ^^ c, 0, Tail(sentence)),
   written |-> Least(5, room - Len(sentence) - 1),
   length  |-> Len(sentence) + 5]

-----------------------------------------------------------------------------

TextNext ==
  \/ \E text \in UpTo(Characters, MaxText), max \in 1 .. 3 : Calls("split", text, max, SplitString(text, max, ","))
  \/ \E text \in UpTo(Characters, MaxText) : Calls("trim", text, 0, TrimSpace(text))
  \/ \E text \in UpTo(Characters, MaxText) : Calls("sizes", text, 0, GetSizes(SetTo(NoMap, <<"sizes">>, text), <<"sizes">>))
  \/ \E size \in Sizes : Calls("size", size, 0, GetSize(SetSize(NoMap, <<"size">>, size), <<"size">>))
  \/ \E data \in UpTo(Halves \X Halves, 2), room \in 1 .. 6 : Calls("hexcode", data, room, Hexcode(data, room))
  \/ \E data \in UpTo(Halves \X Halves, 2), room \in 1 .. 6 :
       Calls("decode", <<Prefix>> \o data, room, DecodeAddress(<<Prefix>> \o data, room))
  \/ \E data \in UpTo(Letters, 3), room \in 6 .. 12 : Calls("checksum", <<36>> \o data, room, PutChecksum(<<36>> \o data, room))

-----------------------------------------------------------------------------
(* Properties. *)

\* Joined with a separator between them.
Joined(pieces, separator) ==
  FlattenSeq([i \in 1 .. Len(pieces) |-> IF i = 1 THEN pieces[i] ELSE <<separator>> \o pieces[i]])

\* Splitting loses nothing but what has no place: the pieces, joined again, begin the
\* text, end at a delimiter or with it, and have no delimiter in them.
SplitsAtDelimiters ==
  call.of = "split" =>
    LET text   == call.argument
        joined == Joined(call.result, ",")
        commas == {i \in 1 .. Len(text) : text[i] = ","}
    IN /\ Len(call.result) = Least(Cardinality(commas) + 1, call.room)
       /\ IsPrefix(joined, text) /\ (Len(joined) = Len(text) \/ text[Len(joined) + 1] = ",")
       /\ \A i \in 1 .. Len(call.result) : "," \notin ToSet(call.result[i])

\* Trimming leaves what is between the first and the last character that is no blank,
\* and a text of blanks as it is.
TrimsTheEdges ==
  call.of = "trim" =>
    LET words == {i \in 1 .. Len(call.argument) : call.argument[i] # " "}
    IN call.result = IF words = {} THEN call.argument ELSE SubSeq(call.argument, Min(words), Max(words))

\* The sizes read from a list are those of the items up to the first that is not two
\* numbers around an "x", where a missing number is 0; a size that was set is read back.
SizesComeBack ==
  /\ call.of = "sizes" =>
       LET items == SplitString(call.argument, MaxText + 1, ",")
           good  == {i \in 1 .. Len(items) :
                       \E x \in 1 .. Len(items[i]) : items[i][x] = "x"
                         /\ \A j \in 1 .. Len(items[i]) : j # x => IsDigit(items[i][j])}
           wrong == 1 .. Len(items) \ good
           upto  == IF wrong = {} THEN Len(items) ELSE Min(wrong) - 1
       IN /\ Len(call.result) = upto
          /\ \A i \in 1 .. upto :
               LET x == Find(items[i], 1, "x")
               IN call.result[i] = <<Number(SubSeq(items[i], 1, x - 1), 1), Number(SubSeq(items[i], x + 1, Len(items[i])), 1)>>
  /\ call.of = "size" => call.result = call.argument

\* The text of bytes, read two digits at a time, gives the bytes back, as far as there
\* is room; an address is made of the digits only, in their order.
DigitsComeBack ==
  /\ call.of = "hexcode" =>
       /\ Len(call.result) < call.room /\ Len(call.result) % 2 = 0
       /\ Len(call.result) = 2 * Len(call.argument) \/ Len(call.result) + 3 > call.room
       /\ \A i \in 1 .. Len(call.result) \div 2 :
            SubSeq(call.result, 2 * i - 1, 2 * i) = ByteText(call.argument[i])
  /\ call.of = "decode" =>
       /\ Len(call.result) < call.room /\ \A i \in 1 .. Len(call.result) : call.result[i] \in 0 .. 9
       /\ \A k \in 2 .. Len(call.argument) :
            (\A i \in 2 .. k : call.argument[i][1] <= 9 /\ call.argument[i][2] <= 9) /\ 2 * (k - 1) < call.room =>
              SubSeq(call.result, 2 * k - 3, 2 * k - 2) = call.argument[k]

\* A sentence that is sent whole is accepted by who sums it up, and is not when one
\* of its characters was changed.
ChecksumHolds ==
  call.of = "checksum" =>
    LET sentence == call.argument
        sum(s)   == FoldLeft(LAMBDA a, c : a ^^ c, 0, Tail(s))
    IN /\ call.room > call.result.length => call.result.written = 5
       /\ sum(sentence) = call.result.sum
       /\ \A i \in 2 .. Len(sentence), c \in Letters :
            c # sentence[i] => sum([sentence EXCEPT ![i] = c]) # call.result.sum

TextInv == SplitsAtDelimiters /\ TrimsTheEdges /\ SizesComeBack /\ DigitsComeBack /\ ChecksumHolds

\* loc_misc_utils.h promises that leading and trailing blanks are gone, which a text
\* of blanks only does not keep.
BlanksAreTrimmed == call.of = "trim" => call.result = <<>> \/ " " \notin {Head(call.result), Last(call.result)}

\* The length of a sentence without room for its checksum is more than was written.
LengthIsWritten == call.of = "checksum" => call.result.length = Len(call.argument) + call.result.written

=============================================================================
