--------------------------- MODULE XtraUserAgent ---------------------------
(***************************************************************************)
(* How the device names itself to the XTRA servers                         *)
(* (LocEngAdapter::setXtraUserAgent()): a line of fields between slashes,  *)
(* put together and saved on the LocEng thread at every loc_init(), for a  *)
(* client in another process that reads the file when it likes.            *)
(*                                                                         *)
(* A text is a sequence of characters; only separators, blanks and codes   *)
(* matter.                                                                 *)
(***************************************************************************)
EXTENDS Naturals, SequencesExt, FiniteSetsExt

CONSTANTS
  Devices,      \* records of texts: release, manufacturer, model, board, brand (as
                \* property_get() gives them: "-" for one that is not set), serial
  PropertyMax,  \* PROPERTY_VALUE_MAX
  AgentMax      \* USER_AGENT_MAX_LEN

NoSerial == <<>>    \* the file of the serial number is missing or empty

ASSUME AgentAssumption ==
  /\ PropertyMax \in Nat \ {0} /\ AgentMax \in Nat \ {0}
  /\ \A d \in Devices : /\ {d.release, d.manufacturer, d.model, d.board, d.brand} \subseteq Seq(STRING)
                       /\ d.serial \in Seq(STRING)

VARIABLES
  phone,       \* what the properties say; an update of the software changes it
  folder,       \* XTRA_FOLDER: "missing", "there", "invalid"
  file,         \* USER_AGENT_FILE: <<>> if there is none, else <<its text>>
  private,      \* is its mode 0600?
  saving,       \* where saveUserAgentString() is
  agent,        \* what it saves
  lately,       \* history: how the last save ended
  whole         \* history: agents that were saved to the end

agentVars == <<phone, folder, file, private, saving, agent, lately, whole>>

-----------------------------------------------------------------------------
(* Texts. *)

Blanks == {" ", "\n"}

Specials == {"/", "+", "|", "%"}
Hex(ch)  == CASE ch = "/" -> "2F" [] ch = "+" -> "2B" [] ch = "|" -> "7C" [] ch = "%" -> "25"
Code(ch) == IF ch \in Specials THEN <<"%", Hex(ch)>> ELSE <<ch>>
Encoding(text) == FlattenSeq([k \in 1 .. Len(text) |-> Code(text[k])])

\* A code takes three characters, two of them in "2F" and its like.
Size(text) == Len(text) + Quantify(DOMAIN text, LAMBDA k : text[k] \in {"2F", "2B", "7C", "25"})

\* The beginning of a text that there is room for, with the terminator.
Fitting(text, room) == SubSeq(text, 1, Max({n \in 0 .. Len(text) : Size(SubSeq(text, 1, n)) < room}))

\* Slip: a code is cut where the room ends.
EncodeCutting(text) == Fitting(Encoding(text), PropertyMax)

\* encodeInPlace() stops before the first character whose code does not fit.
EncodeInPlace(text) ==
  LET Fits(n) == Size(Encoding(SubSeq(text, 1, n))) < PropertyMax
  IN Encoding(SubSeq(text, 1, Max({n \in 0 .. Len(text) : Fits(n)})))

\* Slip: only the last blank goes.
SerialWithBlanks(serial) ==
  IF serial # <<>> /\ Last(serial) \in Blanks THEN Front(serial) ELSE serial

\* getChipsetSerialNo(): the blanks at its end go, all of it if it has only blanks
\* (the loop then reads on in front of the buffer, as "--len >= 0" always holds).
ChipsetSerialNo(serial) ==
  IF serial = NoSerial THEN <<"-">>
  ELSE SubSeq(serial, 1, Max({0} \cup {k \in DOMAIN serial : serial[k] \notin Blanks}))

\* The arguments of snprintf().
AgentFields(d) ==
  << <<"A">>, EncodeInPlace(d.release), EncodeInPlace(d.manufacturer), EncodeInPlace(d.model), EncodeInPlace(d.board),
     <<"-">>, <<"QCX3">>, <<"s1">>, <<"-">>, ChipsetSerialNo(d.serial), <<"-">>, EncodeInPlace(d.brand),
     <<"-">>, <<"-">>, <<"-">> >>

Slashed(fields) == Front(FlattenSeq([k \in 1 .. Len(fields) |-> fields[k] \o <<"/">>]))
Hashed(text)   == [k \in DOMAIN text |-> IF text[k] = " " THEN "#" ELSE text[k]]

\* What snprintf() leaves, with "#" for blanks.
UserAgent(d) == Hashed(Fitting(Slashed(AgentFields(d)), AgentMax))

-----------------------------------------------------------------------------
(* Saving. *)

AgentInit ==
  /\ phone \in Devices
  /\ folder \in {"missing", "there", "invalid"}
  /\ file = <<>> /\ private = FALSE /\ saving = "no" /\ agent = <<>>
  /\ lately = "never" /\ whole = {}

Fail == saving' = "no" /\ lately' = "failed"

\* The message of loc_init() is worked off.
SetXtraUserAgent ==
  /\ saving = "no" /\ saving' = "folder" /\ agent' = UserAgent(phone)
  /\ UNCHANGED <<phone, folder, file, private, lately, whole>>

\* stat() and mkdir()
MakeFolder ==
  /\ saving = "folder"
  /\ \/ folder = "there" /\ saving' = "open" /\ UNCHANGED <<folder, lately>>
     \/ folder = "missing" /\ folder' = "there" /\ saving' = "open" /\ UNCHANGED lately
     \/ folder # "there" /\ Fail /\ UNCHANGED folder
  /\ UNCHANGED <<phone, file, private, agent, whole>>

\* Slip: the new text goes over the old one.
OpenKeepingText ==
  /\ saving = "open" /\ saving' = "write"
  /\ file' = IF file = <<>> THEN << <<>> >> ELSE file
  /\ UNCHANGED <<phone, folder, private, agent, lately, whole>>

\* fopen() empties a file that is there; one that it makes is readable as the mask
\* of the process has it.
OpenFile ==
  /\ saving = "open"
  /\ \/ saving' = "write" /\ file' = << <<>> >> /\ UNCHANGED lately
     \/ Fail /\ UNCHANGED file
  /\ UNCHANGED <<phone, folder, private, agent, whole>>

Over(text, old) == text \o SubSeq(old, Len(text) + 1, Len(old))

\* fwrite() and fclose(): the storage may be full.
WriteFile ==
  /\ saving = "write"
  /\ \E n \in 0 .. Len(agent) :
       /\ n \in {0, Len(agent) \div 2, Len(agent)}
       /\ file' = << Over(SubSeq(agent, 1, n), file[1]) >>
       /\ saving' = IF n = Len(agent) THEN "chmod" ELSE "short"
  /\ UNCHANGED <<phone, folder, private, agent, lately, whole>>

\* chmod() whatever was written.
SetMode ==
  /\ saving \in {"chmod", "short"} /\ saving' = "no"
  /\ private' = TRUE
  /\ lately' = IF saving = "chmod" THEN "saved" ELSE "failed"
  /\ whole' = IF saving = "chmod" THEN whole \cup {agent} ELSE whole
  /\ UNCHANGED <<phone, folder, file, agent>>

\* The device restarts, at any moment, maybe with other software.
Reboot ==
  /\ saving' = "no" /\ lately' = IF saving = "no" THEN lately ELSE "failed"
  /\ phone' \in Devices
  /\ UNCHANGED <<folder, file, private, agent, whole>>

AgentNext == SetXtraUserAgent \/ MakeFolder \/ OpenFile \/ WriteFile \/ SetMode \/ Reboot

AgentSpec == AgentInit /\ [][AgentNext]_agentVars

-----------------------------------------------------------------------------
(* Properties. *)

\* What the server makes of a field and of the line.
CharacterAt(text, n) ==
  IF n > 1 /\ text[n - 1] = "%" THEN CHOOSE ch \in Specials : Hex(ch) = text[n] ELSE text[n]

Decode(text) ==
  LET decoded[n \in 0 .. Len(text)] ==
        IF n = 0 THEN <<>>
        ELSE IF text[n] # "%" THEN Append(decoded[n - 1], CharacterAt(text, n))
        ELSE IF n < Len(text) THEN decoded[n - 1] ELSE Append(decoded[n - 1], "?")
  IN decoded[Len(text)]

Fields(text) ==
  LET ends == {k \in DOMAIN text : text[k] = "/"} \cup {0, Len(text) + 1}
      End(i) == CHOOSE k \in ends : Cardinality({j \in ends : j < k}) = i
  IN [i \in 1 .. Cardinality(ends) - 1 |-> SubSeq(text, End(i - 1) + 1, End(i) - 1)]

\* The server finds fifteen fields in a line that was not cut, whatever the
\* properties hold, and reads the beginning of each property out of its field, the
\* whole of it if its encoding had room.  (The serial number is not encoded.)
FieldsAreRead ==
  saving # "no" =>
    LET fields == Fields(agent)
        Reads(i, text) ==
          /\ IsPrefix(Decode(fields[i]), Hashed(text))
          /\ Size(Encoding(text)) < PropertyMax => Decode(fields[i]) = Hashed(text)
    IN Size(agent) < AgentMax - 2 /\ {"/", "#"} \cap Range(phone.serial) = {} =>
         /\ Len(fields) = 15
         /\ Reads(2, phone.release) /\ Reads(3, phone.manufacturer) /\ Reads(4, phone.model)
         /\ Reads(5, phone.board) /\ Reads(12, phone.brand)
         /\ fields[10] = <<>> \/ Last(fields[10]) \notin Blanks \cup {"#"}

\* The file holds the beginning of one line, never parts of two, and all of a line,
\* readable by its owner only, once a save has ended well and no other has begun.
FileHoldsOneLine ==
  /\ file # <<>> => \E d \in Devices : IsPrefix(file[1], UserAgent(d))
  /\ lately = "saved" /\ saving \in {"no", "folder", "open"} => file # <<>> /\ file[1] \in whole /\ private

AgentInv == FieldsAreRead /\ FileHoldsOneLine

\* Who has once saved a line has one ever after: not so, as the old one goes before
\* the new one is there.
LineIsNotLost == whole # {} => file[1] \in whole

=============================================================================
