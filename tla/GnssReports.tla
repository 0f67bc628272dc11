------------------------------ MODULE GnssReports ------------------------------
(***************************************************************************)
(* Positions and satellites on their way to the framework: which of them   *)
(* the framework is told (LocEngReportPosition and LocEngReportSv, in      *)
(* loc_eng.cpp) and the NMEA sentences made of them (loc_eng_nmea.cpp).    *)
(*                                                                         *)
(* The handlers run on the LocEng thread, one message after the other.  A  *)
(* position says which satellites it used; the next satellite report marks *)
(* those; the marks are kept for the sentences of the next position.  A    *)
(* bit mask is the set of its bits, numbered from 1, and an int has        *)
(* IntWidth of them.  A sentence is a record of what it says of satellites *)
(* and of the kind of fix; times, coordinates and checksums are left out,  *)
(* as are formatting errors, which 200 bytes leave no room for.            *)
(***************************************************************************)
EXTENDS Integers, SequencesExt

CONSTANTS
  Views,       \* satellites a report may list: sequences of [of, svid, used]
  UsedLists,   \* satellites a position may have used: sets by constellation
  IntWidth,    \* bits of an int (32)
  MaskWidth,   \* bits of a mask of used satellites (64)
  GsaRoom,     \* satellites that a GSA sentence names (12)
  GsvRoom,     \* satellites that a GSV sentence describes (4)
  GenerateNmea, IntermediateFix   \* of gps.conf

ASSUME ReportsAssumption ==
  /\ IntWidth \in Nat \ {0} /\ MaskWidth \in Nat /\ IntWidth < MaskWidth
  /\ GsaRoom \in Nat /\ GsvRoom \in Nat \ {0}
  /\ GenerateNmea \in BOOLEAN /\ IntermediateFix \in BOOLEAN

Constellations == {"GPS", "GLONASS", "BEIDOU", "GALILEO", "QZSS"}
Masked == {"GPS", "GLONASS"}

\* GPS and GLONASS have as many satellites as an int has bits: GPS_SV_PRN_MIN and
\* _MAX, GLO_SV_PRN_MIN and _MAX.
ASSUME SatellitesAssumption ==
  /\ \A view \in Views :
       /\ view \in Seq([of : Constellations, svid : Nat, used : BOOLEAN])
       /\ \A i \in DOMAIN view : view[i].of \in Masked => view[i].svid \in 1 .. IntWidth
  /\ \A ids \in UsedLists :
       /\ DOMAIN ids = Constellations
       /\ \A c \in Constellations : ids[c] \subseteq Nat /\ (c \in Masked => ids[c] \subseteq 1 .. IntWidth)

VARIABLES
  muted,        \* mute_session_state is IN_SESSION
  inSession,    \* isInSession()
  standalone,   \* is the position mode STANDALONE?
  usedIds,      \* mGnssSvIdUsedInPosition
  usedAvail,    \* mGnssSvIdUsedInPosAvail
  usedMask,     \* gps_used_mask and glo_used_mask
  dop,          \* are pdop, hdop and vdop cached?
  sent,         \* the sentences of the last handler
  told,         \* history: the satellites last told to the framework
  fix,          \* history: the used satellites when they were told
  named,        \* history: how often a GSA has named a satellite since then
  dopped        \* history: how many positions have used the cached DOP

reportsVars == <<muted, inSession, standalone, usedIds, usedAvail, usedMask, dop, sent, told, fix, named, dopped>>

NoneUsed == [c \in Constellations |-> {}]
Unmarked == [c \in Masked |-> {}]
Statuses == {"FAILURE", "INTERMEDIATE", "SUCCESS"}

\* What a loop over s picks: the entries at the places in S.
Picked(s, S) ==
  LET picked[n \in 0 .. Len(s)] ==
        IF n = 0 THEN <<>> ELSE IF n \in S THEN Append(picked[n - 1], s[n]) ELSE picked[n - 1]
  IN picked[Len(s)]

\* The loop up a mask.
Ascending(S) == Picked([i \in 1 .. IntWidth |-> i], S)

Positions ==
  [status : Statuses, satellites : BOOLEAN, inaccurate : BOOLEAN, ids : UsedLists \cup {NoneUsed},
   latLong : BOOLEAN, dop : BOOLEAN, timed : BOOLEAN]

ReportsTypeOK ==
  /\ muted \in BOOLEAN /\ inSession \in BOOLEAN /\ standalone \in BOOLEAN
  /\ usedIds \in UsedLists \cup {NoneUsed} /\ usedAvail \in BOOLEAN
  /\ usedMask \in [Masked -> SUBSET (1 .. IntWidth)]
  /\ dop \in BOOLEAN /\ named \in [Masked -> [1 .. IntWidth -> 0 .. 2]] /\ dopped \in 0 .. 2

ReportsInit ==
  /\ muted = FALSE /\ inSession = FALSE /\ standalone \in BOOLEAN
  /\ usedIds = NoneUsed /\ usedAvail = FALSE /\ usedMask = Unmarked /\ dop = FALSE
  /\ sent = <<>> /\ told = <<>> /\ fix = NoneUsed
  /\ named = [c \in Masked |-> [i \in 1 .. IntWidth |-> 0]] /\ dopped = 0

-----------------------------------------------------------------------------
(* Satellites. *)

\* Slip: a bit too far.
ShiftedFromZero(svid) == IF svid < IntWidth THEN {{svid + 1}} ELSE {{}}

\* What "1 << (svid - 1)" may be as a mask: the sign bit is extended, and what a
\* shift by the width and more gives is up to the processor.
Shifted(svid) ==
  CASE svid < IntWidth -> {{svid}}
    [] svid = IntWidth -> {IntWidth .. MaskWidth}
    [] OTHER           -> {{}, {svid - IntWidth}}

\* USED_IN_FIX of the satellites of a view, for the used satellites that are known.
Marks(view) ==
  {marks \in [1 .. Len(view) -> BOOLEAN] :
     \A i \in 1 .. Len(view) : \E bit \in Shifted(view[i].svid) :
       marks[i] <=> bit \cap usedIds[view[i].of] # {}}

Marked(view, marks) == [i \in 1 .. Len(view) |-> [view[i] EXCEPT !.used = marks[i]]]

\* Satellites that "are none of the masks" have no list of used ones.
InView(view, c) == Picked(view, {i \in DOMAIN view : view[i].of = c})
UsedIn(view, c) == {sv.svid : sv \in {view[i] : i \in {j \in 1 .. Len(view) : view[j].of = c /\ view[j].used}}}

\* Slip: only full sentences.
FullSentences(n) == n \div GsvRoom

\* count/4 + (count % 4 != 0)
SentenceCount(n) == n \div GsvRoom + (IF n % GsvRoom # 0 THEN 1 ELSE 0)

\* The GSV sentences of a constellation, in order; a blank one if it has none.
Gsv(view, c) ==
  LET svs == InView(view, c)
      n   == SentenceCount(Len(svs))
      Part(k) == SubSeq(svs, (k - 1) * GsvRoom + 1, IF k * GsvRoom < Len(svs) THEN k * GsvRoom ELSE Len(svs))
      Sentence(of, k, total, part) ==
        [type |-> "GSV", of |-> c, sentences |-> of, number |-> k, total |-> total, svs |-> part]
  IN IF svs = <<>> THEN <<Sentence(1, 1, 0, <<>>)>>
     ELSE [k \in 1 .. n |-> Sentence(n, k, Len(svs), Part(k))]

\* loc_eng_nmea_generate_sv()
GenerateSv(view, hasDop) ==
  /\ sent' = Gsv(view, "GPS") \o Gsv(view, "GLONASS")
  /\ usedMask' = [c \in Masked |-> UsedIn(view, c)]
  /\ dop' = hasDop

\* LocEngReportSv
ReportSv(view, hasDop) ==
  /\ ~muted
  /\ \E marks \in IF usedAvail THEN Marks(view) ELSE {[i \in 1 .. Len(view) |-> view[i].used]} :
       /\ told' = Marked(view, marks)
       /\ IF GenerateNmea
            THEN GenerateSv(told', hasDop)
            ELSE sent' = <<>> /\ UNCHANGED <<usedMask, dop>>
  /\ fix' = IF usedAvail THEN usedIds ELSE NoneUsed
  /\ named' = [c \in Masked |-> [i \in 1 .. IntWidth |-> 0]] /\ dopped' = 0
  /\ UNCHANGED <<muted, inSession, standalone, usedIds, usedAvail>>

-----------------------------------------------------------------------------
(* Positions. *)

\* location_cb of a position: a failure, a final fix of a useful technology, or
\* anything that is accurate enough if intermediate fixes are wanted.
Accepted(p) ==
  \/ p.status = "FAILURE"
  \/ p.status = "SUCCESS" /\ p.satellites
  \/ IntermediateFix /\ ~p.inaccurate

FixType(n) == IF n = 0 THEN 1 ELSE IF n <= 3 THEN 2 ELSE 3

\* GPGSA, or GNGSA for GLONASS.
Gsa(c, hasDop) ==
  LET svs == Ascending(usedMask[c])
      n   == IF Len(svs) < GsaRoom THEN Len(svs) ELSE GsaRoom
  IN [type |-> "GSA", of |-> c, fixType |-> FixType(Len(svs)), svs |-> SubSeq(svs, 1, n), dop |-> hasDop]

Indicator(p, none, alone, differential) ==
  IF ~p.latLong THEN none ELSE IF standalone THEN alone ELSE differential

Vtg(p) == [type |-> "VTG", mode |-> Indicator(p, "N", "A", "D")]
Rmc(p) == [type |-> "RMC", valid |-> TRUE, mode |-> Indicator(p, "N", "A", "D")]
Gga(p, hasDop) ==
  [type |-> "GGA", quality |-> Indicator(p, 0, 1, 2), count |-> Cardinality(usedMask["GPS"]), dop |-> hasDop]

Blank ==
  << [type |-> "GSA", of |-> "GPS", fixType |-> 1, svs |-> <<>>, dop |-> FALSE],
     [type |-> "GSA", of |-> "GLONASS", fixType |-> 1, svs |-> <<>>, dop |-> FALSE],
     [type |-> "VTG", mode |-> "N"],
     [type |-> "RMC", valid |-> FALSE, mode |-> "N"],
     [type |-> "GGA", quality |-> 0, count |-> 0, dop |-> FALSE] >>

\* How often the sentences have now named a satellite.
Names(sentences) ==
  [c \in Masked |-> [i \in 1 .. IntWidth |->
     named[c][i] + Cardinality({k \in 1 .. Len(sentences) :
       sentences[k].type = "GSA" /\ sentences[k].of = c /\ i \in Range(sentences[k].svs)})]]

\* Slip: the masks are not cleared.
GenerateAgain(p, generate) ==
  LET hasDop == p.dop \/ dop
      sentences == IF generate
        THEN << Gsa("GPS", hasDop), Gsa("GLONASS", hasDop), Vtg(p), Rmc(p), Gga(p, hasDop) >> ELSE Blank
  IN /\ sent' = sentences /\ UNCHANGED usedMask
     /\ dop' = FALSE
     /\ named' = Names(sentences) /\ dopped' = dopped + (IF generate /\ ~p.dop /\ dop THEN 1 ELSE 0)

\* loc_eng_nmea_generate_pos() clears the masks that it has used, and the DOP in
\* any case, unless it cannot tell the time.
GeneratePos(p, generate) ==
  LET hasDop == p.dop \/ dop
      sentences == IF generate
        THEN << Gsa("GPS", hasDop), Gsa("GLONASS", hasDop), Vtg(p), Rmc(p), Gga(p, hasDop) >> ELSE Blank
  IN IF ~p.timed
       THEN sent' = <<>> /\ UNCHANGED <<usedMask, dop, named, dopped>>
       ELSE /\ sent' = sentences
            /\ usedMask' = IF generate THEN Unmarked ELSE usedMask
            /\ dop' = FALSE
            /\ named' = Names(sentences)
            /\ dopped' = dopped + (IF generate /\ ~p.dop /\ dop THEN 1 ELSE 0)

\* LocEngReportPosition, outside of single shot sessions (see LocEngSession).
ReportPosition(p) ==
  /\ ~muted
  /\ IF Accepted(p) /\ p.status # "FAILURE" /\ p.ids # NoneUsed
       THEN usedIds' = p.ids /\ usedAvail' = TRUE
       ELSE UNCHANGED <<usedIds, usedAvail>>
  /\ IF GenerateNmea /\ inSession
       THEN GeneratePos(p, Accepted(p) /\ p.status # "FAILURE")
       ELSE sent' = <<>> /\ UNCHANGED <<usedMask, dop, named, dopped>>
  /\ UNCHANGED <<muted, inSession, standalone, told, fix>>

-----------------------------------------------------------------------------
(* Sessions, as far as reports depend on them. *)

StartFix ==
  /\ ~inSession /\ inSession' = TRUE
  /\ UNCHANGED <<muted, standalone, usedIds, usedAvail, usedMask, dop, sent, told, fix, named, dopped>>

\* LocEngStopFix clears the list of used satellites first.
StopFix ==
  /\ inSession /\ inSession' = FALSE
  /\ usedIds' = NoneUsed /\ usedAvail' = FALSE
  /\ UNCHANGED <<muted, standalone, usedMask, dop, sent, told, fix, named, dopped>>

\* LocEngStatus says when.
Mute ==
  /\ muted' = ~muted
  /\ UNCHANGED <<inSession, standalone, usedIds, usedAvail, usedMask, dop, sent, told, fix, named, dopped>>

ReportsNext ==
  \/ \E view \in Views, hasDop \in BOOLEAN : ReportSv(view, hasDop)
  \/ \E p \in Positions : ReportPosition(p)
  \/ StartFix \/ StopFix \/ Mute

ReportsSpec == ReportsInit /\ [][ReportsNext]_reportsVars

-----------------------------------------------------------------------------
(* Properties. *)

Gsas == {k \in 1 .. Len(sent) : sent[k].type = "GSA"}
Gsvs(c) == Picked(sent, {k \in DOMAIN sent : sent[k].type = "GSV" /\ sent[k].of = c})

\* The satellites that the framework is told were used in a fix are those of the
\* last fix it was told of, for the constellations whose numbers an int holds.
FlagsMatchTheFix ==
  \A i \in 1 .. Len(told) :
    fix # NoneUsed /\ told[i].of \in Masked => (told[i].used <=> told[i].svid \in fix[told[i].of])

\* ... and for all of them.  The shift is one of an int: BeiDou and Galileo have
\* numbers beyond its width, and its last bit stands for all the higher ones.
AllFlagsMatchTheFix ==
  \A i \in 1 .. Len(told) : fix # NoneUsed => (told[i].used <=> told[i].svid \in fix[told[i].of])

\* What a satellite report has brought goes into the sentences of one position:
\* a GSA names satellites that the framework was told were used, each once, and
\* the DOP of the report is used once.
UsedOnce ==
  /\ \A k \in Gsas : \A i \in Range(sent[k].svs) : i \in UsedIn(told, sent[k].of)
  /\ \A c \in Masked, i \in 1 .. IntWidth : named[c][i] <= 1
  /\ dopped <= 1

\* The GSV sentences of a report describe every satellite of their constellation
\* once, in its order, and agree about how many sentences and satellites there
\* are.
EverySatelliteInView ==
  \A c \in Masked :
    LET s == Gsvs(c) IN
    s # <<>> =>
      /\ FlattenSeq([k \in 1 .. Len(s) |-> s[k].svs]) = InView(told, c)
      /\ \A k \in 1 .. Len(s) :
           /\ s[k].sentences = Len(s) /\ s[k].number = k /\ s[k].total = Len(InView(told, c))
           /\ Len(s[k].svs) <= GsvRoom

\* What the framework is told of the satellites, and what the sentences of a report
\* and of the position after it say.
SentencesInv == ReportsTypeOK /\ FlagsMatchTheFix /\ UsedOnce /\ EverySatelliteInView

=============================================================================
