----------------------------- MODULE MCUtilities -----------------------------
(***************************************************************************)
(* Components that do not share state, checked in one run: its subject is  *)
(* the one that moves.                                                     *)
(***************************************************************************)
EXTENDS LocHeap, SubscriberList, GnssReports, Assistance, LocEngDmnConn, LocCfg, InputDisabler, Wrappers, LocHal,
        TextHelpers

CONSTANTS e1, e2, e3

MCElements == {e1, e2, e3}

\* Seven timers, some of them due at the same time.
MCRankables == 1..7
MCRank == [d \in MCRankables |-> d \div 2]

\* What the modem sees: nothing; as many satellites as two GSA and two GSV
\* sentences name, none or some used; constellations mixed, some with numbers
\* beyond the width of an int.
Sv(c, i, u) == [of |-> c, svid |-> i, used |-> u]
Gps(S) == [i \in 1..5 |-> Sv("GPS", i, i \in S)]
MCViews ==
  { <<>>, Gps({}), Gps({1, 2, 4, 5}),
    << Sv("GPS", 5, TRUE), Sv("GLONASS", 2, TRUE), Sv("GPS", 1, FALSE),
       Sv("BEIDOU", 6, TRUE), Sv("GALILEO", 5, FALSE), Sv("GLONASS", 5, FALSE) >>,
    << Sv("QZSS", 1, TRUE), Sv("GLONASS", 1, TRUE), Sv("GLONASS", 2, FALSE),
       Sv("GLONASS", 3, TRUE), Sv("GLONASS", 4, FALSE), Sv("BEIDOU", 1, TRUE) >> }

\* What a position was made of.
UsedIn4(gps, glonass, beidou, galileo) ==
  ("GPS" :> gps) @@ ("GLONASS" :> glonass) @@ ("BEIDOU" :> beidou) @@ ("GALILEO" :> galileo) @@ ("QZSS" :> {})
MCUsed == { UsedIn4(1..5, {2, 5}, {}, {6}), UsedIn4({5}, {1, 3}, {1}, {}), UsedIn4({}, {}, {6}, {5}) }

\* XTRA servers: of the modem, which may name none and names some that are left out, and
\* of gps.conf.
MCUrls == {"u1", "u2", "u3", "u4", "bad"}
MCRefused == {"bad"}
MCAnswers == { <<"u1", "u2", "u3">>, <<"bad", "u1", "bad">>, <<"", "u2", "bad">> }
MCConfigured == <<"", "u4", "">>

\* What the daemons send: requests and releases of both machines' interfaces, for one
\* address or another, for Wi-Fi, of nobody, out of turn and broken.
Msg(k, s, t, a) == [kind |-> k, sender |-> s, type |-> t, address |-> a]
MCDmnMessages ==
  { Msg("REQUEST", "DAEMON", "SUPL", 1), Msg("REQUEST", "DAEMON", "SUPL", 2), Msg("RELEASE", "DAEMON", "SUPL", 1),
    Msg("REQUEST", "DAEMON", "ANY", 1), Msg("RELEASE", "DAEMON", "ANY", 1),
    Msg("REQUEST", "QUIPC", "WIFI", 1), Msg("REQUEST", "OTHER", "SUPL", 1), Unblocks, Broken }

\* Lines of gps.conf, of the engine's table and of the logging's.
Ln(n, v) == [name |-> n, value |-> v]
MCLines == { Ln("GPS_LOCK", "7"), Ln("GPS_LOCK", "0x10"), Ln("XTRA_SERVER_1", "NULL"), Ln("RANDOM_WALK", "7"), Ln("DEBUG_LEVEL", "0x10") }
MCTable == ("GPS_LOCK" :> "n") @@ ("XTRA_SERVER_1" :> "s") @@ ("RANDOM_WALK" :> "f")
MCLogTable == "DEBUG_LEVEL" :> "n"
MCPlatforms ==
  { [baseband |-> "msm", hw_platform |-> "MTP", soc_id |-> "142", mdm |-> FALSE],
    [baseband |-> "apq", hw_platform |-> "QRD", soc_id |-> "130", mdm |-> FALSE],
    [baseband |-> "msm", hw_platform |-> "QRD", soc_id |-> "142", mdm |-> FALSE] }

\* Parameters of the camera: with a sensitivity, an empty value, a value with "=", a
\* name without one and a name given twice.
MCTexts ==
  { <<"iso", "=", "ISO100", ";", "recording-hint", "=", "true", ";", "scene", ";", "focus", "=", "auto", "=", "more", ";", "flash", "=", ";", "scene", "=", "party">> }

\* The capabilities of gps.conf, and updates that drop and that name an assisted mode.
MCFileCaps == {"SCHEDULING", "MSA", "MSB", "GEOFENCING"}
MCUpdateCaps == {{"SCHEDULING"}, {"SCHEDULING", "MSB"}}

\* Phones: properties with separators and codes, some longer than their room; serial
\* numbers with blanks, of blanks only, missing and with a separator.
Phone(r, m, o, b, n, s) == [release |-> r, manufacturer |-> m, model |-> o, board |-> b, brand |-> n, serial |-> s]
MCDevices ==
  { Phone(<<"6">>, <<"s", "/", "+">>, <<"a", " ", "5">>, <<"-">>, <<"a", "b", "%">>, <<"7", " ", "\n">>),
    Phone(<<"7", "|">>, <<"a", "/", "/">>, <<"%", "/">>, <<"a", "a", "a", "a", "a", "a">>, <<"+", " ">>, NoSerial),
    Phone(<<"8">>, <<"a">>, <<"a">>, <<"a">>, <<"a">>, <<"/", "\n">>),
    Phone(<<"9">>, <<"a">>, <<"a">>, <<"a">>, <<"a">>, <<" ", "\n">>) }

\* Black, a color too weak for the backlight, one brighter in one part and not in all, white.
MCColors == {<<0, 0, 0>>, <<0, 0, 8>>, <<9, 0, 254>>, <<255, 255, 255>>}

\* Sizes with a zero, and with two and three digits.
MCSizes == {<<0, 7>>, <<12, 340>>, <<100, 1>>}

VARIABLE subject

\* One initial state of a component where another moves.
MCInit ==
  /\ subject \in {"heap", "subscribers", "reports", "assist", "daemon", "files", "target", "input", "camera", "hal", "agent", "helpers", "texts"}
  /\ HeapInit /\ SubsInit /\ ReportsInit /\ AssistInit /\ DmnInit /\ CfgInit /\ InputInit /\ CameraInit /\ HalInit
  /\ AgentInit /\ HelpersInit /\ TextInit
  /\ standalone => subject = "reports"
  /\ extended.cpi \/ extended.xtra \/ extended.agps => subject = "assist"
  /\ extended.agps => ~extended.cpi /\ ~extended.xtra
  /\ qca1530 # "no" => subject = "target"
  /\ doubleTap => subject = "input"
  /\ gnss # "NONE" \/ extendedAgps => subject = "hal"
  /\ phone.release # <<"6">> \/ folder # "there" => subject = "agent"

MCNext ==
  /\ UNCHANGED subject
  /\ \/ subject = "heap" /\ HeapNext
     \/ UNCHANGED heapVars /\ subject # "heap"
  /\ \/ subject = "subscribers" /\ SubsNext
     \/ UNCHANGED subsVars /\ subject # "subscribers"
  /\ \/ subject = "reports" /\ ReportsNext
     \/ UNCHANGED reportsVars /\ subject # "reports"
  /\ \/ subject = "assist" /\ AssistNext
     \/ UNCHANGED assistVars /\ subject # "assist"
  /\ \/ subject = "daemon" /\ DmnNext
     \/ UNCHANGED dmnVars /\ subject # "daemon"
  /\ \/ subject = "files" /\ ConfNext
     \/ subject = "target" /\ TargetNext
     \/ UNCHANGED cfgVars /\ subject \notin {"files", "target"}
  /\ \/ subject = "input" /\ InputNext
     \/ UNCHANGED inputVars /\ subject # "input"
  /\ \/ subject = "camera" /\ CameraNext
     \/ UNCHANGED cameraVars /\ subject # "camera"
  /\ \/ subject = "hal" /\ HalNext
     \/ UNCHANGED halVars /\ subject # "hal"
  /\ \/ subject = "agent" /\ AgentNext
     \/ UNCHANGED agentVars /\ subject # "agent"
  /\ \/ subject = "helpers" /\ HelpersNext
     \/ UNCHANGED helperVars /\ subject # "helpers"
  /\ \/ subject = "texts" /\ TextNext
     \/ UNCHANGED call /\ subject # "texts"

MCSpec == MCInit /\ [][MCNext]_<<subject, heapVars, subsVars, reportsVars, assistVars, dmnVars, cfgVars, inputVars, cameraVars,
                         halVars, agentVars, helperVars, call>>

\* Invariants that take long to evaluate are looked at while their component moves:
\* what rests is in an initial state.

\* What is passed on as text: a camera's settings on their way to the vendor
\* (CameraWrapper); and the helpers that take texts apart and put them together
\* (TextHelpers).
TextsHold ==
  /\ subject = "camera" => SettingsReachVendor
  /\ subject = "texts" => TextInv
=============================================================================
