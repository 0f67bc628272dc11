-------------------------------- MODULE LocCfg --------------------------------
(***************************************************************************)
(* Configuration files and the kind of the device: loc_cfg.cpp and         *)
(* loc_target.cpp.                                                         *)
(*                                                                         *)
(* A file or an update is a sequence of lines; a line names a parameter    *)
(* and gives it a value, or is Junk, which says nothing.  One table is the *)
(* caller's, the other, of the logging, is loc_cfg.cpp's own.  num_params  *)
(* is unsigned and wraps at Width.                                         *)
(***************************************************************************)
EXTENDS Integers, Sequences, FiniteSets

CONSTANTS
  Table,        \* the caller's: from names to types "n", "s", "f"
  LogTable,     \* the one of the logging
  Lines,        \* lines that may be in a text
  MaxLines,     \* bound: lines of a text
  Width,        \* bound: values of an unsigned number
  Platforms,    \* kinds of devices
  Timeout,      \* QCA1530_DETECT_TIMEOUT
  Unset         \* the default of a parameter

ASSUME CfgAssumption ==
  /\ DOMAIN Table \cap DOMAIN LogTable = {}
  /\ IsFiniteSet(DOMAIN Table) /\ IsFiniteSet(DOMAIN LogTable)
  /\ MaxLines \in Nat /\ Width \in Nat /\ Timeout \in Nat \ {0}
  /\ Cardinality(DOMAIN Table) < Width /\ Cardinality(DOMAIN LogTable) < Width

VARIABLES
  text,         \* the file or the update that is read
  job,          \* "idle", "file", "log" (the second pass over a file), "update"
  at,           \* lines of the text already read
  num_params,
  config,       \* values of the parameters of both tables
  param_set,    \* parameters marked as set
  clean,        \* history: the marks and values when the job began
  polls,        \* of the property of the QCA1530 in this call
  qca1530,      \* the property
  gTarget,      \* Unknown until it is found out
  answers       \* history: what loc_get_target() has returned

cfgVars    == <<text, job, at, num_params, config, param_set, clean, polls, qca1530, gTarget, answers>>
targetVars == <<polls, qca1530, gTarget, answers>>

AllNames == DOMAIN Table \cup DOMAIN LogTable
Undetected == "-1"

CfgTypeOK ==
  /\ job \in {"idle", "file", "log", "update"} /\ at \in 0 .. Len(text)
  /\ num_params \in 0 .. Width - 1 /\ param_set \subseteq AllNames
  /\ polls \in 0 .. Timeout

CfgInit ==
  /\ text = <<>> /\ job = "idle" /\ at = 0 /\ num_params = 0
  /\ config = [p \in AllNames |-> Unset] /\ param_set = {} /\ clean = [p \in AllNames |-> Unset]
  /\ polls = 0 /\ qca1530 \in {"yes", "no", "detect"} /\ gTarget = Undetected /\ answers = <<>>

-----------------------------------------------------------------------------
(* loc_cfg.cpp *)

\* loc_set_config_entry() and the numbers of loc_fill_conf_item(): "NULL" is the
\* empty string; a hexadecimal number is none for a parameter of type "f".
Value(type, value) ==
  CASE type = "s" -> IF value = "NULL" THEN "" ELSE value
    [] type = "n" -> IF value = "0x10" THEN 16 ELSE IF value = "7" THEN 7 ELSE 0
    [] OTHER      -> IF value = "7" THEN 7 ELSE 0

\* Does a line set a parameter of a table?
Fills(line, table) == line.name \in DOMAIN table

\* One line: what is named is set, counted and marked.
Fill(line, table) ==
  IF Fills(line, table)
    THEN /\ config' = [config EXCEPT ![line.name] = Value(table[line.name], line.value)]
         /\ param_set' = param_set \cup {line.name}
         /\ num_params' = (num_params - 1 + Width) % Width
    ELSE UNCHANGED <<config, param_set, num_params>>

\* loc_read_conf() begins with the caller's table.
ReadConf(lines) ==
  /\ job = "idle" /\ job' = "file" /\ text' = lines /\ at' = 0
  /\ num_params' = Cardinality(DOMAIN Table)
  /\ param_set' = param_set \ DOMAIN Table /\ clean' = config
  /\ UNCHANGED <<config, targetVars>>

\* loc_update_conf() starts "with one record off", if there is any.
UpdateConf(lines) ==
  /\ job = "idle" /\ lines # <<>> /\ DOMAIN Table # {} /\ job' = "update" /\ text' = lines /\ at' = 0
  /\ num_params' = Cardinality(DOMAIN Table) - 1
  /\ clean' = config
  /\ UNCHANGED <<config, param_set, targetVars>>

ReadLine ==
  /\ job # "idle" /\ at < Len(text) /\ num_params # 0
  /\ at' = at + 1
  /\ Fill(text[at + 1], IF job = "log" THEN LogTable ELSE Table)
  /\ UNCHANGED <<text, job, clean, targetVars>>

\* The file is closed, or the caller's text is let go.
JobEnds ==
  /\ job' = "idle" /\ text' = <<>> /\ at' = 0 /\ num_params' = 0
  /\ clean' = [p \in AllNames |-> Unset]

\* Slip: the file is not rewound.
EndOfReadGoesOn ==
  /\ job # "idle" /\ (at = Len(text) \/ num_params = 0)
  /\ IF job = "file"
       THEN /\ job' = "log" /\ UNCHANGED at /\ num_params' = Cardinality(DOMAIN LogTable)
            /\ param_set' = param_set \ DOMAIN LogTable
            /\ UNCHANGED <<text, clean>>
       ELSE JobEnds /\ UNCHANGED param_set
  /\ UNCHANGED <<config, targetVars>>

\* All parameters are set or the text is over; a file is read again from the
\* start for the table of the logging.
EndOfRead ==
  /\ job # "idle" /\ (at = Len(text) \/ num_params = 0)
  /\ IF job = "file"
       THEN /\ job' = "log" /\ at' = 0 /\ num_params' = Cardinality(DOMAIN LogTable)
            /\ param_set' = param_set \ DOMAIN LogTable
            /\ UNCHANGED <<text, clean>>
       ELSE JobEnds /\ UNCHANGED param_set
  /\ UNCHANGED <<config, targetVars>>

-----------------------------------------------------------------------------
(* loc_target.cpp *)

\* is_qca1530() waits while the detection is in progress, Timeout times.
DetectionEnds ==
  /\ qca1530 = "detect" /\ qca1530' \in {"yes", "no"}
  /\ UNCHANGED <<text, job, at, num_params, config, param_set, clean, polls, gTarget, answers>>

\* What is found where there is no QCA1530; on some boards only with a modem.
Kind(p) ==
  CASE p.baseband = "auto" -> "TARGET_AUTO"
    [] p.baseband = "apq"  -> IF p.soc_id = "130" THEN "TARGET_MPQ" ELSE "TARGET_APQ_SA"
    [] p.hw_platform \in {"Liquid", "Surf", "MTP"} -> IF p.mdm THEN "TARGET_MDM" ELSE Undetected
    [] p.soc_id \in {"142", "116"} -> "TARGET_MSM_NO_SSC"
    [] OTHER -> "TARGET_UNKNOWN"

Returns(target) ==
  /\ gTarget' = target /\ polls' = 0
  /\ answers' = IF Len(answers) < 2 THEN Append(answers, [target |-> target, qca |-> qca1530]) ELSE answers

GetTarget(p) ==
  /\ CASE gTarget # Undetected -> Returns(gTarget)
       [] gTarget = Undetected /\ qca1530 = "yes" -> Returns("TARGET_QCA1530")
       [] gTarget = Undetected /\ qca1530 = "detect" /\ polls + 1 < Timeout -> polls' = polls + 1 /\ UNCHANGED <<gTarget, answers>>
       [] OTHER -> Returns(Kind(p))
  /\ UNCHANGED <<text, job, at, num_params, config, param_set, clean, qca1530>>

\* The two files of the component do not meet.
ConfNext ==
  \/ \E n \in 0 .. MaxLines : \E lines \in [1 .. n -> Lines] : ReadConf(lines) \/ UpdateConf(lines)
  \/ ReadLine \/ EndOfRead

TargetNext == DetectionEnds \/ \E p \in Platforms : GetTarget(p)

CfgSpec == CfgInit /\ [][ConfNext \/ TargetNext]_cfgVars

-----------------------------------------------------------------------------
(* Properties. *)

\* What lines of a text say of a parameter, by the last of those that name it; the
\* value before if none does.
Latest(S) == CHOOSE i \in S : \A j \in S : i >= j
Naming(p, n) == {i \in 1 .. n : text[i].name = p}
SaidBy(lines, p, table) == IF lines = {} THEN clean[p] ELSE Value(table[p], text[Latest(lines)].value)
Said(p, table) == SaidBy(Naming(p, Len(text)), p, table)

Filling(table, n) == {i \in 1 .. n : Fills(text[i], table)}
Hits(table) == Cardinality(Filling(table, Len(text)))

\* A file is taken over whole, both tables of it, as long as it does not name more
\* parameters, repetitions counted, than a table has; the marks say what it named.
FileIsTakenOver ==
  /\ job = "log" /\ Hits(Table) <= Cardinality(DOMAIN Table) =>
       \A p \in DOMAIN Table : config[p] = Said(p, Table) /\ (p \in param_set <=> \E i \in 1 .. Len(text) : text[i].name = p)
  /\ job = "log" /\ at = Len(text) /\ Hits(LogTable) <= Cardinality(DOMAIN LogTable) =>
       \A p \in DOMAIN LogTable : config[p] = Said(p, LogTable)
  /\ job = "log" /\ at < Len(text) /\ num_params = 0 => Hits(LogTable) >= Cardinality(DOMAIN LogTable)

\* An update is taken over whole if it leaves a parameter out.
UpdateIsTakenOver ==
  job = "update" /\ (at = Len(text) \/ num_params = 0) /\ Hits(Table) < Cardinality(DOMAIN Table) =>
    \A p \in DOMAIN Table : config[p] = Said(p, Table)

\* The count of what is left does not wrap, so no read goes past its table.
CountsDown == job # "idle" => num_params <= Cardinality(IF job = "log" THEN DOMAIN LogTable ELSE DOMAIN Table)

\* The kind of the device, once found out, stays; a QCA1530 is neither made up nor,
\* once it is known to be there, overlooked.
TargetIsSettled ==
  /\ Len(answers) = 2 /\ answers[1].target # Undetected => answers[2].target = answers[1].target
  /\ answers # <<>> /\ answers[1].target = "TARGET_QCA1530" => answers[1].qca = "yes"
  /\ answers # <<>> /\ answers[1].qca = "yes" => answers[1].target = "TARGET_QCA1530"

CfgInv == CfgTypeOK /\ FileIsTakenOver /\ UpdateIsTakenOver /\ CountsDown /\ TargetIsSettled

\* An update that names all parameters loses the last of them.
UpdateIsWhole ==
  job = "update" /\ (at = Len(text) \/ num_params = 0) /\ Hits(Table) <= Cardinality(DOMAIN Table) =>
    \A p \in DOMAIN Table : config[p] = Said(p, Table)

\* The detection of the QCA1530 may still be in progress when the answer is
\* given, and the answer is kept.
DetectionIsAwaited == answers # <<>> => answers[1].qca # "detect"

=============================================================================
