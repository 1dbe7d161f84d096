----------------------------- MODULE ConfigYaml -----------------------------
(***************************************************************************)
(* config.yaml and what it means: the writer and the parser of yaml.rs,    *)
(* Config::from_yaml_str and validate of config.rs.                        *)
(*                                                                         *)
(* A document is a sequence of lines, a value on one a number, a flag or a *)
(* text.  Numbers are integers, frequencies in steps of 50 Hz, and read    *)
(* back as they were written.  A text in quotes reads back as it was       *)
(* unless it has a line break (YamlText).  The mode is written bare: blanks *)
(* around it and a comment behind it are lost, quotes come off and a line  *)
(* break in it starts another line (yaml::parse, strip_comment, unquote).  *)
(* What is found where a text was written bare is a parameter.             *)
(***************************************************************************)
EXTENDS Integers, Sequences, FiniteSetsExt

CONSTANTS
    Texts,    \* the strings there are
    Broken,   \* those with a line break
    Trimmed,  \* what str::trim and the page's trim leave of each
    Bare      \* the lines that are read where each was written bare behind "mode: "

(***************************************************************************)
(* Option<T>.                                                              *)
(***************************************************************************)
None == <<>>
Some(x) == <<x>>
Opt(S) == {o \in Seq(S) : Len(o) <= 1}
UnwrapOr(o, default) == IF o = None THEN default ELSE o[1]
Mapped(o, F(_)) == IF o = None THEN None ELSE Some(F(o[1]))

NoText == ""

(***************************************************************************)
(* The types of config.rs, server.rs and sync.rs.                          *)
(***************************************************************************)
Modes == {"usb", "lsb", "am", "nfm", "wfm", "cw", "beacon"}

BeaconConfig == [offset_hz : Int, bandwidth_hz : Int]

(* An address with blanks around it cannot be bound, nor an empty one: the *)
(* config is refused as a whole, or the daemon does not start.             *)
Addresses == {t \in Texts \ {NoText} : Trimmed[t] = t}
HttpConfig == [bind : Addresses]
MicrowavepropConfig ==
    [enabled : BOOLEAN, monitor_token : Texts, beacon_id : Texts,
     gridsquare : Texts, config_version : Nat]
UpdateConfig == [enabled : BOOLEAN, auto : BOOLEAN, check_interval : Nat]

DEFAULT_CHECK_INTERVAL == 3600
MIN_CHECK_INTERVAL == 60
DefaultUpdate == [enabled |-> TRUE, auto |-> TRUE, check_interval |-> DEFAULT_CHECK_INTERVAL]
DefaultBind == "0.0.0.0:5760"
DefaultRate == 5000     \* 250 kHz
MinRate == 5000

Config ==
    [frequency : Int, mode : Modes, driver : Texts, sample_rate : Int, gain : Opt(Int),
     ppm : Int, period_seconds : Nat, beacon : Opt(BeaconConfig), http : HttpConfig,
     microwaveprop : Opt(MicrowavepropConfig), update : UpdateConfig]

(* What stands in for an absent text has no line break and no blanks to    *)
(* trim; trimming a text puts no line break into it.                       *)
Defaults == {NoText, "rtlsdr", DefaultBind}
ASSUME TextsAssumption ==
    /\ Broken \subseteq Texts /\ Modes \cup Defaults \subseteq Texts /\ Broken \cap Defaults = {}
    /\ Trimmed \in [Texts -> Texts] /\ \A t \in Modes \cup Defaults : Trimmed[t] = t
    /\ \A t \in Texts : Trimmed[t] \in Broken => t \in Broken

(***************************************************************************)
(* YamlWriter.  A text is quoted; a number, a flag and the mode are not.   *)
(***************************************************************************)
Number(n) == <<"number", n>>
Flag(b) == <<"flag", b>>
Text(t) == <<"text", t>>

(* The keys that are read.                                                 *)
Scalars == {"frequency", "mode", "sample_rate", "gain", "driver", "ppm", "period_seconds"}
Blocks == {"beacon", "http", "microwaveprop", "update"}
Key ==
    Scalars \cup Blocks \cup {"offset_hz", "bandwidth_hz", "bind", "enabled", "monitor_token",
                             "beacon_id", "gridsquare", "config_version", "auto",
                             "check_interval"}

(* A line somebody may have written, under one of them or another.  What   *)
(* stands under the key of a text is read as one, and a text with a line   *)
(* break in it is not a whole line.                                        *)
TextKeys == {"driver", "bind", "monitor_token", "beacon_id", "gridsquare"}
Written ==
    {line \in [indent : Nat, key : Key \cup Texts, whole : BOOLEAN,
               val : Opt(({"number"} \X Int) \cup ({"flag"} \X BOOLEAN) \cup ({"text"} \X Texts))] :
        line.val # None =>
           /\ line.key \in TextKeys => line.val[1][1] = "text"
           /\ line.val[1][1] = "text" => line.whole = (line.val[1][2] \notin Broken)
           /\ line.key = "bind" => line.val[1][2] \in Addresses}

Line(indent, key, val, whole) == <<[indent |-> indent, key |-> key, val |-> val, whole |-> whole]>>
Scalar(key, v) == Line(0, key, Some(v), TRUE)
String(key, t) == Line(0, key, Some(Text(t)), t \notin Broken)
NestedOpen(key) == Line(0, key, None, TRUE)
NestedScalar(key, v) == Line(2, key, Some(v), TRUE)
NestedString(key, t) == Line(2, key, Some(Text(t)), t \notin Broken)

(* A mode there is reads back as that mode.                                *)
ASSUME BareAssumption ==
    Bare \in [Texts -> Seq(Written)] /\ \A m \in Modes : Bare[m] = Scalar("mode", Text(m))

(***************************************************************************)
(* yaml::parse.                                                            *)
(***************************************************************************)

(* The top-level line an indented one stands under.                        *)
HasParent(doc, i) == \E j \in 1 .. (i - 1) : doc[j].indent = 0
Parent(doc, i) ==
    CHOOSE j \in 1 .. (i - 1) : doc[j].indent = 0 /\ \A k \in (j + 1) .. (i - 1) : doc[k].indent # 0

LineReads(doc, i) ==
    /\ doc[i].indent \in {0, 2}
    /\ doc[i].whole
    /\ doc[i].indent = 2 => /\ HasParent(doc, i)
                            /\ doc[Parent(doc, i)].val = None
                            /\ doc[i].val # None

(* insert_unique.                                                          *)
Duplicate(doc, i, j) ==
    /\ i < j
    /\ doc[i].key = doc[j].key
    /\ doc[i].indent = doc[j].indent
    /\ doc[i].indent = 2 => Parent(doc, i) = Parent(doc, j)

Parses(doc) ==
    /\ \A i \in DOMAIN doc : LineReads(doc, i)
    /\ \A i \in DOMAIN doc, j \in DOMAIN doc : ~Duplicate(doc, i, j)

Top(doc, key) == {i \in DOMAIN doc : doc[i].indent = 0 /\ doc[i].key = key}
Child(doc, block, key) ==
    {i \in DOMAIN doc : doc[i].indent = 2 /\ doc[i].key = key /\ Parent(doc, i) \in Top(doc, block)}

IsScalar(doc, key) == \E i \in Top(doc, key) : doc[i].val # None
IsMap(doc, key) == \E i \in Top(doc, key) : doc[i].val = None

(* What is written under a key, absent or not.                             *)
ScalarAt(doc, lines) == IF lines = {} THEN None ELSE Some(doc[CHOOSE i \in lines : TRUE].val[1][2])
Get(doc, key) == ScalarAt(doc, Top(doc, key))
GetIn(doc, block, key) == ScalarAt(doc, Child(doc, block, key))

(***************************************************************************)
(* Config::from_yaml_str.  Each reader has a default for an absent key.    *)
(***************************************************************************)
ReadScalars(doc) ==
    [frequency |-> Get(doc, "frequency")[1],
     mode |-> Get(doc, "mode")[1],
     sample_rate |-> UnwrapOr(Get(doc, "sample_rate"), DefaultRate),
     gain |-> Get(doc, "gain"),
     driver |-> UnwrapOr(Get(doc, "driver"), "rtlsdr"),
     ppm |-> UnwrapOr(Get(doc, "ppm"), 0),
     period_seconds |-> UnwrapOr(Get(doc, "period_seconds"), 60)]

ReadBeacon(doc) ==
    IF ~IsMap(doc, "beacon") THEN None
    ELSE Some([offset_hz |-> UnwrapOr(GetIn(doc, "beacon", "offset_hz"), 0),
               bandwidth_hz |-> UnwrapOr(GetIn(doc, "beacon", "bandwidth_hz"), 1)])

ReadHttp(doc) == [bind |-> UnwrapOr(GetIn(doc, "http", "bind"), DefaultBind)]

ReadMicrowaveprop(doc) ==
    LET get(key, default) == UnwrapOr(GetIn(doc, "microwaveprop", key), default)
    IN IF ~IsMap(doc, "microwaveprop") THEN None
       ELSE Some([enabled |-> get("enabled", TRUE),
                  monitor_token |-> get("monitor_token", NoText),
                  beacon_id |-> get("beacon_id", NoText),
                  gridsquare |-> get("gridsquare", NoText),
                  config_version |-> get("config_version", 0)])

ReadUpdate(doc) ==
    LET get(key, default) == UnwrapOr(GetIn(doc, "update", key), default)
    IN IF ~IsMap(doc, "update") THEN DefaultUpdate
       ELSE [enabled |-> get("enabled", TRUE),
             auto |-> get("auto", TRUE),
             check_interval |-> get("check_interval", DEFAULT_CHECK_INTERVAL)]

(* The lines that have to hold a number, those of them that have to hold   *)
(* an unsigned one, and those that have to hold a flag.                    *)
NumberLines(doc) ==
    UNION ({Top(doc, key) : key \in Scalars \ {"mode", "driver"}}
           \cup {Child(doc, "beacon", key) : key \in {"offset_hz", "bandwidth_hz"}}
           \cup {Child(doc, "microwaveprop", "config_version"),
                 Child(doc, "update", "check_interval")})
CountLines(doc) ==
    Top(doc, "period_seconds") \cup Child(doc, "microwaveprop", "config_version")
                               \cup Child(doc, "update", "check_interval")
FlagLines(doc) ==
    UNION {Child(doc, "microwaveprop", "enabled"), Child(doc, "update", "enabled"),
           Child(doc, "update", "auto")}

WellTypedAnyMode(doc) ==  \* mutant: any word is a mode
    /\ \A key \in {"frequency", "mode"} : IsScalar(doc, key)
    /\ \A key \in Scalars : ~IsMap(doc, key)
    /\ \A key \in Blocks : ~IsScalar(doc, key)
    /\ \A i \in NumberLines(doc) : doc[i].val[1][1] = "number"
    /\ \A i \in FlagLines(doc) : doc[i].val[1][1] = "flag"
    /\ \A i \in CountLines(doc) : doc[i].val[1][2] >= 0

(* Everything from_yaml_str asks for on the way: the required keys, a      *)
(* scalar where a scalar goes and a block where a block goes, numbers and  *)
(* flags that are such, and a mode there is.                               *)
WellTyped(doc) ==
    /\ \A key \in {"frequency", "mode"} : IsScalar(doc, key)
    /\ \A key \in Scalars : ~IsMap(doc, key)
    /\ \A key \in Blocks : ~IsScalar(doc, key)
    /\ \A i \in NumberLines(doc) : doc[i].val[1][1] = "number"
    /\ \A i \in FlagLines(doc) : doc[i].val[1][1] = "flag"
    /\ \A i \in CountLines(doc) : doc[i].val[1][2] >= 0
    /\ Get(doc, "mode")[1] \in Modes

(* Config::validate.  Finiteness is left out: JSON and the parser of       *)
(* integers give finite numbers only.                                      *)
Abs(n) == IF n < 0 THEN -n ELSE n
ValidBeaconCentre(c) ==  \* mutant: only the centre has to be inside
    /\ c.beacon # None
    /\ LET b == c.beacon[1]
       IN /\ b.bandwidth_hz > 0
          /\ 2 * b.bandwidth_hz <= c.sample_rate
          /\ 2 * Abs(b.offset_hz) <= c.sample_rate
ValidBeacon(c) ==
    /\ c.beacon # None
    /\ LET b == c.beacon[1]
       IN /\ b.bandwidth_hz > 0
          /\ 2 * b.bandwidth_hz <= c.sample_rate
          /\ 2 * Abs(b.offset_hz) + b.bandwidth_hz <= c.sample_rate

ValidGrid(grid) == grid = NoText \/ Len(grid) \in 4 .. 20

Validate(c) ==
    /\ c.frequency > 0
    /\ c.sample_rate >= MinRate
    /\ c.period_seconds >= 5
    /\ c.mode = "beacon" => ValidBeacon(c)
    /\ c.microwaveprop # None => ValidGrid(c.microwaveprop[1].gridsquare)
    /\ c.update.check_interval >= MIN_CHECK_INTERVAL

(* passband_for.                                                           *)
PassbandFor(cfg) ==
    LET fixed(offset, bandwidth) == [offset_hz |-> offset, bandwidth_hz |-> bandwidth]
    IN CASE cfg.mode = "usb" -> fixed(30, 54)
         [] cfg.mode = "lsb" -> fixed(-30, 54)
         [] cfg.mode = "am" -> fixed(0, 120)
         [] cfg.mode = "nfm" -> fixed(0, 250)
         [] cfg.mode = "wfm" -> fixed(0, 3000)
         [] cfg.mode = "cw" -> fixed(14, 10)
         [] cfg.mode = "beacon" -> UnwrapOr(cfg.beacon, fixed(0, 1))

(* Some(config), or None for an error.                                     *)
FromYaml(doc) ==
    IF ~(Parses(doc) /\ WellTyped(doc)) THEN None
    ELSE LET s == ReadScalars(doc)
             c == [frequency |-> s.frequency, mode |-> s.mode, driver |-> s.driver,
                   sample_rate |-> s.sample_rate, gain |-> s.gain, ppm |-> s.ppm,
                   period_seconds |-> s.period_seconds,
                   beacon |-> ReadBeacon(doc), http |-> ReadHttp(doc),
                   microwaveprop |-> ReadMicrowaveprop(doc), update |-> ReadUpdate(doc)]
         IN IF Validate(c) THEN Some(c) ELSE None
=============================================================================
