---------------------------- MODULE MCConfigFile ----------------------------
(* Instances of ConfigFile for TLC.                                         *)
EXTENDS SettingsForm, YamlText, TLC

Torn == "two<break>lines"
Injecting == "usb<break>gain: 3"
Repeating == "usb<break>driver: airspy"

(* The texts with blanks around them, without them.                        *)
Untrimmed == (" usb" :> "usb") @@ (" rtlsdr" :> "rtlsdr") @@ ("b1 " :> "b1")
                 @@ ("EM1 " :> "EM1") @@ (" EM12" :> "EM12") @@ ("  " :> "")
MCTexts ==
    Modes \cup Defaults \cup DOMAIN Untrimmed
        \cup {Redacted, Torn, Injecting, Repeating, "fm", "usb # x", "two", "airspy", "sdrplay",
              "127.0.0.1:80", "auto", "deeper", "lines", "a", "b1", "b2", "t1", "t2", "EM1",
              "EM12", "EM12il", "FN31"}
MCBroken == {Torn, Injecting, Repeating}
MCTrimmed == [t \in MCTexts |-> IF t \in DOMAIN Untrimmed THEN Untrimmed[t] ELSE t]

(* What is read of a mode that was written bare.                           *)
MCBare ==
    LET blank == {t \in MCTexts : MCTrimmed[t] = ""}
        mode(t) == Scalar("mode", Text(t))
    IN [t \in MCTexts |->
            CASE t \in blank -> NestedOpen("mode")
              [] t = "usb # x" -> mode("usb")
              [] t = Torn -> mode("two") \o Line(0, "lines", None, FALSE)  \* no colon
              [] t = Injecting -> mode("usb") \o Scalar("gain", Number(3))
              [] t = Repeating -> mode("usb") \o Scalar("driver", Text("airspy"))
              [] OTHER -> mode(MCTrimmed[t])]

Beacon(offset, bandwidth) == Some([offset_hz |-> offset, bandwidth_hz |-> bandwidth])
MwNamed(enabled, token, id, grid) ==
    [enabled |-> enabled, monitor_token |-> token, beacon_id |-> id, gridsquare |-> grid]
Mw(enabled, token, grid) == MwNamed(enabled, token, "b1", grid)
Update(auto, interval) == [enabled |-> TRUE, auto |-> auto, check_interval |-> interval]

(* A plain body and a full one, and what may be varied in each.            *)
Plain ==
    [frequency |-> 100, mode |-> "usb", driver |-> "rtlsdr", sample_rate |-> 5000,
     gain |-> None, ppm |-> None, period_seconds |-> None, beacon |-> None, http |-> None,
     microwaveprop |-> None, update |-> None]
Full ==
    [frequency |-> 200, mode |-> "beacon", driver |-> "sdrplay", sample_rate |-> 8000,
     gain |-> Some(10), ppm |-> Some(-2), period_seconds |-> Some(30),
     beacon |-> Beacon(7, 1), http |-> Some([bind |-> "127.0.0.1:80"]),
     microwaveprop |-> Some(Mw(TRUE, "t1", "EM12il")), update |-> Some(Update(FALSE, 90))]

(* Both sides of every limit of validate, at the default rate.             *)
BeaconPuts ==
    {[Plain EXCEPT !.mode = "beacon", !.beacon = b] :
        b \in {None, Beacon(0, 0), Beacon(0, 1), Beacon(-2499, 2), Beacon(2499, 3), Beacon(0, 2000),
               Beacon(-1500, 2000), Beacon(0, 2501), Beacon(2400, 500)}}
PlainPuts ==
    {[Plain EXCEPT !.mode = m, !.sample_rate = r] : m \in {"cw", "wfm", "fm"}, r \in {4999, 5000}}
    \cup {[Plain EXCEPT !.mode = m] : m \in {" usb", "usb # x", "  ", Torn, Injecting, Repeating}}
    \cup {[Plain EXCEPT !.frequency = f, !.driver = d, !.period_seconds = p] :
             f \in {0, 100}, d \in {"rtlsdr", Torn}, p \in {None, Some(4), Some(5)}}
    \cup {[Plain EXCEPT !.driver = " rtlsdr", !.microwaveprop = Some(m)] :
             m \in {MwNamed(FALSE, "", "b1 ", "EM1 "), MwNamed(TRUE, "t1", "  ", " EM12")}}
FullPuts ==
    {[Full EXCEPT !.microwaveprop = m, !.update = u, !.http = h] :
        m \in {None, Some(Mw(TRUE, Redacted, "EM12il")), Some(Mw(FALSE, "t1", "")),
               Some(Mw(TRUE, "", "EM12")), Some(Mw(TRUE, "t1", "EM1"))},
        u \in {None, Some(Update(TRUE, 60)), Some(Update(FALSE, 59))},
        h \in {None, Full.http}}
    \cup {[Full EXCEPT !.gain = g, !.ppm = p, !.beacon = b] :
             g \in {None, Full.gain}, p \in {None, Full.ppm}, b \in {None, Full.beacon}}

MCPuts == BeaconPuts \cup PlainPuts \cup FullPuts

PushOf(body, enabled) ==
    [frequency |-> body.frequency, mode |-> body.mode, driver |-> body.driver,
     sample_rate |-> body.sample_rate, gain |-> body.gain, ppm |-> UnwrapOr(body.ppm, 0),
     period_seconds |-> UnwrapOr(body.period_seconds, 60), beacon |-> body.beacon,
     upload_enabled |-> enabled, beacon_id |-> "b2", gridsquare |-> "FN31"]
MCPushes ==
    {PushOf(body, enabled) : body \in {Plain, Full}, enabled \in BOOLEAN}
    \cup {[PushOf(Full, TRUE) EXCEPT !.gain = None, !.ppm = 1],
          [PushOf(Full, TRUE) EXCEPT !.beacon = None],
          [PushOf(Plain, TRUE) EXCEPT !.period_seconds = 4]}
    \cup {[PushOf(Plain, TRUE) EXCEPT !.mode = m] : m \in {" usb", "usb # x", Injecting, Repeating}}

(* What an operator types: the least, everything in an order of its own,   *)
(* and documents the daemon refuses to start on.                           *)
Least == Scalar("frequency", Number(100)) \o Scalar("mode", Text("usb"))
Everything ==
    NestedOpen("update") \o NestedScalar("auto", Flag(FALSE)) \o NestedOpen("http")
        \o NestedOpen("microwaveprop") \o NestedString("monitor_token", "t2")
        \o NestedScalar("config_version", Number(1)) \o Least \o Scalar("gain", Number(3))
        \o NestedOpen("beacon") \o NestedScalar("offset_hz", Number(-5))
MCHandWritten ==
    {Least, Everything, Scalar("mode", Text("usb")), Least \o Scalar("frequency", Number(200)),
     Least \o Scalar("gain", Text("auto")), NestedScalar("auto", Flag(TRUE)) \o Least,
     Least \o NestedOpen("http") \o NestedOpen("deeper") \o Line(4, "bind", Some(Text("a")), TRUE),
     Least \o NestedOpen("microwaveprop") \o NestedScalar("config_version", Number(-1)),
     Least \o Scalar("beacon", Number(1)), Scalar("frequency", Number(100)) \o NestedOpen("mode")}

(* The two side by side: a text is typed before the first edit only, as    *)
(* the two share nothing.                                                  *)
MCInit == Init /\ Untyped
MCNext ==
    \/ Untyped /\ Next /\ UNCHANGED text
    \/ file = Least /\ UNCHANGED vars /\ (Clear \/ \E c \in Char : Type(c))
MCSpec == MCInit /\ [][MCNext]_<<vars, text>>
=============================================================================
