----------------------------- MODULE ConfigFile -----------------------------
(***************************************************************************)
(* What a config says and how it travels: between config.yaml and the      *)
(* running config (ConfigYaml), to the LAN API and back (server.rs         *)
(* cfg_to_view, ConfigUpdate, build_yaml_from_update), to the website and  *)
(* back (sync.rs SyncConfig, decide_push).                                 *)
(*                                                                         *)
(* ConfigApply has the interleavings of the writers and takes a config as  *)
(* a whole; here every write is one step, and what is in a config, what    *)
(* each conversion carries and what it leaves out, is all there.           *)
(***************************************************************************)
EXTENDS ConfigYaml, Passband

CONSTANTS
    HandWritten,  \* the documents a node may be started on
    Puts,         \* bodies of PUT /api/config
    Pushes,       \* configs the website pushes
    MaxVersion    \* bound on the versions the website mints

(* The bodies that serde makes a ConfigUpdate or a SyncConfig of.          *)
ConfigUpdate ==
    [frequency : Int, mode : Texts, driver : Texts, sample_rate : Int, gain : Opt(Int),
     ppm : Opt(Int), period_seconds : Opt(Nat), beacon : Opt(BeaconConfig),
     http : Opt(HttpConfig),
     microwaveprop : Opt([enabled : BOOLEAN, monitor_token : Texts, beacon_id : Texts,
                          gridsquare : Texts]),
     update : Opt(UpdateConfig)]
SyncConfig ==
    [frequency : Int, mode : Texts, driver : Texts, sample_rate : Int, gain : Opt(Int),
     ppm : Int, period_seconds : Nat, beacon : Opt(BeaconConfig),
     upload_enabled : BOOLEAN, beacon_id : Texts, gridsquare : Texts]

(* What is shown in place of the token.                                    *)
Redacted == "redacted"

ASSUME VersionAssumption == MaxVersion \in Nat
ASSUME InputsAssumption ==
    /\ HandWritten \subseteq Seq(Written)
    /\ Puts \subseteq ConfigUpdate /\ Pushes \subseteq SyncConfig
    /\ Redacted \in Texts

VARIABLES
    file,     \* config.yaml
    active,   \* AppState.config
    unsaved   \* a recorded version did not reach the file (history)

vars == <<file, active, unsaved>>

(***************************************************************************)
(* The conversions.                                                        *)
(***************************************************************************)
BeaconOf(b) == [offset_hz |-> b.offset_hz, bandwidth_hz |-> b.bandwidth_hz]

(* cfg_to_view: what GET /api/config, a config frame and the answer to a   *)
(* PUT show.  The version is not shown, nor is the token.                  *)
CfgToView(cfg) ==
    LET shown(m) == [enabled |-> m.enabled, monitor_token |-> Redacted,
                     beacon_id |-> m.beacon_id, gridsquare |-> m.gridsquare]
    IN [frequency |-> cfg.frequency, mode |-> cfg.mode, driver |-> cfg.driver,
        sample_rate |-> cfg.sample_rate, gain |-> cfg.gain, ppm |-> cfg.ppm,
        period_seconds |-> cfg.period_seconds, beacon |-> Mapped(cfg.beacon, BeaconOf),
        http |-> cfg.http, microwaveprop |-> Mapped(cfg.microwaveprop, shown),
        update |-> cfg.update]

(* A view sent back as a PUT: what is a plain field there is an optional   *)
(* one here.                                                               *)
SentBack(view) ==
    [view EXCEPT !.ppm = Some(@), !.period_seconds = Some(@), !.http = Some(@), !.update = Some(@)]

(* cfg_to_update: the same with the real token.                            *)
CfgToUpdate(cfg) ==
    LET kept(m) == [enabled |-> m.enabled, monitor_token |-> m.monitor_token,
                    beacon_id |-> m.beacon_id, gridsquare |-> m.gridsquare]
    IN [SentBack(CfgToView(cfg)) EXCEPT !.microwaveprop = Mapped(cfg.microwaveprop, kept)]

AppliedVersion(cfg) ==
    IF cfg.microwaveprop = None THEN 0 ELSE cfg.microwaveprop[1].config_version

(* SyncConfig::from_config and to_config_update.                           *)
FromConfig(cfg) ==
    LET mw == cfg.microwaveprop
    IN [frequency |-> cfg.frequency, mode |-> cfg.mode, driver |-> cfg.driver,
        sample_rate |-> cfg.sample_rate, gain |-> cfg.gain, ppm |-> cfg.ppm,
        period_seconds |-> cfg.period_seconds, beacon |-> Mapped(cfg.beacon, BeaconOf),
        upload_enabled |-> mw # None /\ mw[1].enabled,
        beacon_id |-> IF mw = None THEN NoText ELSE mw[1].beacon_id,
        gridsquare |-> IF mw = None THEN NoText ELSE mw[1].gridsquare]

ToConfigUpdateBare(pushed, current) ==  \* mutant: no http block is taken to mean "keep"
    [frequency |-> pushed.frequency, mode |-> pushed.mode, driver |-> pushed.driver,
     sample_rate |-> pushed.sample_rate, gain |-> pushed.gain, ppm |-> Some(pushed.ppm),
     period_seconds |-> Some(pushed.period_seconds),
     beacon |-> Mapped(pushed.beacon, BeaconOf),
     http |-> None,
     microwaveprop |-> Some([enabled |-> pushed.upload_enabled, monitor_token |-> Redacted,
                             beacon_id |-> pushed.beacon_id, gridsquare |-> pushed.gridsquare]),
     update |-> None]
ToConfigUpdate(pushed, current) ==
    [frequency |-> pushed.frequency, mode |-> pushed.mode, driver |-> pushed.driver,
     sample_rate |-> pushed.sample_rate, gain |-> pushed.gain, ppm |-> Some(pushed.ppm),
     period_seconds |-> Some(pushed.period_seconds),
     beacon |-> Mapped(pushed.beacon, BeaconOf),
     http |-> Some([bind |-> current.http.bind]),
     microwaveprop |-> Some([enabled |-> pushed.upload_enabled, monitor_token |-> Redacted,
                             beacon_id |-> pushed.beacon_id, gridsquare |-> pushed.gridsquare]),
     update |-> None]

TokenAsSent(m, current) == m.monitor_token  \* mutant: the sentinel is taken for a token
(* build_yaml_from_update.                                                 *)
TokenOf(m, current) ==
    IF m.monitor_token # Redacted THEN m.monitor_token
    ELSE IF current.microwaveprop = None THEN NoText ELSE current.microwaveprop[1].monitor_token

BeaconLines(b) ==
    NestedOpen("beacon") \o NestedScalar("offset_hz", Number(b.offset_hz))
                         \o NestedScalar("bandwidth_hz", Number(b.bandwidth_hz))

MicrowavepropLines(m, current, version) ==
    NestedOpen("microwaveprop")
        \o NestedScalar("enabled", Flag(m.enabled))
        \o NestedString("monitor_token", TokenOf(m, current))
        \o NestedString("beacon_id", m.beacon_id)
        \o NestedString("gridsquare", m.gridsquare)
        \o NestedScalar("config_version", Number(UnwrapOr(version, AppliedVersion(current))))

UpdateLines(u) ==
    NestedOpen("update") \o NestedScalar("enabled", Flag(u.enabled))
                         \o NestedScalar("auto", Flag(u.auto))
                         \o NestedScalar("check_interval", Number(u.check_interval))

BuildYaml(body, current, version) ==
    LET gain(g) == Scalar("gain", Number(g))
        block(m) == MicrowavepropLines(m, current, version)
    IN Scalar("frequency", Number(body.frequency))
        \o Bare[body.mode]
        \o String("driver", body.driver)
        \o Scalar("sample_rate", Number(body.sample_rate))
        \o UnwrapOr(Mapped(body.gain, gain), <<>>)
        \o Scalar("ppm", Number(UnwrapOr(body.ppm, 0)))
        \o Scalar("period_seconds", Number(UnwrapOr(body.period_seconds, current.period_seconds)))
        \o UnwrapOr(Mapped(body.beacon, BeaconLines), <<>>)
        \o NestedOpen("http")
        \o NestedString("bind", UnwrapOr(body.http, [bind |-> DefaultBind]).bind)
        \o UnwrapOr(Mapped(body.microwaveprop, block), <<>>)
        \o UpdateLines(UnwrapOr(body.update, current.update))

(***************************************************************************)
(* The writers.                                                            *)
(***************************************************************************)
Init ==
    /\ file \in {doc \in HandWritten : FromYaml(doc) # None}
    /\ active = FromYaml(file)[1]
    /\ unsaved = FALSE

(* apply_config.  A body that does not come out as a config changes        *)
(* nothing, nor does a bind or a write that fails.                         *)
ApplyConfig(body, version) ==
    LET yaml == BuildYaml(body, active, version)
        new == FromYaml(yaml)
    IN /\ file' = yaml
       /\ new # None
       /\ active' = new[1]
       /\ unsaved' = FALSE

PutConfig(body) == ApplyConfig(body, None)

PersistCarried(version) ==  \* mutant: the file is built with the version of before
    /\ active.microwaveprop # None
    /\ active.microwaveprop[1].config_version # version
    /\ active' = [active EXCEPT !.microwaveprop[1].config_version = version]
    /\ file' = BuildYaml(CfgToUpdate(active), active, None)
    /\ unsaved' = FALSE

(* persist_config_version: the config in memory first, then the file.      *)
PersistConfigVersion(version) ==
    /\ active.microwaveprop # None
    /\ active.microwaveprop[1].config_version # version
    /\ active' = [active EXCEPT !.microwaveprop[1].config_version = version]
    /\ \/ /\ file' = BuildYaml(CfgToUpdate(active'), active', Some(version))
          /\ unsaved' = FALSE
       \/ UNCHANGED file /\ unsaved' = TRUE

(* There is a session to push on only while a token is configured.         *)
Syncing == active.microwaveprop # None /\ active.microwaveprop[1].monitor_token # NoText

DecidePush(version, pushed) ==
    CASE version <= AppliedVersion(active) -> "stale"
      [] version > AppliedVersion(active) /\ pushed = FromConfig(active) -> "version_only"
      [] OTHER -> "apply"

(* apply_push.                                                             *)
Push(version, pushed) ==
    /\ Syncing
    /\ \/ /\ DecidePush(version, pushed) = "version_only"
          /\ PersistConfigVersion(version)
       \/ /\ DecidePush(version, pushed) = "apply"
          /\ ApplyConfig(ToConfigUpdate(pushed, active), Some(version))

(* config_accepted, and the answer to a polled report: record_version.     *)
Accepted(version) == Syncing /\ PersistConfigVersion(version)

(* Config::load at the next start.                                         *)
Restart ==
    /\ FromYaml(file) # None
    /\ active' = FromYaml(file)[1]
    /\ unsaved' = FALSE
    /\ UNCHANGED file

Next ==
    \/ \E body \in Puts : PutConfig(body)
    \/ \E version \in 1 .. MaxVersion, pushed \in Pushes : Push(version, pushed)
    \/ \E version \in 1 .. MaxVersion : Accepted(version)
    \/ Restart

Spec == Init /\ [][Next]_vars

(***************************************************************************)
(* Properties.                                                             *)
(***************************************************************************)
TypeOK ==
    /\ active \in Config
    /\ unsaved \in BOOLEAN

(* Whatever edits, pushes and records came before, the file loads, and it  *)
(* loads as the running config (api.md: "the on-disk format is             *)
(* authoritative"); after a failed record it may lag in the version alone. *)
FileIsRunning ==
    LET loaded == FromYaml(file)
    IN /\ loaded # None
       /\ loaded[1] # active =>
             /\ unsaved
             /\ [loaded[1] EXCEPT !.microwaveprop[1].config_version = AppliedVersion(active)]
                    = active

(* What the API shows can be sent back as it is and changes nothing: not   *)
(* the token it does not show, nor the version (api.md, PUT /api/config).  *)
ViewComesBack ==
    FromYaml(BuildYaml(SentBack(CfgToView(active)), active, None)) = Some(active)

(* A push that took effect is recorded under its version, so sending it    *)
(* again is stale, and the website has no say in the token, the LAN        *)
(* address and the update channel (to_config_update), whatever it pushed   *)
(* for a mode.  If that was one of the modes there are, the push is in     *)
(* effect to the last field and its content under a new version is         *)
(* version_only: the receiver is not reopened over and over (sync.rs       *)
(* decide_push).  Another word may take effect as well, "usb # x" as usb,  *)
(* and then never compares equal to what was pushed.                       *)
NodeLocal(config) ==
    [token |-> Mapped(config.microwaveprop, LAMBDA m : m.monitor_token),
     http |-> config.http, update |-> config.update]

PushTakesHold ==
    [][\A version \in 1 .. MaxVersion, pushed \in Pushes :
          Push(version, pushed) =>
             /\ AppliedVersion(active') = version /\ NodeLocal(active') = NodeLocal(active)
             /\ pushed.mode \in Modes => FromConfig(active') = pushed]_vars

(* The bins of the running config, at the sample rate it asks for: the     *)
(* analyzer takes the one the device settled on (worker.rs                 *)
(* actual_sample_rate), which differs where a device has steps.            *)
ActiveRange ==
    LET band == PassbandFor(active)
    IN BinRange(band.offset_hz, band.bandwidth_hz, active.sample_rate)

(* Of an accepted passband start_window cuts off no more than the bin that *)
(* rounding may add at either end: validate keeps it inside the spectrum.  *)
AcceptedInSpectrum ==
    LET band == PassbandFor(active)
        middle == Center + OffsetBins(band.offset_hz, active.sample_rate)
        half == HalfWidthBins(band.bandwidth_hz, active.sample_rate)
    IN middle - half >= -1 /\ middle + half <= FFT_SIZE + 1

(* A passband of four bins or more and at most two fifths of the sampled   *)
(* spectrum can be measured: its guards leave noise bins.                  *)
ModerateCanMeasure ==
    LET band == PassbandFor(active)
    IN /\ 5 * band.bandwidth_hz <= 2 * active.sample_rate
       /\ band.bandwidth_hz * FFT_SIZE >= 4 * active.sample_rate
       => Measurable(ActiveRange)

(* What an accepted config leaves to measure (config.rs validate,          *)
(* measure.rs start_window and finalize).                                  *)
BandFits == AcceptedInSpectrum /\ ModerateCanMeasure

(* An accepted config can be measured: "measurement - emitted at the end   *)
(* of each measurement window" (api.md).  It does not hold: the passband   *)
(* of wfm and its guards fill the spectrum at the default rate.            *)
AcceptedCanMeasure == Measurable(ActiveRange)
=============================================================================
