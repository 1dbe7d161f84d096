---------------------------- MODULE SettingsForm ----------------------------
(***************************************************************************)
(* The settings form of the page (web/app.js): how a config is put into    *)
(* its fields and what PUT they make.  PageFeed has when a page does so;   *)
(* this is what gets lost on the way.  The page trims the texts it sends,  *)
(* all but the token.                                                      *)
(*                                                                         *)
(* The driver is chosen from a list that always has the running one        *)
(* (ensureDriverOption).                                                   *)
(***************************************************************************)
EXTENDS ConfigFile

(* A page as it loads.                                                     *)
BlankForm ==
    [driver |-> NoText, frequency |-> None, mode |-> "beacon", sample_rate |-> None, gain |-> None,
     ppm |-> None, beacon_offset_hz |-> None, beacon_bandwidth_hz |-> None, http_bind |-> NoText,
     mw_enabled |-> FALSE, mw_token |-> NoText, mw_beacon_id |-> NoText, mw_gridsquare |-> NoText,
     up_enabled |-> FALSE, up_auto |-> FALSE, up_interval |-> None]

(* Math.round(seconds / 60), and one at least.                             *)
Minutes(seconds) == Max({1, (seconds + 30) \div 60})

(* applyConfig.  The period has no field; a block that is absent leaves    *)
(* its fields as they are, but for the box that turns uploads on.          *)
Filled(form, view) ==
    LET tuned == [form EXCEPT
            !.driver = view.driver, !.frequency = Some(view.frequency), !.mode = view.mode,
            !.sample_rate = Some(view.sample_rate), !.gain = view.gain, !.ppm = Some(view.ppm),
            !.http_bind = view.http.bind,
            !.mw_enabled = view.microwaveprop # None /\ view.microwaveprop[1].enabled,
            !.up_enabled = view.update.enabled, !.up_auto = view.update.auto,
            !.up_interval = Some(Minutes(view.update.check_interval))]
        marked(f, b) == [f EXCEPT !.beacon_offset_hz = Some(b.offset_hz),
                                  !.beacon_bandwidth_hz = Some(b.bandwidth_hz)]
        linked(f, m) == [f EXCEPT !.mw_token = m.monitor_token, !.mw_beacon_id = m.beacon_id,
                                  !.mw_gridsquare = m.gridsquare]
        beaconed == IF view.beacon = None THEN tuned ELSE marked(tuned, view.beacon[1])
    IN IF view.microwaveprop = None THEN beaconed ELSE linked(beaconed, view.microwaveprop[1])

(* saveConfig: always a beacon and an update block, and a microwaveprop    *)
(* block unless all its fields are blank.                                  *)
BodyOf(form) ==
    LET bind == Trimmed[form.http_bind]
        beacon_id == Trimmed[form.mw_beacon_id]
        gridsquare == Trimmed[form.mw_gridsquare]
        unlinked == ~form.mw_enabled /\ form.mw_token = NoText /\ beacon_id = NoText
                                     /\ gridsquare = NoText
    IN [frequency |-> form.frequency[1], mode |-> form.mode, driver |-> Trimmed[form.driver],
        sample_rate |-> form.sample_rate[1], gain |-> form.gain,
        ppm |-> Some(UnwrapOr(form.ppm, 0)), period_seconds |-> None,
        beacon |-> Some([offset_hz |-> UnwrapOr(form.beacon_offset_hz, 0),
                         bandwidth_hz |-> UnwrapOr(form.beacon_bandwidth_hz, 1)]),
        http |-> Some([bind |-> IF bind = NoText THEN DefaultBind ELSE bind]),
        microwaveprop |->
            IF unlinked THEN None
            ELSE Some([enabled |-> form.mw_enabled, monitor_token |-> form.mw_token,
                       beacon_id |-> beacon_id, gridsquare |-> gridsquare]),
        update |-> Some([enabled |-> form.up_enabled, auto |-> form.up_auto,
                         check_interval |-> Max({60, 60 * UnwrapOr(form.up_interval, 60)})])]

SavedFrom(form) == FromYaml(BuildYaml(BodyOf(form), active, None))

(* What a page that is saved unedited makes of a config: the beacon block  *)
(* it always sends, with the values passband_for takes without one, whole  *)
(* minutes for an interval, and no blanks around the driver, the beacon's  *)
(* name and the grid square, which the daemon would keep.                  *)
Tidied(cfg) ==
    LET tidy(m) == [m EXCEPT !.beacon_id = Trimmed[@], !.gridsquare = Trimmed[@]]
    IN [cfg EXCEPT
            !.driver = Trimmed[@],
            !.beacon = Some(UnwrapOr(@, [offset_hz |-> 0, bandwidth_hz |-> 1])),
            !.microwaveprop = Mapped(@, tidy),
            !.update.check_interval = 60 * Minutes(@)]
GridStands(cfg) == cfg.microwaveprop # None => ValidGrid(cfg.microwaveprop[1].gridsquare)

(* A page that has just loaded saves the config it shows so tidied and     *)
(* with no other change, or gets it refused: a grid square that was long   *)
(* enough with its blanks may be too short without them.                   *)
FormComesBack ==
    SavedFrom(Filled(BlankForm, CfgToView(active))) =
        IF GridStands(Tidied(active)) THEN Some(Tidied(active)) ELSE None

(* Neither a client that PUTs the view it got, nor a page that is saved    *)
(* unedited, changes what it does not show: the token, the version, the    *)
(* period.  The client changes nothing at all; the page what Tidied tells  *)
(* (api.md, PUT /api/config; app.js saveConfig).                           *)
ComesBack == ViewComesBack /\ FormComesBack
=============================================================================
