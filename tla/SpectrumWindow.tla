--------------------------- MODULE SpectrumWindow ---------------------------
(***************************************************************************)
(* The capture loop of the worker thread (worker.rs run_inner) and its     *)
(* SpectrumAnalyzer (measure.rs): samples are read in chunks, cut into     *)
(* frames, the spectra of a window's frames are accumulated and, at its    *)
(* deadline, made into a measurement; a ring of the latest samples gives   *)
(* the rows of the waterfall on the side.                                  *)
(*                                                                         *)
(* A sample is its number and whether the beacon was on the air.  Powers   *)
(* are integers: window_energy, a common factor, and the conversion to dB, *)
(* which keeps their order, are left out, and a mean is a sum and a count. *)
(* The raw level, a running mean nothing else reads, is left out.          *)
(***************************************************************************)
EXTENDS Passband, Sequences, SequencesExt

CONSTANTS
    Bands,            \* passbands: offset, width, sample rate
    Chunks,           \* how many samples a read may bring
    MTU,              \* the most a read is asked for
    WATERFALL_FFT_N,  \* samples in a row of the waterfall
    RowEvery,         \* wf_emit_every: samples between two rows
    Floor,            \* noise power in a bin of one frame
    Strength,         \* what a sample of the beacon adds to a bin of the passband
    Leak,             \* what it adds to a bin next to it
    MaxSamples,       \* bounds
    MaxWindows

ASSUME SizesAssumption ==
    /\ Chunks \subseteq Nat \ {0} /\ MTU \in Nat \ {0}
    /\ WATERFALL_FFT_N \in Nat \ {0} /\ RowEvery \in Nat
    /\ {Floor, Strength, Leak, MaxSamples, MaxWindows} \subseteq Nat
ASSUME BandsAssumption == Bands \subseteq [offset : Int, width : Nat, rate : Nat \ {0}]

VARIABLES
    phase,      \* between two windows, in one, or the thread has ended
    band,       \* what passband_for gave for the config the worker runs on
    analyzer,   \* the accumulators of SpectrumAnalyzer
    frame_buf,  \* samples that do not make a frame yet
    taken,      \* samples read so far
    wf,         \* wf_ring, wf_pos, wf_filled, wf_since_emit and the last row sent
    sent,       \* the last PeriodMeasurement, and the frames it is of (history)
    heard,      \* the frames of this window (history)
    start,      \* samples read when this window began (history)
    windows     \* windows begun

vars == <<phase, band, analyzer, frame_buf, taken, wf, sent, heard, start, windows>>

None == <<>>
Bins == 0 .. FFT_SIZE - 1
SignalRange == BinRange(band.offset, band.width, band.rate)

(***************************************************************************)
(* The signal.  A frame's spectrum, fftshifted: noise everywhere, the      *)
(* beacon in the passband for the samples it was on the air, and what      *)
(* leaks from there into as many bins on either side as the passband has   *)
(* on one side of its middle.                                              *)
(***************************************************************************)
OnAir(frame) == Cardinality({i \in DOMAIN frame : frame[i].on})

Near == SignalRange.lo - SignalRange.half .. SignalRange.hi + SignalRange.half

Received(k) ==
    IF k \in SignalBins(SignalRange) THEN Strength ELSE IF k \in Near THEN Leak ELSE 0

Spectrum(frame) == [k \in Bins |-> Floor + OnAir(frame) * Received(k)]

(***************************************************************************)
(* SpectrumAnalyzer.                                                       *)
(***************************************************************************)
NewAnalyzer ==
    [window_open |-> FALSE, sig |-> [lo |-> 0, hi |-> 0, half |-> 0], psd_sum |-> [k \in Bins |-> 0],
     sig_peak_power |-> 0, sig_sum_power |-> 0, frame_powers |-> <<>>, frame_count |-> 0]

StartedOverKeeping(a) ==  \* mutant: the powers of the last window's frames stay
    [a EXCEPT !.window_open = TRUE, !.sig = SignalRange, !.psd_sum = [k \in Bins |-> 0],
              !.frame_count = 0]

(* start_window                                                            *)
StartedOver(a) ==
    [window_open |-> TRUE, sig |-> SignalRange, psd_sum |-> [k \in Bins |-> 0],
     sig_peak_power |-> 0, sig_sum_power |-> 0, frame_powers |-> <<>>, frame_count |-> 0]

(* add_frame.                                                              *)
AddFrame(a, frame) ==
    LET spectrum == Spectrum(frame)
        power == SumFunctionOnSet(spectrum, SignalBins(a.sig))
    IN [a EXCEPT
            !.psd_sum = [k \in Bins |-> @[k] + spectrum[k]],
            !.sig_peak_power = Max({@, power}),
            !.sig_sum_power = @ + power,
            !.frame_powers = Append(@, power),
            !.frame_count = @ + 1]

(* The middle one of the noise bins, the upper of two.                     *)
Median(bins, psd) ==
    LET below(v) == Cardinality({k \in bins : psd[k] < v})
        upto(v) == Cardinality({k \in bins : psd[k] <= v})
        middle == Cardinality(bins) \div 2
    IN CHOOSE v \in {psd[k] : k \in bins} : below(v) <= middle /\ upto(v) > middle

(* finalize.  noise is the sum over the frames of the noise power in the   *)
(* passband, so that a frame is active if its power times their number     *)
(* exceeds twice that.                                                     *)
Measured(a) ==
    LET signal_bins == a.sig.hi - a.sig.lo + 1
        noise == Median(NoiseBins(a.sig), a.psd_sum) * signal_bins
        active == {i \in DOMAIN a.frame_powers : a.frame_powers[i] * a.frame_count > 2 * noise}
    IN [noise |-> noise,
        frames |-> a.frame_count,
        active |-> Cardinality(active),
        peak |-> IF active = {} THEN a.sig_peak_power ELSE Max({a.frame_powers[i] : i \in active}),
        sum |-> IF active = {} THEN a.sig_sum_power ELSE SumFunctionOnSet(a.frame_powers, active),
        of |-> IF active = {} THEN a.frame_count ELSE Cardinality(active)]

Finalize(a) ==
    IF a.frame_count = 0 \/ ~a.window_open \/ ~Measurable(a.sig) THEN None ELSE <<Measured(a)>>

(***************************************************************************)
(* The waterfall.                                                          *)
(***************************************************************************)
NewWaterfall ==
    [ring |-> [i \in 0 .. WATERFALL_FFT_N - 1 |-> 0], pos |-> 0, filled |-> 0, since |-> 0,
     row |-> None]

LinearizedAsStored(w) == [i \in 1 .. WATERFALL_FFT_N |-> w.ring[i - 1]]  \* mutant

(* compute_waterfall_bins: the ring put straight, oldest sample first.     *)
Linearized(w) == [i \in 1 .. WATERFALL_FFT_N |-> w.ring[(w.pos + i - 1) % WATERFALL_FFT_N]]

(* One sample more, and a row once there are enough of them.               *)
Drawn(w, sample) ==
    LET next == [w EXCEPT !.ring[w.pos] = sample,
                          !.pos = (@ + 1) % WATERFALL_FFT_N,
                          !.filled = Min({@ + 1, WATERFALL_FFT_N}),
                          !.since = @ + 1]
    IN IF next.since >= RowEvery /\ next.filled >= WATERFALL_FFT_N
       THEN [next EXCEPT !.since = 0, !.row = <<[samples |-> Linearized(next), at |-> sample]>>]
       ELSE next

(* The n samples of a read, after the first ones.                          *)
DrawnAll(w, first, n) ==
    LET drawn[i \in 0 .. n] == IF i = 0 THEN w ELSE Drawn(drawn[i - 1], first + i)
    IN drawn[n]

(***************************************************************************)
(* run_inner.                                                              *)
(***************************************************************************)
Init ==
    /\ phase = "between"
    /\ band \in Bands
    /\ analyzer = NewAnalyzer
    /\ frame_buf = <<>>
    /\ taken = 0
    /\ wf = NewWaterfall
    /\ sent = None
    /\ heard = <<>> /\ start = 0 /\ windows = 0

StartWindowKeeping ==  \* mutant: the last window's samples stay in the buffer
    /\ phase = "between"
    /\ windows < MaxWindows
    /\ phase' = "window"
    /\ analyzer' = StartedOver(analyzer)
    /\ heard' = <<>> /\ start' = taken /\ windows' = windows + 1
    /\ UNCHANGED <<band, frame_buf, taken, wf, sent>>

(* start_window; what is left of the last window's samples is dropped.     *)
StartWindow ==
    /\ phase = "between"
    /\ windows < MaxWindows
    /\ phase' = "window"
    /\ analyzer' = StartedOver(analyzer)
    /\ frame_buf' = <<>>
    /\ heard' = <<>> /\ start' = taken /\ windows' = windows + 1
    /\ UNCHANGED <<band, taken, wf, sent>>

Want == Min({FFT_SIZE - Len(frame_buf), MTU})

(* A read, and a frame if it completes one: a read never asks for more     *)
(* than the frame still needs.                                             *)
Read(n, on) ==
    LET chunk == [i \in 1 .. n |-> [number |-> taken + i, on |-> on]]
        buffered == frame_buf \o chunk
        whole == Len(buffered) >= FFT_SIZE
    IN /\ phase = "window"
       /\ n <= Want
       /\ taken + n <= MaxSamples
       /\ taken' = taken + n
       /\ wf' = DrawnAll(wf, taken, n)
       /\ analyzer' = IF whole THEN AddFrame(analyzer, SubSeq(buffered, 1, FFT_SIZE)) ELSE analyzer
       /\ frame_buf' = IF whole THEN SubSeq(buffered, FFT_SIZE + 1, Len(buffered)) ELSE buffered
       /\ heard' = IF whole THEN Append(heard, SubSeq(buffered, 1, FFT_SIZE)) ELSE heard
       /\ UNCHANGED <<phase, band, sent, start, windows>>

(* The deadline.  None is not sent.                                        *)
CloseWindow ==
    /\ phase = "window"
    /\ phase' = "between"
    /\ analyzer' = [analyzer EXCEPT !.window_open = FALSE]
    /\ sent' = LET m == Finalize(analyzer)
               IN IF m = None THEN sent ELSE <<[measurement |-> m[1], frames |-> heard]>>
    /\ UNCHANGED <<band, frame_buf, taken, wf, heard, start, windows>>

(* The stop flag, a stream error, a bridge that is gone.                   *)
Return ==
    /\ phase \in {"between", "window"}
    /\ phase' = "ended"
    /\ UNCHANGED <<band, analyzer, frame_buf, taken, wf, sent, heard, start, windows>>

Next ==
    \/ StartWindow
    \/ \E n \in Chunks, on \in BOOLEAN : Read(n, on)
    \/ CloseWindow
    \/ Return

Spec == Init /\ [][Next]_vars

(***************************************************************************)
(* Properties.                                                             *)
(***************************************************************************)
Sample == [number : Nat, on : BOOLEAN]
Samples == Seq(Sample)
Frame == [1 .. FFT_SIZE -> Sample]

Analyzer ==
    [window_open : BOOLEAN, sig : [lo : Int, hi : Int, half : Int], psd_sum : [Bins -> Nat],
     sig_peak_power : Nat, sig_sum_power : Nat, frame_powers : Seq(Nat), frame_count : Nat]

Waterfall ==
    [ring : [0 .. WATERFALL_FFT_N - 1 -> Nat], pos : 0 .. WATERFALL_FFT_N - 1,
     filled : 0 .. WATERFALL_FFT_N, since : Nat,
     row : Seq([samples : [1 .. WATERFALL_FFT_N -> Nat], at : Nat])]

TypeOK ==
    /\ phase \in {"between", "window", "ended"}
    /\ band \in Bands
    /\ analyzer \in Analyzer
    /\ phase = "ended" \/ (analyzer.window_open <=> phase = "window")
    /\ Len(analyzer.frame_powers) = analyzer.frame_count
    /\ frame_buf \in Samples /\ Len(frame_buf) < FFT_SIZE
    /\ taken \in Nat /\ start \in 0 .. taken /\ windows \in Nat
    /\ wf \in Waterfall /\ Len(wf.row) <= 1
    /\ heard \in Seq(Frame) /\ Len(sent) <= 1

(* The frames of a window, and what waits to become one, are the samples   *)
(* read since it began, each once and in order: no frame straddles two     *)
(* windows, none is skipped or counted twice (run_inner).                  *)
Cut(samples, from) == \A i \in DOMAIN samples : samples[i].number = from + i
FramesAreTheWindow ==
    phase = "window" =>
        LET framed == Len(heard) * FFT_SIZE
        IN /\ \A j \in DOMAIN heard : Cut(heard[j], start + (j - 1) * FFT_SIZE)
           /\ Cut(frame_buf, start + framed)
           /\ taken = start + framed + Len(frame_buf)

(* The true figures of a window, from the frames on the air in it: a frame *)
(* counts if the beacon lifts it 3 dB above the noise.                     *)
SignalBinCount == Cardinality(SignalBins(SignalRange))
TruePower(frame) == SignalBinCount * (Floor + OnAir(frame) * Strength)
TrueNoise == SignalBinCount * Floor
Audible(frame) == TruePower(frame) > 2 * TrueNoise

(* A measurement tells the noise without what the beacon leaks beyond its  *)
(* passband, and of the frames of its own window which were active, their  *)
(* peak and their sum (measure.rs finalize); with no active frame, those   *)
(* of all frames.  So frames without the beacon do not lower the level:    *)
(* "a 30% keyed CW beacon and a continuous carrier with the same TX power  *)
(* produce the same value".                                                *)
MeasuresItsWindow ==
    \A s \in ToSet(sent) :
        LET m == s.measurement
            powers == [i \in DOMAIN s.frames |-> TruePower(s.frames[i])]
            active == {i \in DOMAIN s.frames : Audible(s.frames[i])}
            counted == IF active = {} THEN DOMAIN s.frames ELSE active
        IN /\ m.noise = TrueNoise * Len(s.frames)
           /\ m.active = Cardinality(active) /\ m.of = Cardinality(counted)
           /\ m.frames = Len(s.frames)
           /\ m.peak = Max({powers[i] : i \in counted})
           /\ m.sum = SumFunctionOnSet(powers, counted)

(* A row of the waterfall is the latest samples, oldest first, whatever    *)
(* windows came and went meanwhile (compute_waterfall_bins).               *)
RowIsLatest ==
    \A row \in ToSet(wf.row) :
        row.samples = [i \in 1 .. WATERFALL_FFT_N |-> row.at - WATERFALL_FFT_N + i]
=============================================================================
