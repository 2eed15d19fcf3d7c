----------------------------- MODULE Visibility -----------------------------
(* visibility_windows of orbital-mechanics/src/visibility.rs, called by a    *)
(* tool for one track after another.  A track is what the propagator and     *)
(* look_angles make of a satellite and a station: an elevation, or Fault, at *)
(* each instant of a grid finer than the sampling step.                      *)
EXTENDS Integers, Sequences, FiniteSets

CONSTANTS Mask,     \* the station's elevation mask
          Start,    \* first instant sampled
          Step,     \* instants between two samples
          H,        \* half the base of the central difference
          Looks,    \* a window is looked at in so many equal parts, 200
          Fault,    \* the propagator fails at this instant
          Skies,    \* sequences of tracks: satellites over one station, or
                    \* stations under one satellite
          Ends      \* the ends of the search

ASSUME ScanAssumption ==
  /\ Mask \in Int /\ Start \in Nat
  /\ Step \in Nat \ {0} /\ H \in Nat \ {0} /\ Looks \in Nat \ {0}
  /\ Ends \subseteq Nat

ASSUME SkiesAssumption ==
  /\ Fault \notin Int
  /\ \A tracks \in Skies :
       /\ Len(tracks) \in Nat /\ DOMAIN tracks = 1 .. Len(tracks)
       /\ \A e \in Ends, i \in DOMAIN tracks :
            \A t \in Start - H .. e + H : tracks[i][t] \in Int \cup {Fault}

VARIABLES tool,      \* who scans: "handoff", "export", or nobody
          phase,     \* where the tool is
          sky, end,  \* the search it was given
          seat,      \* the track it is at
          scan,      \* the loop of the call for that track
          found      \* the windows of the tracks before it

search == <<tool, sky, end>>
scanning == <<seat, scan, found>>

NoAos == -1            \* open_aos is None
Lowest == -90          \* the elevation before the first sample

Clamp(x, lo, hi) == IF x < lo THEN lo ELSE IF x > hi THEN hi ELSE x

(* Quotient towards the grid instant below. *)
Quotient(a, b) == IF b > 0 THEN a \div b ELSE (-a) \div (-b)

(* refine_crossing: linear interpolation, then a Newton step with a central  *)
(* difference - which subtracts the elevation at t1, not at the guess.  When *)
(* the propagator fails or the slope is nil, the guess.                      *)
Refine(track, t0, t1, e0, e1) ==
  LET guess == t0 + Quotient((Mask - e0) * (t1 - t0), e1 - e0)
      em == track[guess - H]
      ep == track[guess + H]
  IN  IF e1 = e0 THEN t1
      ELSE IF Fault \in {em, ep} THEN guess
      ELSE IF ep = em THEN guess
      ELSE Clamp(guess - Quotient((e1 - Mask) * 2 * H, ep - em), t0, t1)

(* build_window looks at both ends of the window and at evenly spaced        *)
(* instants between them, here rounded down to the grid; the samples of the  *)
(* scan need not be among them.  If the propagator fails at one there is no  *)
(* window; otherwise it has the highest of them, the first of several.       *)
LookedAt(aos, los) == {aos + ((k * (los - aos)) \div Looks) : k \in 0 .. Looks}
CanBuild(track, aos, los) == \A t \in LookedAt(aos, los) : track[t] # Fault

(* Mutant: the comparison turned round. *)
BuildWindowLowest(track, aos, los) ==
  LET low == CHOOSE t \in LookedAt(aos, los) :
               \A u \in LookedAt(aos, los) : track[t] <= track[u]
  IN  [aos |-> aos, los |-> los, peak |-> low, maxElevation |-> track[low]]

BuildWindow(track, aos, los) ==
  LET looked == LookedAt(aos, los)
      peak == CHOOSE t \in looked :
                /\ \A u \in looked : track[u] <= track[t]
                /\ \A u \in looked : u < t => track[u] < track[t]
  IN  [aos |-> aos, los |-> los, peak |-> peak, maxElevation |-> track[peak]]

(* The loop's state, before its first turn. *)
ScanStart ==
  [t |-> Start, prevT |-> Start, prevVisible |-> FALSE, prevElev |-> Lowest,
   openAos |-> NoAos, windows |-> <<>>, ended |-> "no"]

(* One turn: rising, setting, or neither.  A pass already under way at the   *)
(* first sample rises there; a failure at a sample loses every window.       *)
ScanStep(s, track, last) ==
  IF s.t > last
  THEN [s EXCEPT !.ended = "ok"]     \* a pass still open is dropped
  ELSE IF track[s.t] = Fault
  THEN [s EXCEPT !.ended = "err", !.windows = <<>>]
  ELSE
    LET elev == track[s.t]
        visible == elev >= Mask
        crossing == Refine(track, s.prevT, s.t, s.prevElev, elev)
        rises == visible /\ ~s.prevVisible
        sets == ~visible /\ s.prevVisible /\ s.openAos # NoAos
    IN  [s EXCEPT
           !.t = @ + Step, !.prevT = s.t,
           !.prevVisible = visible, !.prevElev = elev,
           !.openAos = IF rises THEN crossing ELSE IF sets THEN NoAos ELSE @,
           !.windows = IF sets /\ CanBuild(track, s.openAos, crossing)
                       THEN Append(@, BuildWindow(track, s.openAos, crossing))
                       ELSE @]

-----------------------------------------------------------------------------
SearchInit ==
  /\ sky \in Skies /\ end \in Ends
  /\ seat = 1 /\ scan = ScanStart /\ found = <<>>

Scanning == phase = "scan" /\ seat \in DOMAIN sky /\ scan.ended = "no"
Scanned == phase = "scan" /\ seat \in DOMAIN sky /\ scan.ended # "no"
AllScanned == phase = "scan" /\ seat \notin DOMAIN sky

ScanTurn ==
  /\ Scanning
  /\ scan' = ScanStep(scan, sky[seat], end)
  /\ UNCHANGED <<search, phase, seat, found>>

(* The tool has what it makes of one call, and calls for the next track. *)
GoOnWith(windows) ==
  found' = Append(found, windows) /\ seat' = seat + 1 /\ scan' = ScanStart

-----------------------------------------------------------------------------
(* The instants the loop looks at, and what it sees there of a track. *)
OnGrid(t) == (t - Start) % Step = 0
Samples == {t \in Start .. end : OnGrid(t)}
Seen(track, t) == track[t] # Fault /\ track[t] >= Mask
Clear(track) == \A t \in Samples : track[t] # Fault

(* From one sample to another the track is above the mask, and was not just  *)
(* before.                                                                   *)
Stretch(track, first, last) ==
  /\ first \in Samples /\ last \in Samples /\ first <= last
  /\ \A t \in Samples : first <= t /\ t <= last => Seen(track, t)
  /\ first = Start \/ ~Seen(track, first - Step)

(* The passes of the sampled track: the maximal stretches of samples above   *)
(* the mask that end before the search does, by their first and last sample. *)
Passes(track) ==
  {p \in Samples \X Samples :
     /\ Stretch(track, p[1], p[2])
     /\ p[2] + Step \in Samples /\ ~Seen(track, p[2] + Step)}

(* A window is the window of one pass: it holds every sample of the pass and *)
(* reaches no further than the samples either side of it.  However wrong the *)
(* Newton step, the clamp keeps it there.                                    *)
Opens(aos, first) == first - Step <= aos /\ Start <= aos /\ aos <= first
Around(w, p) == Opens(w.aos, p[1]) /\ p[2] <= w.los /\ w.los <= p[2] + Step

EachWindowIsAPass(track, windows) ==
  \A i \in DOMAIN windows : \E p \in Passes(track) : Around(windows[i], p)

(* No pass is lost but to a failure of the propagator inside it, and then    *)
(* that pass alone; the pass still open at the end is the only other one     *)
(* left out, and Passes does not count it.                                   *)
Kept(track, windows, p) ==
  \/ \E i \in DOMAIN windows : Around(windows[i], p)
  \/ \E t \in p[1] - Step .. p[2] + Step : t >= Start /\ track[t] = Fault
PassesAreKept(track, windows) == \A p \in Passes(track) : Kept(track, windows, p)

(* In order and apart, at every moment of the scan: a dish or a contact plan *)
(* can take the windows one after the other.  They may touch, never overlap. *)
InOrder(windows) ==
  /\ \A i \in DOMAIN windows : windows[i].aos <= windows[i].los
  /\ \A i, j \in DOMAIN windows : i < j => windows[i].los <= windows[j].aos
NotYetOver(windows, aos) ==
  aos # NoAos => \A i \in DOMAIN windows : windows[i].los <= aos

(* The highest point reported is a point of the window, and as high as the  *)
(* track is once in every part as long as the distance between two looks.    *)
(* No more: a peak narrower than that can be missed, and a pass that clears  *)
(* the mask for so short a time is reported with its highest point below it. *)
PeakIsHighest(track, windows) ==
  \A i \in DOMAIN windows :
    LET w == windows[i]
    IN  /\ w.aos <= w.peak /\ w.peak <= w.los /\ w.maxElevation = track[w.peak]
        /\ \A t \in w.aos .. w.los : \E u \in w.aos .. t :
             /\ Looks * (t - u) <= w.los - w.aos
             /\ track[u] # Fault /\ track[u] <= w.maxElevation

(* What a caller of visibility_windows relies on, whatever the track; and    *)
(* the call fails as a whole exactly when a sample does.                     *)
WindowsAreThePasses ==
  (phase = "scan" /\ seat \in DOMAIN sky) =>
    LET track == sky[seat]
    IN  /\ scan.ended = "ok" => /\ EachWindowIsAPass(track, scan.windows)
                                /\ PassesAreKept(track, scan.windows)
        /\ InOrder(scan.windows) /\ NotYetOver(scan.windows, scan.openAos)
        /\ PeakIsHighest(track, scan.windows)
        /\ scan.ended # "no" => (scan.ended = "ok" <=> Clear(track))

-----------------------------------------------------------------------------
(* Why: what the loop knows before it looks at sample scan.t.  The windows   *)
(* are those of the passes that were over by then, each ending before the    *)
(* next pass begins.                                                         *)
Window == [aos : Int, los : Int, peak : Int, maxElevation : Int]
Found(track, windows, t) ==
  /\ windows \in Seq(Window)
  /\ \A i \in DOMAIN windows :
       \E p \in Passes(track) : p[2] + Step < t /\ Around(windows[i], p)
  /\ \A p \in Passes(track) : p[2] + Step < t => Kept(track, windows, p)
  /\ InOrder(windows) /\ PeakIsHighest(track, windows)
  /\ \A i, j \in DOMAIN windows : i < j => windows[i].los < windows[j].los

(* The sample before, and the pass that is under way there.                  *)
Remembers(s, track) ==
  IF s.t = Start
  THEN s.prevT = Start /\ s.prevElev = Lowest /\ ~s.prevVisible
  ELSE /\ s.prevT = s.t - Step /\ s.prevT \in Samples
       /\ s.prevElev = track[s.prevT] /\ s.prevVisible = Seen(track, s.prevT)
UnderWay(s, track) ==
  IF s.prevVisible
  THEN \E first \in Samples :
         /\ Stretch(track, first, s.prevT) /\ Opens(s.openAos, first)
         /\ \A i \in DOMAIN s.windows :
              s.windows[i].los < first /\ s.windows[i].los <= s.openAos
  ELSE s.openAos = NoAos

Scans(s, track) ==
  /\ s \in [t : Int, prevT : Int, prevVisible : BOOLEAN, prevElev : Int,
            openAos : Int, windows : Seq(Window), ended : {"no", "ok", "err"}]
  /\ s.ended # "err" =>
       /\ OnGrid(s.t) /\ Start <= s.t
       /\ \A t \in Samples : t < s.t => track[t] # Fault
       /\ Remembers(s, track) /\ UnderWay(s, track) /\ Found(track, s.windows, s.t)
  /\ s.ended = "ok" => s.t > end
  /\ s.ended = "err" => s.windows = <<>> /\ ~Clear(track)

(* What a tool has of a call that is over: every window, or none if it       *)
(* failed.                                                                   *)
Answered(track, windows) ==
  IF Clear(track) THEN Found(track, windows, end + 1) ELSE windows = <<>>

ScanInv ==
  /\ sky \in Skies /\ end \in Ends
  /\ found \in Seq(Seq(Window)) /\ Len(found) <= Len(sky)
  /\ \A i \in DOMAIN found : Answered(sky[i], found[i])
  /\ phase = "scan" => /\ seat = Len(found) + 1
                       /\ seat \in DOMAIN sky => Scans(scan, sky[seat])
=============================================================================
