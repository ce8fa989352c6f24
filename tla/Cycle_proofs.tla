----------------------------- MODULE Cycle_proofs -----------------------------
(***************************************************************************)
(* Proofs about what a decision cycle rests on, for every set of assets,   *)
(* horizon, rating, limit, battery and set of derates: a plan is found and *)
(* accepted wherever the inputs allow one, actions stay within their       *)
(* envelopes, and the model behind a forecast is one that the operator's   *)
(* criteria admit; and that the composed back office is a behaviour of     *)
(* each of its parts.                                                      *)
(***************************************************************************)
EXTENDS Office_proofs

-----------------------------------------------------------------------------
(* Planning.  The invariant types what a cycle has in hand and bounds its  *)
(* generation and load by the ratings the forecasts rest on.  With it, a   *)
(* servable demand has a plan that leaves the battery alone, curtails      *)
(* everything and sheds what import cannot cover; and the limits the       *)
(* validator checks are those of the optimizer wherever no generation is   *)
(* negative.                                                               *)

-----------------------------------------------------------------------------
(* Arithmetic.                                                             *)
LEMMA ScaleMonotone ==
  ASSUME NEW p \in Nat, NEW a \in Int, NEW b \in Int, a <= b
  PROVE  p * a <= p * b
<1>1. PICK d \in Nat : b = a + d
  <2>1. b - a \in Nat /\ b = a + (b - a)
    OBVIOUS
  <2> QED
    BY <2>1
<1>2. p * b = p * a + p * d
  BY <1>1
<1>3. p * d \in Nat
  BY <1>1
<1>4. p * a \in Int
  OBVIOUS
<1> QED
  BY <1>2, <1>3, <1>4

LEMMA LesserFacts ==
  ASSUME NEW a \in Int, NEW b \in Int
  PROVE  Lesser(a, b) \in Int /\ Lesser(a, b) <= a /\ Lesser(a, b) <= b
BY DEF Lesser

LEMMA GreaterFacts ==
  ASSUME NEW a \in Int, NEW b \in Int
  PROVE  Greater(a, b) \in Int /\ Greater(a, b) >= a /\ Greater(a, b) >= b
BY DEF Greater

-----------------------------------------------------------------------------
(* What the optimizer may be given.                                        *)
InputsTyped(in) ==
  /\ in.gen \in [Hours -> Int] /\ in.load \in [Hours -> Nat]
  /\ \A t \in Hours : in.gen[t] <= MaxKw /\ 2 * in.load[t] <= 3 * MaxKw
  /\ in.soc \in Int /\ in.import \in Nat /\ in.export \in Nat /\ in.power \in Nat

(* The plan that leaves the battery alone and curtails all there is.       *)
ShedOf(t, in) ==
  CHOOSE k \in 0..in.load[t] : 100 * k <= ShedPct * in.load[t] /\ in.load[t] - k <= in.import

Fallback(in) ==
  [t \in Hours |-> [charge |-> 0, discharge |-> 0, soc |-> in.soc,
                    curtail |-> in.gen[t], shed |-> ShedOf(t, in)]]

LEMMA ShedFacts ==
  ASSUME NEW in, InputsTyped(in), Servable(in), NEW t \in Hours
  PROVE  /\ ShedOf(t, in) \in 0..MaxKw
         /\ ShedOf(t, in) <= in.load[t]
         /\ 100 * ShedOf(t, in) <= ShedPct * in.load[t]
         /\ in.load[t] - ShedOf(t, in) <= in.import
<1> DEFINE l == in.load[t]
           k == ShedOf(t, in)
<1>1. l \in Nat /\ 2 * l <= 3 * MaxKw /\ in.import \in Nat /\ MaxKw \in Nat
  BY PlanningAssumption DEF InputsTyped
<1>2. k \in 0..l /\ 100 * k <= ShedPct * l /\ l - k <= in.import
  <2>1. \E x \in 0..l : 100 * x <= ShedPct * l /\ l - x <= in.import
    BY DEF Servable
  <2> QED
    BY <2>1 DEF ShedOf
<1>3. ShedPct \in Nat /\ ShedPct <= 50
  BY PlanningAssumption
<1>4. ShedPct * l <= 50 * l
  <2> HIDE DEF l
  <2>1. l * ShedPct <= l * 50
    BY <1>1, <1>3, ScaleMonotone
  <2> QED
    BY <2>1, <1>1, <1>3
<1>5. k <= MaxKw
  <2> HIDE DEF l, k
  <2>1. ShedPct * l \in Int
    BY <1>1, <1>3
  <2> QED
    BY <2>1, <1>1, <1>2, <1>4
<1> HIDE DEF k
<1>6. k \in 0..MaxKw
  BY <1>1, <1>2, <1>5
<1> QED
  BY <1>2, <1>6, <1>1 DEF k

(* A servable demand has a plan.                                           *)
LEMMA ServableHasPlan ==
  ASSUME NEW in, InputsTyped(in), Servable(in)
  PROVE  Fallback(in) \in Plans(in)
<1> DEFINE p == Fallback(in)
<1>1. /\ Power \in Nat /\ Gain \in Nat /\ Drain \in Nat /\ MaxKw \in Nat
      /\ SocMin \in Int /\ SocMax \in Int /\ in.soc \in SocMin..SocMax
      /\ in.power \in Nat /\ in.import \in Nat /\ in.export \in Nat
  BY PlanningAssumption DEF InputsTyped, Servable
<1>2. ASSUME NEW t \in Hours PROVE p[t] \in Step /\ HourFits(p[t], t, in)
  <2>1. in.gen[t] \in 0..MaxKw /\ in.load[t] \in Nat
    BY <1>1 DEF InputsTyped, Servable
  <2>2. /\ ShedOf(t, in) \in 0..MaxKw
        /\ ShedOf(t, in) <= in.load[t]
        /\ 100 * ShedOf(t, in) <= ShedPct * in.load[t]
        /\ in.load[t] - ShedOf(t, in) <= in.import
    BY ShedFacts
  <2>3. p[t] = [charge |-> 0, discharge |-> 0, soc |-> in.soc,
                curtail |-> in.gen[t], shed |-> ShedOf(t, in)]
    BY DEF Fallback
  <2>4. p[t] \in Step
    BY <2>1, <2>2, <2>3, <1>1 DEF Step
  <2>5. Greater(in.gen[t], 0) = in.gen[t] /\ Greater(in.load[t], 0) = in.load[t]
    BY <2>1, <1>1 DEF Greater
  <2>6. Net(p[t], t, in) = in.load[t] - ShedOf(t, in)
    BY <2>1, <2>2, <2>3, <1>1 DEF Net
  <2>7. Bought(p[t], t, in) <= in.import
    BY <2>6, <2>2, <2>1, <1>1 DEF Bought, Greater
  <2>8. Sold(p[t], t, in) <= in.export
    BY <2>6, <2>2, <2>1, <1>1 DEF Sold, Greater
  <2>9. HourFits(p[t], t, in)
    BY <2>3, <2>5, <2>7, <2>8, <2>1, <2>2, <1>1 DEF HourFits
  <2> QED
    BY <2>4, <2>9
<1>3. p \in Candidates(in)
  <2>1. p = [t \in Hours |-> p[t]]
    BY DEF Fallback
  <2> HIDE DEF p
  <2> QED
    BY <2>1, <1>2 DEF Candidates
<1>4. ASSUME NEW t \in Hours
      PROVE  p[t].soc = SocBefore(p, t, in) + Gain * p[t].charge - Drain * p[t].discharge
  <2>1. p[t].soc = in.soc /\ p[t].charge = 0 /\ p[t].discharge = 0
    BY DEF Fallback
  <2>2. SocBefore(p, t, in) = in.soc
    <3>1. CASE t = 1
      BY <3>1 DEF SocBefore
    <3>2. CASE t # 1
      <4>1. Horizon \in Nat /\ t \in 1..Horizon
        BY PlanningAssumption DEF Hours
      <4>2. t - 1 \in Hours
        BY <4>1, <3>2 DEF Hours
      <4> QED
        BY <4>2, <3>2 DEF SocBefore, Fallback
    <3> QED
      BY <3>1, <3>2
  <2>3. Gain * 0 = 0 /\ Drain * 0 = 0
    BY <1>1
  <2> QED
    BY <2>1, <2>2, <2>3, <1>1
<1>5. Feasible(p, in)
  BY <1>2, <1>4 DEF Feasible
<1> QED
  BY <1>3, <1>5 DEF Plans

(* The validator accepts every plan, unless generation is negative.        *)
LEMMA PlanValidates ==
  ASSUME NEW in, InputsTyped(in), \A t \in Hours : in.gen[t] >= 0, NEW p \in Plans(in)
  PROVE  Validates(p, in)
<1> SUFFICES ASSUME NEW t \in Hours
             PROVE  /\ p[t].charge <= in.power /\ p[t].discharge <= in.power
                    /\ p[t].charge = 0 \/ p[t].discharge = 0
                    /\ SocMin <= p[t].soc /\ p[t].soc <= SocMax
                    /\ Bought(p[t], t, in) <= in.import /\ Sold(p[t], t, in) <= in.export
                    /\ 100 * p[t].shed <= ShedPct * in.load[t]
                    /\ p[t].curtail <= in.gen[t]
  BY DEF Validates
<1>1. p[t] \in Step /\ HourFits(p[t], t, in)
  BY DEF Plans, Candidates, Feasible
<1>2. in.gen[t] \in Nat /\ in.load[t] \in Nat
  BY DEF InputsTyped
<1>3. Greater(in.gen[t], 0) = in.gen[t] /\ Greater(in.load[t], 0) = in.load[t]
  BY <1>2 DEF Greater
<1>4. SocMin <= p[t].soc /\ p[t].soc <= SocMax
  BY <1>1, PlanningAssumption DEF Step
<1> QED
  BY <1>1, <1>3, <1>4 DEF HourFits

-----------------------------------------------------------------------------
(* The inputs of a cycle, with the ratings the forecasts rest on.          *)
Given ==
  [gen : [Hours -> Int], load : [Hours -> Nat], soc : Int, import : Nat, export : Nat,
   power : Nat, rated : [Parts -> 1..MaxKw], basis : [Parts -> 1..MaxKw]]

InputsOk(in) ==
  /\ in \in Given
  /\ \A t \in Hours : in.gen[t] <= in.basis["plant"] /\ in.load[t] <= in.basis["load"]

LEMMA InputsOkTyped ==
  ASSUME NEW in, InputsOk(in)
  PROVE  InputsTyped(in)
<1>1. MaxKw \in Nat /\ in \in Given
  BY PlanningAssumption DEF InputsOk
<1>2. /\ in.gen \in [Hours -> Int] /\ in.load \in [Hours -> Nat]
      /\ in.soc \in Int /\ in.import \in Nat /\ in.export \in Nat /\ in.power \in Nat
  BY <1>1 DEF Given
<1>3. in.basis["plant"] \in 1..MaxKw /\ in.basis["load"] \in 1..MaxKw
  BY <1>1 DEF Given, Parts
<1>4. ASSUME NEW t \in Hours PROVE in.gen[t] <= MaxKw /\ 2 * in.load[t] <= 3 * MaxKw
  <2>1. in.gen[t] \in Int /\ in.load[t] \in Nat
    BY <1>2
  <2>2. in.gen[t] <= in.basis["plant"] /\ in.load[t] <= in.basis["load"]
    BY DEF InputsOk
  <2> QED
    BY <2>1, <2>2, <1>1, <1>3
<1> QED
  BY <1>2, <1>4 DEF InputsTyped

(* Every scenario gives the optimizer inputs of the same kind.             *)
LEMMA ScaledTyped ==
  ASSUME NEW series \in [Hours -> Int], NEW pct \in Nat, NEW rating \in 1..MaxKw
  PROVE  Scaled(series, pct, rating) \in [Hours -> Int] /\
         \A t \in Hours : Scaled(series, pct, rating)[t] <= MaxKw
<1>1. ASSUME NEW t \in Hours
      PROVE  /\ Scaled(series, pct, rating)[t] \in Int
             /\ Scaled(series, pct, rating)[t] <= MaxKw
  <2>1. (series[t] * pct) \div 100 \in Int /\ rating \in Int /\ rating <= MaxKw /\ MaxKw \in Int
    BY PlanningAssumption
  <2>2. Scaled(series, pct, rating)[t] = Lesser((series[t] * pct) \div 100, rating)
    BY DEF Scaled
  <2> QED
    BY <2>1, <2>2, LesserFacts
<1>2. Scaled(series, pct, rating) = [t \in Hours |-> Scaled(series, pct, rating)[t]]
  BY DEF Scaled
<1> QED
  BY <1>1, <1>2

LEMMA PerturbTyped ==
  ASSUME NEW in, InputsOk(in), NEW x \in Scenarios
  PROVE  InputsTyped(Perturb(in, x))
<1>1. InputsTyped(in) /\ in \in Given /\ in.rated["plant"] \in 1..MaxKw /\ MaxKw \in Nat
  BY InputsOkTyped, PlanningAssumption DEF InputsOk, Given, Parts
<1>2. ASSUME NEW pct \in Nat
      PROVE  InputsTyped([in EXCEPT !.gen = Scaled(@, pct, in.rated["plant"])])
  <2> DEFINE gen == Scaled(in.gen, pct, in.rated["plant"])
  <2>1. gen \in [Hours -> Int] /\ \A t \in Hours : gen[t] <= MaxKw
    BY <1>1, ScaledTyped DEF InputsTyped
  <2> HIDE DEF gen
  <2>2. InputsTyped([in EXCEPT !.gen = gen])
    BY <2>1, <1>1 DEF InputsTyped, Given
  <2> QED
    BY <2>2 DEF gen
<1>3. CASE x = "CLOUD_COVER"
  <2>1. Perturb(in, x) = [in EXCEPT !.gen = Scaled(@, 30, in.rated["plant"])]
    BY <1>3 DEF Perturb
  <2> QED
    BY <2>1, <1>2
<1>4. CASE x = "WIND_SURGE"
  <2>1. Perturb(in, x) = [in EXCEPT !.gen = Scaled(@, 160, in.rated["plant"])]
    BY <1>4 DEF Perturb
  <2> QED
    BY <2>1, <1>2
<1>5. CASE x = "DEMAND_SHOCK"
  <2> DEFINE load == [t \in Hours |-> (in.load[t] * 150) \div 100]
  <2>1. Perturb(in, x) = [in EXCEPT !.load = load]
    BY <1>5 DEF Perturb
  <2>2. ASSUME NEW t \in Hours PROVE load[t] \in Nat /\ 2 * load[t] <= 3 * MaxKw
    <3>1. in.load[t] \in Nat /\ in.load[t] <= MaxKw
      <4>1. in.load[t] \in Nat /\ in.basis["load"] \in 1..MaxKw
        BY <1>1 DEF Given, Parts
      <4> QED
        BY <4>1, <1>1 DEF InputsOk
    <3> QED
      BY <3>1, <1>1
  <2>3. load \in [Hours -> Nat]
    BY <2>2
  <2> HIDE DEF load
  <2>4. InputsTyped([in EXCEPT !.load = load])
    BY <2>2, <2>3, <1>1 DEF InputsTyped, Given
  <2> QED
    BY <2>1, <2>4
<1>6. CASE x = "LINE_CONGESTION"
  <2>1. Perturb(in, x) = [in EXCEPT !.import = (@ * 30) \div 100, !.export = (@ * 30) \div 100]
    BY <1>6 DEF Perturb
  <2>2. (in.import * 30) \div 100 \in Nat /\ (in.export * 30) \div 100 \in Nat
    BY <1>1 DEF InputsTyped
  <2> QED
    BY <2>1, <2>2, <1>1 DEF InputsTyped, Given
<1>7. CASE x = "BATTERY_OUTAGE"
  <2>1. Perturb(in, x) = [in EXCEPT !.power = 0]
    BY <1>7 DEF Perturb
  <2> QED
    BY <2>1, <1>1 DEF InputsTyped, Given
<1>8. CASE x = "PRICE_SPIKE"
  <2>1. Perturb(in, x) = in
    BY <1>8 DEF Perturb
  <2> QED
    BY <2>1, <1>1
<1> QED
  BY <1>3, <1>4, <1>5, <1>6, <1>7, <1>8 DEF Scenarios

-----------------------------------------------------------------------------
(* The derates in force only ever lower a forecast.                        *)
LEMMA DeratedLowers ==
  ASSUME derates \subseteq Derates, NEW series \in [Hours -> Nat], NEW rating \in 1..MaxKw
  PROVE  /\ Derated(series, rating) \in [Hours -> Int]
         /\ \A t \in Hours : Derated(series, rating)[t] <= series[t]
<1>1. ASSUME NEW t \in Hours
      PROVE  /\ Derated(series, rating)[t] \in Int
             /\ Derated(series, rating)[t] <= series[t]
  <2> DEFINE caps == {(rating * d.pct) \div 100 :
                        d \in {e \in derates : e.from <= t /\ t <= e.to}}
             least == CHOOSE c \in caps : \A o \in caps : c <= o
  <2>1. Derated(series, rating)[t] =
          IF caps = {} THEN series[t] ELSE Lesser(series[t], least)
    BY DEF Derated
  <2>2. CASE caps = {}
    BY <2>1, <2>2
  <2>3. CASE caps # {}
    <3>1. caps \in SUBSET {(r * d.pct) \div 100 : r \in 1..MaxKw, d \in Derates}
      OBVIOUS
    <3>2. \E c \in caps : \A o \in caps : c <= o
      <4> HIDE DEF caps
      <4> QED
        BY <3>1, <2>3, DeratesAssumption
    <3>3. least \in caps
      <4> HIDE DEF caps
      <4> QED
        BY <3>2
    <3>4. PICK d \in Derates : least = (rating * d.pct) \div 100
      BY <3>3
    <3>5. Derated(series, rating)[t] = Lesser(series[t], least)
      BY <2>1, <2>3
    <3> HIDE DEF least, caps
    <3>6. least \in Int
      <4>1. d.pct \in Int /\ rating \in Int
        BY PlanningAssumption
      <4>2. rating * d.pct \in Int
        BY <4>1
      <4> QED
        BY <3>4, <4>2
    <3>7. series[t] \in Int
      OBVIOUS
    <3> QED
      BY <3>5, <3>6, <3>7, LesserFacts
  <2> HIDE DEF caps
  <2> QED
    BY <2>2, <2>3
<1>2. Derated(series, rating) = [t \in Hours |-> Derated(series, rating)[t]]
  BY DEF Derated
<1> QED
  BY <1>1, <1>2

-----------------------------------------------------------------------------
(* The invariant: types, what a cycle has in hand, and that nothing is     *)
(* recorded before its end.                                                *)
ForecastsOk ==
  /\ forecasts \in [gen : [Hours -> Nat], load : [Hours -> Nat], soc : Int,
                    basis : [Parts -> 1..MaxKw]]
  /\ \A t \in Hours : /\ forecasts.gen[t] <= forecasts.basis["plant"]
                      /\ forecasts.load[t] <= forecasts.basis["load"]

RegistryOk ==
  /\ rated \in [Parts -> 1..MaxKw] /\ learned \in [Parts -> 1..MaxKw]
  /\ derates \subseteq Derates

PlanInHand ==
  /\ phase = "forecast" => ForecastsOk
  /\ phase \in {"loaded", "done"} => InputsOk(inputs)

Unrecorded == phase # "done" => decision = "none" /\ orders = {} /\ refused = {}

PlanInv == RegistryOk /\ PlanInHand /\ Unrecorded /\ FailsForCause /\ EnvelopeHolds

LEMMA NothingRecorded ==
  decision = "none" /\ orders = {} /\ refused = {} => FailsForCause /\ EnvelopeHolds
BY DEF FailsForCause, EnvelopeHolds

(* A patched rating and a new derate leave what the cycle has read alone.  *)
LEMMA OthersKeep ==
  ASSUME PlanInv, FileDerate \/ \E x \in Parts : PatchRating(x)
  PROVE  PlanInv'
<1>1. UNCHANGED <<learned, phase, forecasts, inputs, decision, planStatus, orders, refused>>
  BY DEF FileDerate, PatchRating, recorded
<1>2. RegistryOk'
  <2>1. CASE FileDerate
    BY <2>1 DEF FileDerate, PlanInv, RegistryOk
  <2>2. CASE \E x \in Parts : PatchRating(x)
    <3>0. PICK x \in Parts : PatchRating(x)
      BY <2>2
    <3>1. PICK r \in Ratings[x] : rated' = [rated EXCEPT ![x] = r]
      BY <3>0 DEF PatchRating
    <3>2. r \in 1..MaxKw
      BY PlanningAssumption DEF Parts
    <3>3. UNCHANGED derates
      BY <2>2 DEF PatchRating
    <3> QED
      BY <1>1, <3>1, <3>2, <3>3 DEF PlanInv, RegistryOk
  <2> QED
    BY <2>1, <2>2
<1>3. PlanInHand' /\ Unrecorded'
  BY <1>1 DEF PlanInv, PlanInHand, Unrecorded, ForecastsOk, InputsOk
<1>4. FailsForCause'
  BY <1>1 DEF PlanInv, FailsForCause
<1>5. EnvelopeHolds'
  BY <1>1 DEF PlanInv, EnvelopeHolds
<1> QED
  BY <1>2, <1>3, <1>4, <1>5 DEF PlanInv

(* Forecasts are within the ratings they rest on.                          *)
LEMMA ForecastsKeep ==
  ASSUME PlanInv, MakeForecasts
  PROVE  PlanInv'
<1>1. /\ phase = "idle" /\ phase' = "forecast" /\ learned' \in {learned, rated}
      /\ UNCHANGED <<rated, derates, inputs, decision, planStatus, orders, refused>>
  BY DEF MakeForecasts, recorded
<1>2. RegistryOk'
  BY <1>1 DEF PlanInv, RegistryOk
<1>3. PICK by \in [Parts -> {"model", "physics"}], soc \in Socs :
        LET basis == [x \in Parts |-> IF by[x] = "model" THEN learned'[x] ELSE rated[x]] IN
          \E gen \in [Hours -> 0..basis["plant"]], load \in [Hours -> 0..basis["load"]] :
            forecasts' = [gen |-> gen, load |-> load, soc |-> soc, basis |-> basis]
  BY DEF MakeForecasts, recorded
<1> DEFINE basis == [x \in Parts |-> IF by[x] = "model" THEN learned'[x] ELSE rated[x]]
<1>4. basis \in [Parts -> 1..MaxKw]
  BY <1>1, <1>2 DEF RegistryOk
<1>5. PICK gen \in [Hours -> 0..basis["plant"]], load \in [Hours -> 0..basis["load"]] :
        forecasts' = [gen |-> gen, load |-> load, soc |-> soc, basis |-> basis]
  BY <1>3
<1> HIDE DEF basis
<1>6. ForecastsOk'
  <2>1. basis["plant"] \in 1..MaxKw /\ basis["load"] \in 1..MaxKw /\ MaxKw \in Nat
    BY <1>4, PlanningAssumption DEF Parts
  <2>2. gen \in [Hours -> Nat] /\ load \in [Hours -> Nat]
    BY <2>1
  <2>3. \A t \in Hours : gen[t] <= basis["plant"] /\ load[t] <= basis["load"]
    BY <2>1
  <2>4. soc \in Int
    BY PlanningAssumption
  <2> QED
    BY <1>4, <1>5, <2>2, <2>3, <2>4 DEF ForecastsOk
<1>7. PlanInHand' /\ Unrecorded'
  BY <1>1, <1>6 DEF PlanInv, PlanInHand, Unrecorded
<1>8. decision' = "none" /\ orders' = {} /\ refused' = {}
  BY <1>1 DEF PlanInv, Unrecorded
<1>9. FailsForCause' /\ EnvelopeHolds'
  BY <1>8 DEF FailsForCause, EnvelopeHolds
<1> QED
  BY <1>2, <1>7, <1>9 DEF PlanInv

(* What the optimizer is given is at most what was forecast.               *)
LEMMA InputsKeep ==
  ASSUME PlanInv, LoadInputs
  PROVE  PlanInv'
<1>1. /\ phase = "forecast" /\ phase' = "loaded"
      /\ UNCHANGED <<rated, learned, derates, decision, planStatus, orders, refused>>
  BY DEF LoadInputs, recorded
<1> DEFINE gen == Derated(forecasts.gen, rated["plant"])
<1>2. PICK l \in Limits :
        inputs' = [gen |-> gen, load |-> forecasts.load,
                   soc |-> forecasts.soc, import |-> l.import, export |-> l.export,
                   power |-> Power, rated |-> rated, basis |-> forecasts.basis]
  BY DEF LoadInputs, recorded
<1>3. ForecastsOk /\ RegistryOk
  BY <1>1 DEF PlanInv, PlanInHand
<1>4. gen \in [Hours -> Int] /\ \A t \in Hours : gen[t] <= forecasts.gen[t]
  <2>1. forecasts.gen \in [Hours -> Nat] /\ rated["plant"] \in 1..MaxKw /\ derates \subseteq Derates
    BY <1>3 DEF ForecastsOk, RegistryOk, Parts
  <2> QED
    BY <2>1, DeratedLowers
<1> HIDE DEF gen
<1>5. InputsOk(inputs')
  <2>1. l.import \in Nat /\ l.export \in Nat /\ Power \in Nat /\ MaxKw \in Nat
    BY PlanningAssumption
  <2>2. inputs' \in Given
    BY <1>2, <1>3, <1>4, <2>1 DEF Given, ForecastsOk, RegistryOk
  <2>3. ASSUME NEW t \in Hours
        PROVE  inputs'.gen[t] <= inputs'.basis["plant"] /\ inputs'.load[t] <= inputs'.basis["load"]
    <3>1. /\ forecasts.gen[t] \in Nat /\ gen[t] \in Int
          /\ forecasts.basis["plant"] \in 1..MaxKw
      BY <1>3, <1>4 DEF ForecastsOk, Parts
    <3>2. gen[t] <= forecasts.basis["plant"] /\ forecasts.load[t] <= forecasts.basis["load"]
      <4>1. /\ forecasts.gen[t] <= forecasts.basis["plant"]
            /\ forecasts.load[t] <= forecasts.basis["load"] /\ gen[t] <= forecasts.gen[t]
        BY <1>3, <1>4 DEF ForecastsOk
      <4> QED
        BY <4>1, <3>1, <2>1
    <3> QED
      BY <1>2, <3>2
  <2> QED
    BY <2>2, <2>3 DEF InputsOk
<1>6. RegistryOk' /\ PlanInHand' /\ Unrecorded'
  BY <1>1, <1>3, <1>5 DEF PlanInv, RegistryOk, PlanInHand, Unrecorded
<1>7. decision' = "none" /\ orders' = {} /\ refused' = {}
  BY <1>1 DEF PlanInv, Unrecorded
<1>8. FailsForCause' /\ EnvelopeHolds'
  BY <1>7 DEF FailsForCause, EnvelopeHolds
<1> QED
  BY <1>6, <1>8 DEF PlanInv

(* What ends a cycle takes what it recorded out of view.                   *)
LEMMA EndsKeep ==
  ASSUME PlanInv, GiveUp \/ NextCycle
  PROVE  PlanInv'
<1>1. phase' = "idle" /\ UNCHANGED <<rated, learned, derates>>
  BY DEF GiveUp, NextCycle, recorded
<1>2. decision' = "none" /\ orders' = {} /\ refused' = {}
  BY DEF PlanInv, Unrecorded, GiveUp, NextCycle, recorded
<1>3. FailsForCause' /\ EnvelopeHolds'
  BY <1>2 DEF FailsForCause, EnvelopeHolds
<1>4. RegistryOk' /\ PlanInHand' /\ Unrecorded'
  BY <1>1, <1>2 DEF PlanInv, RegistryOk, PlanInHand, Unrecorded
<1> QED
  BY <1>3, <1>4 DEF PlanInv

-----------------------------------------------------------------------------
(* Of the orders of a plan, only those that are capped by a rating can ask *)
(* for more than their envelope, and only if the forecast rests on a higher*)
(* one.                                                                    *)
LEMMA OrdersWithin ==
  ASSUME NEW in, InputsOk(in), NEW p \in Plans(in), NEW o \in Orders(p[1], in),
         o.quantity > o.max
  PROVE  \/ o.type = "curtail" /\ in.rated["plant"] < in.basis["plant"]
         \/ o.type = "demand_response" /\ in.rated["load"] < in.basis["load"]
<1> DEFINE s == p[1]
<1>1. 1 \in Hours
  BY PlanningAssumption DEF Hours
<1>2. s \in Step /\ HourFits(s, 1, in)
  BY <1>1 DEF Plans, Candidates, Feasible
<1> HIDE DEF s
<1>3. /\ in.gen[1] \in Int /\ in.load[1] \in Nat /\ in.import \in Nat /\ in.export \in Nat
      /\ in.gen[1] <= in.basis["plant"] /\ in.load[1] <= in.basis["load"]
      /\ in.rated["plant"] \in Nat /\ in.rated["load"] \in Nat
      /\ in.basis["plant"] \in Nat /\ in.basis["load"] \in Nat
  BY <1>1, PlanningAssumption DEF InputsOk, Given, Parts
<1>4. /\ s.charge \in Nat /\ s.discharge \in Nat /\ s.curtail \in Nat /\ s.shed \in Nat
  BY <1>2, PlanningAssumption DEF Step
<1>5. /\ Bought(s, 1, in) <= in.import /\ Sold(s, 1, in) <= in.export
      /\ s.curtail <= Greater(in.gen[1], 0)
      /\ 100 * s.shed <= ShedPct * Greater(in.load[1], 0)
  BY <1>2 DEF HourFits
<1>6. Net(s, 1, in) \in Int /\ -Net(s, 1, in) \in Int
  BY <1>3, <1>4 DEF Net
<1>7. Bought(s, 1, in) \in Int /\ Sold(s, 1, in) \in Int
  BY <1>6 DEF Bought, Sold, Greater
<1>8. \/ o = Order("charge", s.charge, s.charge)
      \/ o = Order("discharge", s.discharge, s.discharge)
      \/ o = Order("buy", Bought(s, 1, in), in.import)
      \/ o = Order("sell", Sold(s, 1, in), in.export)
      \/ o = Order("curtail", s.curtail, in.rated["plant"])
      \/ o = Order("demand_response", s.shed, (in.rated["load"] * ShedPct) \div 100)
  BY DEF Orders, s
<1>9. CASE \/ o = Order("charge", s.charge, s.charge)
           \/ o = Order("discharge", s.discharge, s.discharge)
           \/ o = Order("buy", Bought(s, 1, in), in.import)
           \/ o = Order("sell", Sold(s, 1, in), in.export)
  BY <1>9, <1>3, <1>4, <1>5, <1>7 DEF Order
<1>10. CASE o = Order("curtail", s.curtail, in.rated["plant"])
  <2>1. o.type = "curtail" /\ s.curtail > in.rated["plant"]
    BY <1>10 DEF Order
  <2>2. s.curtail <= in.basis["plant"]
    BY <1>3, <1>4, <1>5 DEF Greater
  <2> QED
    BY <2>1, <2>2, <1>3, <1>4
<1>11. CASE o = Order("demand_response", s.shed, (in.rated["load"] * ShedPct) \div 100)
  <2> DEFINE r == in.rated["load"]
             b == in.basis["load"]
  <2>1. o.type = "demand_response" /\ s.shed > (r * ShedPct) \div 100
    BY <1>11 DEF Order
  <2>2. r \in Nat /\ b \in Nat /\ ShedPct \in Nat
    BY <1>3, PlanningAssumption
  <2>3. 100 * s.shed <= ShedPct * b
    <3>1. Greater(in.load[1], 0) = in.load[1]
      BY <1>3 DEF Greater
    <3>2. ShedPct * in.load[1] <= ShedPct * b
      BY <1>3, <2>2, ScaleMonotone
    <3>3. 100 * s.shed <= ShedPct * in.load[1]
      BY <1>5, <3>1
    <3>4. ShedPct * in.load[1] \in Int /\ ShedPct * b \in Int /\ 100 * s.shed \in Int
      BY <1>3, <1>4, <2>2
    <3> QED
      BY <3>2, <3>3, <3>4
  <2> HIDE DEF r, b
  <2>4. ShedPct * r < ShedPct * b
    <3>1. r * ShedPct \in Nat /\ r * ShedPct = ShedPct * r /\ ShedPct * b \in Nat
      BY <2>2
    <3> DEFINE x == r * ShedPct
    <3>2. x \in Nat /\ s.shed > x \div 100
      BY <3>1, <2>1
    <3> HIDE DEF x
    <3>3. x < 100 * s.shed
      BY <3>2, <1>4
    <3> QED
      BY <3>1, <3>3, <2>3, <1>4 DEF x
  <2>5. r < b
    <3>1. CASE b <= r
      <4>1. ShedPct * b <= ShedPct * r
        BY <3>1, <2>2, ScaleMonotone
      <4>2. ShedPct * b \in Int /\ ShedPct * r \in Int
        BY <2>2
      <4> QED
        BY <4>1, <4>2, <2>4
    <3> QED
      BY <3>1, <2>2
  <2> QED
    BY <2>1, <2>5 DEF r, b
<1> QED
  BY <1>8, <1>9, <1>10, <1>11

(* A cycle that fails, or a scenario that does, was not servable.          *)
LEMMA ConcludeKeeps ==
  ASSUME PlanInv, Conclude
  PROVE  PlanInv'
<1> DEFINE results == {[valid |-> Validates(p, inputs), orders |-> Orders(p[1], inputs)] :
                         p \in Plans(inputs)}
           infeasible == {x \in Scenarios : ~Plannable(Perturb(inputs, x))}
<1>1. /\ phase = "loaded" /\ phase' = "done"
      /\ UNCHANGED <<rated, learned, derates, forecasts, inputs>>
  BY DEF Conclude
<1>2. InputsOk(inputs) /\ InputsTyped(inputs)
  BY <1>1, InputsOkTyped DEF PlanInv, PlanInHand
<1>3. \/ /\ planStatus' = "ERROR" \/ results = {}
         /\ decision' = "failed" /\ orders' = {} /\ refused' = {}
      \/ \E r \in results : /\ decision' = IF r.valid THEN "proposed" ELSE "failed"
                            /\ orders' = r.orders
                            /\ refused' \in IF r.valid THEN SUBSET infeasible ELSE {{}}
  BY DEF Conclude
<1>4. \A x \in infeasible : ~Servable(Perturb(inputs, x))
  <2>1. ASSUME NEW x \in Scenarios, Servable(Perturb(inputs, x)) PROVE x \notin infeasible
    <3>1. Fallback(Perturb(inputs, x)) \in Plans(Perturb(inputs, x))
      BY <1>2, <2>1, PerturbTyped, ServableHasPlan
    <3>2. Plannable(Perturb(inputs, x))
      BY <3>1 DEF Plans, Plannable
    <3> QED
      BY <3>2
  <2> QED
    BY <2>1
<1>5. CASE /\ planStatus' = "ERROR" \/ results = {}
           /\ decision' = "failed" /\ orders' = {} /\ refused' = {}
  <2>1. planStatus' = "ERROR" \/ ~Servable(inputs)
    <3>1. CASE results = {}
      <4>1. Plans(inputs) = {}
        BY <3>1
      <4> QED
        BY <4>1, <1>2, ServableHasPlan
    <3> QED
      BY <3>1, <1>5
  <2>2. FailsForCause' /\ EnvelopeHolds'
    BY <2>1, <1>1, <1>5 DEF FailsForCause, EnvelopeHolds
  <2> QED
    BY <2>2, <1>1 DEF PlanInv, RegistryOk, PlanInHand, Unrecorded
<1>6. CASE \E r \in results : /\ decision' = IF r.valid THEN "proposed" ELSE "failed"
                              /\ orders' = r.orders
                              /\ refused' \in IF r.valid THEN SUBSET infeasible ELSE {{}}
  <2>1. PICK p \in Plans(inputs) :
          /\ decision' = IF Validates(p, inputs) THEN "proposed" ELSE "failed"
          /\ orders' = Orders(p[1], inputs)
          /\ refused' \in IF Validates(p, inputs) THEN SUBSET infeasible ELSE {{}}
    <3>1. PICK r \in results : /\ decision' = IF r.valid THEN "proposed" ELSE "failed"
                               /\ orders' = r.orders
                               /\ refused' \in IF r.valid THEN SUBSET infeasible ELSE {{}}
      BY <1>6
    <3> HIDE DEF infeasible
    <3> QED
      BY <3>1
  <2> HIDE DEF infeasible
  <2>2. decision' = "failed" => ~Servable(inputs')
    <3>1. ASSUME Servable(inputs) PROVE Validates(p, inputs)
      BY <3>1, <1>2, PlanValidates DEF Servable
    <3> QED
      BY <3>1, <2>1, <1>1
  <2>3. \A x \in refused' : ~Servable(Perturb(inputs', x))
    <3>1. CASE Validates(p, inputs)
      BY <3>1, <2>1, <1>4, <1>1
    <3>2. CASE ~Validates(p, inputs)
      BY <3>2, <2>1
    <3> QED
      BY <3>1, <3>2
  <2>4. EnvelopeHolds'
    <3>1. ASSUME NEW o \in orders', o.quantity > o.max
          PROVE  \/ o.type = "curtail" /\ inputs'.rated["plant"] < inputs'.basis["plant"]
                 \/ o.type = "demand_response" /\ inputs'.rated["load"] < inputs'.basis["load"]
      BY <3>1, <2>1, <1>1, <1>2, OrdersWithin
    <3> QED
      BY <3>1 DEF EnvelopeHolds
  <2>5. FailsForCause'
    BY <2>2, <2>3 DEF FailsForCause
  <2> QED
    BY <2>4, <2>5, <1>1 DEF PlanInv, RegistryOk, PlanInHand, Unrecorded
<1> QED
  BY <1>3, <1>5, <1>6

-----------------------------------------------------------------------------
(* The invariant holds in every state of every behaviour.                  *)
THEOREM PlanInvariant == PlanningSpec => []PlanInv
<1>1. PlanningInit => PlanInv
  BY NothingRecorded DEF PlanningInit, PlanInv, RegistryOk, PlanInHand, Unrecorded
<1>2. PlanInv /\ [PlanningNext]_planVars => PlanInv'
  <2> SUFFICES ASSUME PlanInv, [PlanningNext]_planVars PROVE PlanInv'
    OBVIOUS
  <2>1. CASE \/ \E x \in Parts : PatchRating(x)
             \/ FileDerate
    BY <2>1, OthersKeep
  <2>2. CASE MakeForecasts
    BY <2>2, ForecastsKeep
  <2>3. CASE LoadInputs
    BY <2>3, InputsKeep
  <2>4. CASE Conclude
    BY <2>4, ConcludeKeeps
  <2>5. CASE GiveUp \/ NextCycle
    BY <2>5, EndsKeep
  <2>6. CASE UNCHANGED planVars
    <3>1. RegistryOk' /\ PlanInHand' /\ Unrecorded'
      BY <2>6 DEF planVars, recorded, PlanInv, RegistryOk, PlanInHand, Unrecorded, ForecastsOk, InputsOk
    <3>2. FailsForCause'
      BY <2>6 DEF planVars, recorded, PlanInv, FailsForCause
    <3>3. EnvelopeHolds'
      BY <2>6 DEF planVars, recorded, PlanInv, EnvelopeHolds
    <3> QED
      BY <3>1, <3>2, <3>3 DEF PlanInv
  <2> QED
    BY <2>1, <2>2, <2>3, <2>4, <2>5, <2>6 DEF PlanningNext
<1> QED
  BY <1>1, <1>2, PTL DEF PlanningSpec

(* A decision fails, and a scenario is shown as infeasible, only for a     *)
(* cause in the inputs, unless the solver came to no answer and the        *)
(* decision says so (solver.py, validator.py, cycle.py).                   *)
THEOREM FailsForCauseCorrect == PlanningSpec => []FailsForCause
<1>1. PlanInv => FailsForCause
  BY DEF PlanInv
<1> QED
  BY <1>1, PlanInvariant, PTL

(* An action is within its envelope unless a rating was lowered under it   *)
(* (actions_builder.py, cycle.py, forecast_ml.py).                         *)
THEOREM EnvelopeHoldsCorrect == PlanningSpec => []EnvelopeHolds
<1>1. PlanInv => EnvelopeHolds
  BY DEF PlanInv
<1> QED
  BY <1>1, PlanInvariant, PTL

-----------------------------------------------------------------------------
(* Forecasting.  What a running cycle has read stays what it was: criteria *)
(* that were decided on or call for physics, and unless it is going to     *)
(* train, rows that are young enough - an overlapping retraining can only  *)
(* make them younger.  And while nothing it reads has changed, it holds    *)
(* the criteria and the assets in force.                                   *)
(* A trained row has the history its training asked for.                   *)
Taught ==
  {row \in ModelRow : row.status = "trained" => row.n >= row.asked /\ row.n >= Floor}

Young(row, c) == row = noModel \/ hours - row.at <= c.retrain

ModelsTyped ==
  /\ hours \in Nat /\ model \in [Plants -> Taught \union {noModel}]
  /\ history \in [Plants -> Nat] /\ cycle.on \in BOOLEAN
  /\ retraining.on => retraining.assets \subseteq Plants /\ retraining.under.minHours \in Nat

Decided ==
  criteria # noModel =>
    criteria.status # "proposed" /\ criteria.retrain \in Nat \ {0} /\ criteria.minHours \in Nat

ReadOk ==
  cycle.on =>
    /\ cycle.under.retrain \in Nat \ {0} /\ cycle.under.minHours \in Nat
    /\ cycle.under.status = "proposed" => cycle.under.mode = "physics"
    /\ cycle.assets \subseteq Plants
    /\ cycle.stale \/ \A a \in cycle.assets : Young(model[a], cycle.under)
    /\ disturbed \/ (cycle.under = Effective(criteria) /\ cycle.assets = Plants \ retired)

ForecastInv == ModelsTyped /\ Decided /\ ReadOk /\ ModelInForce

(* The criteria in force were decided on, or call for physics.             *)
LEMMA EffectiveOk ==
  ASSUME Decided
  PROVE  /\ Effective(criteria).retrain \in Nat \ {0} /\ Effective(criteria).minHours \in Nat
         /\ Effective(criteria).status = "proposed" => Effective(criteria).mode = "physics"
<1>1. CASE criteria = noModel
  BY <1>1, ForecastAssumption DEF Effective, Undecided
<1>2. CASE criteria # noModel
  BY <1>2 DEF Effective, Decided
<1> QED
  BY <1>1, <1>2

(* What a training writes is a row of this hour for each asset it was      *)
(* asked for; the other rows are left alone.                               *)
LEMMA UpsertWrites ==
  ASSUME ModelsTyped, NEW seen, seen.assets \subseteq Plants,
         seen.under.minHours \in Nat, NEW rows \in Trainings(seen)
  PROVE  /\ Upsert(rows) \in [Plants -> Taught \union {noModel}]
         /\ \A a \in Plants :
              Upsert(rows)[a] = IF a \in seen.assets THEN rows[a] ELSE model[a]
         /\ \A a \in seen.assets : rows[a] \in Taught /\ rows[a].at = hours
<1>1. ASSUME NEW a \in Plants
      PROVE  Fits(history[a], seen.under) \subseteq {row \in Taught : row.at = hours}
  <2>1. hours \in Nat /\ history[a] \in Nat /\ seen.under.minHours \in Nat /\ Floor \in Nat
    BY ForecastAssumption DEF ModelsTyped
  <2>2. CASE history[a] < seen.under.minHours \/ history[a] < Floor
    BY <2>1, <2>2 DEF Fits, Taught, ModelRow
  <2>3. CASE ~(history[a] < seen.under.minHours \/ history[a] < Floor)
    BY <2>1, <2>3, ForecastAssumption DEF Fits, Taught, ModelRow
  <2> QED
    BY <2>2, <2>3
<1>2. \A a \in Plants :
        rows[a] \in IF a \in seen.assets THEN Fits(history[a], seen.under) ELSE {noModel}
  BY DEF Trainings
<1>3. \A a \in seen.assets : rows[a] \in Taught /\ rows[a].at = hours
  BY <1>1, <1>2
<1>4. \A a \in Plants : a \notin seen.assets => rows[a] = noModel
  BY <1>2
<1>5. \A a \in seen.assets : rows[a] # noModel
  BY <1>3, ForecastAssumption DEF Taught
<1>6. \A a \in Plants :
        Upsert(rows)[a] = IF a \in seen.assets THEN rows[a] ELSE model[a]
  BY <1>4, <1>5 DEF Upsert
<1>7. Upsert(rows) \in [Plants -> Taught \union {noModel}]
  <2>1. \A a \in Plants : Upsert(rows)[a] \in Taught \union {noModel}
    BY <1>3, <1>6 DEF ModelsTyped
  <2> QED
    BY <2>1 DEF Upsert
<1> QED
  BY <1>3, <1>6, <1>7

(* A decision of the operator is one, and the forecasts there are stay     *)
(* what they were.                                                         *)
LEMMA CriteriaKeep ==
  ASSUME ForecastInv, AcceptCriteria \/ SetCriteria
  PROVE  ForecastInv'
<1>1. PICK c \in Custom \union {Proposed}, standing \in {"accepted", "custom"} :
        StoreCriteria(standing, c)
  BY DEF AcceptCriteria, SetCriteria
<1>2. /\ criteria' = [status |-> standing, mode |-> c.mode, minHours |-> c.minHours,
                      minGain |-> c.minGain, retrain |-> c.retrain]
      /\ disturbed' = TRUE
      /\ UNCHANGED <<hours, history, retired, model, cycle, retraining, forecast>>
  BY <1>1 DEF StoreCriteria
<1>3. Decided'
  BY <1>2, ForecastAssumption DEF Decided
<1>4. ModelsTyped' /\ ReadOk'
  BY <1>2 DEF ForecastInv, ModelsTyped, ReadOk, Young
<1>5. ModelInForce'
  BY <1>2 DEF ForecastInv, ModelInForce
<1> QED
  BY <1>3, <1>4, <1>5 DEF ForecastInv

(* A retraining beside a cycle writes rows of this hour only.              *)
LEMMA RetrainingKeeps ==
  ASSUME ForecastInv, FinishRetrain
  PROVE  ForecastInv'
<1>1. PICK rows \in Trainings(retraining) : model' = Upsert(rows)
  BY DEF FinishRetrain
<1>2. /\ disturbed' = TRUE
      /\ UNCHANGED <<hours, history, retired, criteria, cycle, forecast>>
  BY DEF FinishRetrain
<1>3. /\ model' \in [Plants -> Taught \union {noModel}]
      /\ \A a \in Plants : model'[a] = IF a \in retraining.assets THEN rows[a] ELSE model[a]
      /\ \A a \in retraining.assets : rows[a] \in Taught /\ rows[a].at = hours
  <2>1. retraining.assets \subseteq Plants /\ retraining.under.minHours \in Nat
    BY DEF ForecastInv, ModelsTyped, FinishRetrain
  <2> QED
    BY <1>1, <2>1, UpsertWrites DEF ForecastInv
<1>4. ModelsTyped' /\ Decided'
  <2>1. retraining' = Off
    BY DEF FinishRetrain
  <2> QED
    BY <1>2, <1>3, <2>1 DEF ForecastInv, ModelsTyped, Decided, Off
<1>5. ReadOk'
  <2>1. ASSUME cycle.on, NEW a \in cycle.assets, Young(model[a], cycle.under)
        PROVE  Young(model[a], cycle.under)'
    <3>1. cycle.under.retrain \in Nat /\ hours \in Nat /\ a \in Plants
      BY <2>1 DEF ForecastInv, ReadOk, ModelsTyped
    <3> QED
      BY <2>1, <3>1, <1>2, <1>3 DEF Young
  <2> QED
    BY <2>1, <1>2 DEF ForecastInv, ReadOk
<1>6. ModelInForce'
  BY <1>2 DEF ForecastInv, ModelInForce
<1> QED
  BY <1>4, <1>5, <1>6 DEF ForecastInv

(* What a cycle and a retraining read when they begin.                     *)
LEMMA SnapshotReads ==
  ASSUME ForecastInv
  PROVE  /\ Snapshot.on = TRUE /\ Snapshot.under = Effective(criteria)
         /\ Snapshot.assets = Plants \ retired
         /\ Snapshot.stale \/ \A a \in Snapshot.assets : Young(model[a], Snapshot.under)
<1>1. /\ Snapshot.on = TRUE /\ Snapshot.under = Effective(criteria)
      /\ Snapshot.assets = Plants \ retired
      /\ Snapshot.stale = \E a \in Plants \ retired : Stale(model[a], Effective(criteria))
  BY DEF Snapshot
<1>2. ASSUME NEW a \in Plants, ~Stale(model[a], Effective(criteria))
      PROVE  Young(model[a], Effective(criteria))
  <2>1. Effective(criteria).retrain \in Nat
    BY EffectiveOk DEF ForecastInv
  <2>2. model[a] = noModel \/ model[a].at \in Nat
    BY DEF ForecastInv, ModelsTyped, Taught, ModelRow
  <2> QED
    BY <1>2, <2>1, <2>2 DEF Stale, Young, ForecastInv, ModelsTyped
<1> QED
  BY <1>1, <1>2

LEMMA StartsKeep ==
  ASSUME ForecastInv, StartRetrain \/ StartCycle
  PROVE  ForecastInv'
<1>1. UNCHANGED <<hours, history, retired, criteria, model, forecast>>
  BY DEF StartRetrain, StartCycle
<1>2. Decided'
  BY <1>1 DEF ForecastInv, Decided
<1>3. CASE StartRetrain
  <2>1. retraining' = Snapshot /\ UNCHANGED <<cycle, disturbed>>
    BY <1>3 DEF StartRetrain
  <2>2. ModelsTyped'
    BY <1>1, <2>1, SnapshotReads, EffectiveOk DEF ForecastInv, ModelsTyped
  <2>3. ReadOk'
    BY <1>1, <2>1 DEF ForecastInv, ReadOk, Young, Effective
  <2>4. ModelInForce'
    BY <1>1, <2>1 DEF ForecastInv, ModelInForce, Applied, Qualifies, Effective
  <2> QED
    BY <1>2, <2>2, <2>3, <2>4 DEF ForecastInv
<1>4. CASE StartCycle
  <2>1. cycle' = Snapshot /\ UNCHANGED retraining
    BY <1>4 DEF StartCycle
  <2>2. ModelsTyped'
    BY <1>1, <2>1, SnapshotReads, EffectiveOk DEF ForecastInv, ModelsTyped
  <2>3. ReadOk'
    <3>1. /\ cycle'.under = Effective(criteria) /\ cycle'.assets = Plants \ retired
          /\ cycle'.stale \/ \A a \in cycle'.assets : Young(model[a], cycle'.under)
      BY <2>1, SnapshotReads
    <3>2. /\ cycle'.under.retrain \in Nat \ {0} /\ cycle'.under.minHours \in Nat
          /\ cycle'.under.status = "proposed" => cycle'.under.mode = "physics"
      BY <3>1, EffectiveOk DEF ForecastInv
    <3> QED
      BY <1>1, <3>1, <3>2 DEF ReadOk, Young, Effective
  <2>4. cycle'.on = TRUE
    BY <2>1, SnapshotReads
  <2>5. ModelInForce'
    BY <1>1, <2>4 DEF ForecastInv, ModelInForce
  <2> QED
    BY <1>2, <2>2, <2>3, <2>5 DEF ForecastInv
<1> QED
  BY <1>3, <1>4

(* The clock moves only while nothing is under way, and what fails writes  *)
(* nothing; an asset that is retired or brought back is noticed.           *)
LEMMA AsidesKeep ==
  ASSUME ForecastInv,
         RetrainFails \/ CycleFails \/ HourPasses \/ \E a \in Plants : Retire(a)
  PROVE  ForecastInv'
<1>1. UNCHANGED <<criteria, model, forecast>>
  BY DEF RetrainFails, CycleFails, HourPasses, Retire
<1>2. ModelsTyped' /\ Decided'
  <2>1. hours' \in Nat
    BY DEF ForecastInv, ModelsTyped, RetrainFails, CycleFails, HourPasses, Retire
  <2>2. (UNCHANGED cycle \/ cycle' = Off) /\ (UNCHANGED retraining \/ retraining' = Off)
    BY DEF RetrainFails, CycleFails, HourPasses, Retire
  <2>4. history' \in [Plants -> Nat]
    BY DEF ForecastInv, ModelsTyped, RetrainFails, CycleFails, HourPasses, Retire
  <2>3. /\ cycle'.on \in BOOLEAN
        /\ retraining'.on => retraining'.assets \subseteq Plants /\ retraining'.under.minHours \in Nat
    <3>1. Off.on = FALSE
      BY DEF Off
    <3> QED
      BY <2>2, <3>1 DEF ForecastInv, ModelsTyped
  <2> QED
    BY <1>1, <2>1, <2>3, <2>4 DEF ForecastInv, ModelsTyped, Decided
<1>3. CASE RetrainFails
  <2>1. UNCHANGED <<hours, retired, cycle, disturbed>>
    BY <1>3 DEF RetrainFails
  <2>2. ReadOk'
    BY <1>1, <2>1 DEF ForecastInv, ReadOk, Young, Effective
  <2>3. ModelInForce'
    BY <1>1, <2>1 DEF ForecastInv, ModelInForce, Applied, Qualifies, Effective
  <2> QED
    BY <1>2, <2>2, <2>3 DEF ForecastInv
<1>4. CASE CycleFails \/ HourPasses
  <2>1. disturbed' = TRUE /\ ~cycle'.on
    BY <1>4 DEF CycleFails, HourPasses, Off
  <2> QED
    BY <1>1, <1>2, <2>1 DEF ForecastInv, ReadOk, ModelInForce
<1>5. CASE \E a \in Plants : Retire(a)
  <2>1. disturbed' = TRUE /\ UNCHANGED <<hours, cycle>>
    BY <1>5 DEF Retire
  <2> QED
    BY <1>1, <1>2, <2>1 DEF ForecastInv, ReadOk, Young, ModelInForce
<1> QED
  BY <1>3, <1>4, <1>5

(* What a cycle issues rests on criteria it has read, and on rows that are *)
(* young enough by the time it issues.                                     *)
LEMMA SourceOk ==
  ASSUME NEW row \in Taught \union {noModel}, NEW c, NEW live \in BOOLEAN,
         hours \in Nat, c.retrain \in Nat \ {0},
         c.status = "proposed" => c.mode = "physics", Young(row, c)
  PROVE  LET f == Source(row, c, live) IN
           /\ f.by = "ml" => /\ f.under.status # "proposed" /\ f.under.mode # "physics"
                             /\ f.under.mode = "auto" => f.gain >= f.under.minGain
                             /\ f.age <= f.under.retrain
                             /\ f.n >= f.asked /\ f.n >= Floor
           /\ f.fallback <=> (f.by \in {"physics", "weather"} /\ f.under.mode = "ml")
           /\ f.by = "ml" <=> Qualifies(row, c)
<1> DEFINE f == Source(row, c, live)
<1>1. f.under = c /\ (f.fallback <=> c.mode = "ml" /\ ~Qualifies(row, c))
  BY DEF Source
<1>2. CASE Qualifies(row, c)
  <2>1. /\ f.by = "ml" /\ f.gain = row.gain /\ f.age = hours - row.at
        /\ f.n = row.n /\ f.asked = row.asked
    BY <1>2 DEF Source
  <2>2. row # noModel /\ (c.mode = "ml" \/ (c.mode = "auto" /\ row.gain >= c.minGain))
    BY <1>2 DEF Qualifies
  <2>3. f.age <= c.retrain
    BY <2>1, <2>2 DEF Young
  <2>4. f.n >= f.asked /\ f.n >= Floor
    BY <1>2, <2>1, <2>2 DEF Qualifies, Taught
  <2> QED
    BY <1>1, <1>2, <2>1, <2>2, <2>3, <2>4
<1>3. CASE ~Qualifies(row, c)
  <2>1. f.by = IF live THEN "weather" ELSE "physics"
    BY <1>3 DEF Source
  <2>2. f.by \in {"physics", "weather"} /\ f.by # "ml"
    BY <2>1
  <2> QED
    BY <1>1, <1>3, <2>2
<1> QED
  BY <1>2, <1>3

(* A cycle ends: each asset of it is forecast from the row it has now, and *)
(* as far as nothing moved meanwhile that row and those criteria are the   *)
(* ones in force.                                                          *)
LEMMA FinishKeeps ==
  ASSUME ForecastInv, FinishCycle
  PROVE  ForecastInv'
<1>1. /\ cycle.on /\ cycle' = Off
      /\ UNCHANGED <<hours, history, retired, criteria, retraining, disturbed>>
  BY DEF FinishCycle
<1>2. /\ cycle.under.retrain \in Nat \ {0} /\ cycle.under.minHours \in Nat
      /\ cycle.under.status = "proposed" => cycle.under.mode = "physics"
      /\ cycle.assets \subseteq Plants
      /\ cycle.stale \/ \A a \in cycle.assets : Young(model[a], cycle.under)
      /\ disturbed \/ (cycle.under = Effective(criteria) /\ cycle.assets = Plants \ retired)
  BY <1>1 DEF ForecastInv, ReadOk
<1>3. /\ model' \in [Plants -> Taught \union {noModel}]
      /\ \A a \in cycle.assets : Young(model'[a], cycle.under)
  <2>1. CASE cycle.stale /\ \E rows \in Trainings(cycle) : model' = Upsert(rows)
    <3>1. PICK rows \in Trainings(cycle) : model' = Upsert(rows)
      BY <2>1
    <3>2. /\ model' \in [Plants -> Taught \union {noModel}]
          /\ \A a \in cycle.assets : model'[a] = rows[a] /\ rows[a].at = hours
      BY <3>1, <1>2, UpsertWrites DEF ForecastInv
    <3>3. hours \in Nat
      BY DEF ForecastInv, ModelsTyped
    <3> QED
      BY <3>2, <3>3, <1>2 DEF Young
  <2>2. CASE ~cycle.stale /\ UNCHANGED model
    BY <2>2, <1>2 DEF ForecastInv, ModelsTyped
  <2> QED
    BY <2>1, <2>2 DEF FinishCycle
<1>4. PICK live \in BOOLEAN :
        forecast' = [a \in Plants |-> IF a \in cycle.assets
                                     THEN Source(model'[a], cycle.under, live) ELSE forecast[a]]
  BY DEF FinishCycle, Issue
<1>5. ModelsTyped' /\ Decided' /\ ReadOk'
  BY <1>1, <1>3 DEF ForecastInv, ModelsTyped, Decided, ReadOk, Off
<1>6. ModelInForce'
  <2> SUFFICES ASSUME NEW a \in Plants
               PROVE  LET f == forecast'[a] IN
                        /\ f.by = "ml" =>
                             /\ f.under.status # "proposed" /\ f.under.mode # "physics"
                             /\ f.under.mode = "auto" => f.gain >= f.under.minGain
                             /\ f.age <= f.under.retrain
                             /\ f.n >= f.asked /\ f.n >= Floor
                        /\ f.fallback <=> (f.by \in {"physics", "weather"} /\ f.under.mode = "ml")
                        /\ (~disturbed' /\ ~cycle'.on /\ a \notin retired')
                             => (f.by = "ml" <=> Applied(a)')
    BY DEF ModelInForce
  <2>1. CASE a \in cycle.assets
    <3>1. forecast'[a] = Source(model'[a], cycle.under, live)
      BY <2>1, <1>4
    <3>2. model'[a] \in Taught \union {noModel} /\ Young(model'[a], cycle.under) /\ hours \in Nat
      BY <2>1, <1>3 DEF ForecastInv, ModelsTyped
    <3>3. ~disturbed' => (Qualifies(model'[a], cycle.under) <=> Applied(a)')
      BY <1>1, <1>2 DEF Applied, Effective, Qualifies
    <3>4. LET f == Source(model'[a], cycle.under, live) IN
            /\ f.by = "ml" =>
                 /\ f.under.status # "proposed" /\ f.under.mode # "physics"
                 /\ f.under.mode = "auto" => f.gain >= f.under.minGain
                 /\ f.age <= f.under.retrain
                 /\ f.n >= f.asked /\ f.n >= Floor
            /\ f.fallback <=> (f.by \in {"physics", "weather"} /\ f.under.mode = "ml")
            /\ f.by = "ml" <=> Qualifies(model'[a], cycle.under)
      BY <3>2, <1>2, SourceOk
    <3> QED
      BY <3>1, <3>3, <3>4
  <2>2. CASE a \notin cycle.assets
    <3>1. forecast'[a] = forecast[a] /\ (~disturbed' => a \in retired')
      BY <2>2, <1>1, <1>2, <1>4
    <3> QED
      BY <3>1 DEF ForecastInv, ModelInForce
  <2> QED
    BY <2>1, <2>2
<1> QED
  BY <1>5, <1>6 DEF ForecastInv

(* Without models every asset of the cycle falls back.                     *)
LEMMA WithoutModelsKeeps ==
  ASSUME ForecastInv, FinishWithoutModels
  PROVE  ForecastInv'
<1>1. /\ cycle.on /\ cycle' = Off /\ disturbed' = TRUE
      /\ UNCHANGED <<hours, history, retired, criteria, model, retraining>>
  BY DEF FinishWithoutModels
<1>2. PICK live \in BOOLEAN :
        forecast' = [a \in Plants |->
                       IF a \in cycle.assets
                       THEN Source([b \in Plants |-> noModel][a], cycle.under, live)
                       ELSE forecast[a]]
  BY DEF FinishWithoutModels, Issue
<1>3. ModelsTyped' /\ Decided' /\ ReadOk'
  BY <1>1 DEF ForecastInv, ModelsTyped, Decided, ReadOk, Off
<1>4. \A a \in Plants :
        LET f == forecast'[a] IN
          /\ f.by = "ml" =>
               /\ f.under.status # "proposed" /\ f.under.mode # "physics"
               /\ f.under.mode = "auto" => f.gain >= f.under.minGain
               /\ f.age <= f.under.retrain
               /\ f.n >= f.asked /\ f.n >= Floor
          /\ f.fallback <=> (f.by \in {"physics", "weather"} /\ f.under.mode = "ml")
  <2> SUFFICES ASSUME NEW a \in Plants
               PROVE  LET f == forecast'[a] IN
                        /\ f.by = "ml" =>
                             /\ f.under.status # "proposed" /\ f.under.mode # "physics"
                             /\ f.under.mode = "auto" => f.gain >= f.under.minGain
                             /\ f.age <= f.under.retrain
                             /\ f.n >= f.asked /\ f.n >= Floor
                        /\ f.fallback <=> (f.by \in {"physics", "weather"} /\ f.under.mode = "ml")
    OBVIOUS
  <2>1. CASE a \in cycle.assets
    <3>1. forecast'[a] = Source(noModel, cycle.under, live)
      BY <2>1, <1>2
    <3>2. /\ hours \in Nat /\ cycle.under.retrain \in Nat \ {0} /\ Young(noModel, cycle.under)
          /\ cycle.under.status = "proposed" => cycle.under.mode = "physics"
      BY <1>1 DEF ForecastInv, ModelsTyped, ReadOk, Young
    <3> QED
      BY <3>1, <3>2, SourceOk
  <2>2. CASE a \notin cycle.assets
    BY <2>2, <1>2 DEF ForecastInv, ModelInForce
  <2> QED
    BY <2>1, <2>2
<1>5. ModelInForce'
  BY <1>1, <1>4 DEF ModelInForce
<1> QED
  BY <1>3, <1>5 DEF ForecastInv

(* The invariant holds in every state of every behaviour.                  *)
THEOREM ForecastInvariant == ForecastSpec => []ForecastInv
<1>1. ForecastInit => ForecastInv
  <2> SUFFICES ASSUME ForecastInit PROVE ForecastInv
    OBVIOUS
  <2>1. ModelsTyped /\ Decided /\ ReadOk
    BY ForecastAssumption DEF ForecastInit, ModelsTyped, Decided, ReadOk, Off
  <2>2. ModelInForce
    BY DEF ForecastInit, ModelInForce, None, Undecided
  <2> QED
    BY <2>1, <2>2 DEF ForecastInv
<1>2. ForecastInv /\ [ForecastNext]_forecastVars => ForecastInv'
  <2> SUFFICES ASSUME ForecastInv, [ForecastNext]_forecastVars PROVE ForecastInv'
    OBVIOUS
  <2>1. CASE AcceptCriteria \/ SetCriteria
    BY <2>1, CriteriaKeep
  <2>2. CASE StartRetrain \/ StartCycle
    BY <2>2, StartsKeep
  <2>3. CASE FinishRetrain
    BY <2>3, RetrainingKeeps
  <2>4. CASE RetrainFails \/ CycleFails \/ HourPasses \/ \E a \in Plants : Retire(a)
    BY <2>4, AsidesKeep
  <2>5. CASE FinishCycle
    BY <2>5, FinishKeeps
  <2>6. CASE FinishWithoutModels
    BY <2>6, WithoutModelsKeeps
  <2>7. CASE UNCHANGED forecastVars
    <3>1. ModelsTyped' /\ Decided' /\ ReadOk'
      BY <2>7 DEF forecastVars, ForecastInv, ModelsTyped, Decided, ReadOk, Young, Effective
    <3>2. ModelInForce'
      BY <2>7 DEF forecastVars, ForecastInv, ModelInForce, Applied, Qualifies, Effective
    <3> QED
      BY <3>1, <3>2 DEF ForecastInv
  <2> QED
    BY <2>1, <2>2, <2>3, <2>4, <2>5, <2>6, <2>7 DEF ForecastNext
<1> QED
  BY <1>1, <1>2, PTL DEF ForecastSpec

(* A forecast by a model rests on criteria that were decided on, and on a  *)
(* model of their mode and improvement, young enough, with the history its *)
(* own training asked for; and what the operator is shown as               *)
(* applied is what the cycle used (forecast_ml.py, forecast.py,            *)
(* routers/forecasting.py).                                                *)
THEOREM ModelInForceCorrect == ForecastSpec => []ModelInForce
<1>1. ForecastInv => ModelInForce
  BY DEF ForecastInv
<1> QED
  BY <1>1, ForecastInvariant, PTL

-----------------------------------------------------------------------------
(* The composition.  A step of the back office is a step of one part and   *)
(* leaves the rows of the others alone, so that a behaviour of the whole   *)
(* is one of each part.                                                    *)
LEMMA OfficeSteps ==
  [OfficeNext]_officeVars =>
    /\ [IntakeNext]_intakeVars /\ [RegistryNext]_registryVars /\ [AccountNext]_accountVars
    /\ [ForecastNext]_forecastVars /\ [PlanningNext]_planVars
    /\ [FolderNext]_folderVars /\ [ExportNext]_exportVars /\ [ThrottleNext]_throttleVars
<1> SUFFICES ASSUME [OfficeNext]_officeVars
             PROVE  /\ [IntakeNext]_intakeVars /\ [RegistryNext]_registryVars
                    /\ [AccountNext]_accountVars
                    /\ [ForecastNext]_forecastVars /\ [PlanningNext]_planVars
                    /\ [FolderNext]_folderVars /\ [ExportNext]_exportVars
                    /\ [ThrottleNext]_throttleVars
  OBVIOUS
<1>1. CASE UNCHANGED officeVars
  BY <1>1 DEF officeVars
<1>2. CASE OfficeNext
  BY <1>2 DEF OfficeNext, IntakeStill, RegistryStill, AccountStill, ForecastStill, PlanStill,
              FolderStill, ExportStill, ThrottleStill
<1> QED
  BY <1>1, <1>2

LEMMA OfficeIsItsParts ==
  OfficeSpec =>
    /\ IntakeSpec /\ RegistrySpec /\ AccountSpec /\ ForecastSpec /\ PlanningSpec
    /\ FolderInit /\ [][FolderNext]_folderVars
    /\ ExportInit /\ [][ExportNext]_exportVars
    /\ ThrottleInit /\ [][ThrottleNext]_throttleVars
<1>1. OfficeInit => /\ IntakeInit /\ RegistryInit /\ AccountInit
                    /\ ForecastInit /\ PlanningInit
                    /\ FolderInit /\ ExportInit /\ ThrottleInit
  BY DEF OfficeInit
<1> QED
  BY <1>1, OfficeSteps, PTL
  DEF OfficeSpec, IntakeSpec, RegistrySpec, AccountSpec, ForecastSpec, PlanningSpec

(* Whatever overlaps in the back office: nothing unreviewed is applied and *)
(* nothing is decided twice (routers/ingestion.py), a file of the folder   *)
(* is taken once (folder_watcher.py), what is complete can be downloaded   *)
(* (export-worker/worker.py), guesses are bounded (security_http.py),      *)
(* there is one grid (routers/portfolio_registry.py), a tenant keeps an    *)
(* administrator (routers/admin.py), forecasts are by models in force      *)
(* (forecast_ml.py), and a cycle fails for a cause and orders within the   *)
(* envelopes (cycle.py): each under the condition its property states.     *)
THEOREM OfficeCorrect ==
  OfficeSpec => /\ []ReviewedFirst /\ DecidedOnce /\ []OneGrid /\ AdminStays
                /\ []ModelInForce /\ []FailsForCause /\ []EnvelopeHolds
                /\ []TakenOnce /\ []CompleteDownloads /\ []GuessesBounded
BY OfficeIsItsParts, ReviewedFirstCorrect, DecidedOnceCorrect, OneGridCorrect,
   AdminStaysCorrect, ModelInForceCorrect, FailsForCauseCorrect, EnvelopeHoldsCorrect,
   TakenOnceCorrect, CompleteDownloadsCorrect, GuessesBoundedCorrect, PTL
===============================================================================
