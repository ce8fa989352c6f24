------------------------------ MODULE Planning -------------------------------
(***************************************************************************)
(* From forecasts to actions: what run_cycle of policy/cycle.py does       *)
(* between its snapshot and the rows it records, with the optimizer        *)
(* (policy/solver.py), the validator (guardrails/validator.py), the        *)
(* capacity derates of documents, the named scenarios and the actions.     *)
(*                                                                         *)
(* The cycle commits after the forecasts, and its session expires what it  *)
(* has loaded: ratings, limits and derates are those of a later moment     *)
(* than the forecasts.  The registry may be patched at any time, and a     *)
(* trained model forecasts up to the rating it was trained under.          *)
(*                                                                         *)
(* Abstractions: one plant, consumer and battery; whole kW and hours; q50  *)
(* only, and no prices: of the plans its constraints allow the optimizer   *)
(* may return any.  State of charge is in units of which a kWh charged     *)
(* adds Gain and a kWh discharged takes Drain.                             *)
(***************************************************************************)
EXTENDS Integers

CONSTANTS Horizon,      \* steps of an hour: 24
          MaxKw,        \* bound: ratings
          Ratings,      \* rated_capacity_kw that plant and consumer may have
          Limits,       \* [import, export] of the grid interconnection
          Power,        \* power_limit_kw of the battery
          SocMin, SocMax, Gain, Drain,
          Socs,         \* states of charge that telemetry may report
          Derates,      \* [pct, from, to] of documents
          ShedPct,      \* max_shed_frac: 15
          MinActionable \* MIN_ACTIONABLE_KW: 1

ASSUME PlanningAssumption ==
  /\ Horizon \in Nat \ {0} /\ MaxKw \in Nat /\ Ratings \in [{"plant", "load"} -> SUBSET (1..MaxKw)]
  /\ \A l \in Limits : l.import \in Nat /\ l.export \in Nat
  /\ Power \in Nat /\ Gain \in Nat /\ Drain \in Nat
  /\ SocMin \in Int /\ SocMax \in Int /\ Socs \subseteq Int
  /\ \A d \in Derates : d.pct \in Int /\ d.from \in Int /\ d.to \in Int
  /\ ShedPct \in 0..50 /\ MinActionable \in Nat

(* There are finitely many derates: of the caps they set one is the least. *)
ASSUME DeratesAssumption ==
  \A caps \in SUBSET {(r * d.pct) \div 100 : r \in 1..MaxKw, d \in Derates} :
    caps # {} => \E c \in caps : \A o \in caps : c <= o

VARIABLES rated,        \* rated_capacity_kw
          learned,      \* the ratings the models were trained under
          derates,      \* Constraint rows made from documents
          phase,        \* where the cycle is
          forecasts,    \* the q50 series and the ratings they rest on
          inputs,       \* what the solver is given
          decision,     \* Decision.status
          planStatus,   \* plan.status of the Decision: what the solver answered
          orders,       \* Action rows
          refused       \* ScenarioRun rows that say INFEASIBLE

recorded == <<decision, planStatus, orders, refused>>
planVars == <<rated, learned, derates, phase, forecasts, inputs, recorded>>

Parts == {"plant", "load"}
Hours == 1..Horizon
Lesser(a, b) == IF a < b THEN a ELSE b
Greater(a, b) == IF a < b THEN b ELSE a
Nil == [is |-> "nothing"]

PlanningInit ==
  /\ rated \in [Parts -> 1..MaxKw] /\ (\A x \in Parts : rated[x] \in Ratings[x]) /\ learned = rated
  /\ derates = {} /\ phase = "idle"
  /\ forecasts = Nil /\ inputs = Nil
  /\ decision = "none" /\ planStatus = "none" /\ orders = {} /\ refused = {}

-----------------------------------------------------------------------------
(* solve.  The variables of one hour of a plan are within their bounds;    *)
(* which of grid import and export is not zero, and how much, follows from *)
(* the balance.                                                            *)
Step == [charge : 0..Power, discharge : 0..Power, soc : SocMin..SocMax,
         curtail : 0..MaxKw, shed : 0..MaxKw]

Net(s, t, in) ==
  (in.load[t] - s.shed) - (in.gen[t] - s.curtail) - (s.discharge - s.charge)

Bought(s, t, in) == Greater(Net(s, t, in), 0)
Sold(s, t, in) == Greater(-Net(s, t, in), 0)

(* Mutant: only what could be exported may be curtailed.                   *)
HourFitsExport(s, t, in) ==
  /\ s.charge = 0 \/ s.discharge = 0
  /\ s.charge <= in.power /\ s.discharge <= in.power
  /\ s.curtail <= Lesser(in.export, Greater(in.gen[t], 0))
  /\ 100 * s.shed <= ShedPct * Greater(in.load[t], 0)
  /\ Bought(s, t, in) <= in.import /\ Sold(s, t, in) <= in.export

(* Mutant: demand may be shed without a limit.                             *)
HourFitsUncapped(s, t, in) ==
  /\ s.charge = 0 \/ s.discharge = 0
  /\ s.charge <= in.power /\ s.discharge <= in.power
  /\ s.curtail <= Greater(in.gen[t], 0)
  /\ s.shed <= Greater(in.load[t], 0)
  /\ Bought(s, t, in) <= in.import /\ Sold(s, t, in) <= in.export

HourFits(s, t, in) ==
  /\ s.charge = 0 \/ s.discharge = 0
  /\ s.charge <= in.power /\ s.discharge <= in.power
  /\ s.curtail <= Greater(in.gen[t], 0)
  /\ 100 * s.shed <= ShedPct * Greater(in.load[t], 0)
  /\ Bought(s, t, in) <= in.import /\ Sold(s, t, in) <= in.export

SocBefore(p, t, in) == IF t = 1 THEN in.soc ELSE p[t - 1].soc

Feasible(p, in) ==
  /\ \A t \in Hours :
       p[t].soc = SocBefore(p, t, in) + Gain * p[t].charge - Drain * p[t].discharge
  /\ \A t \in Hours : HourFits(p[t], t, in)

Candidates(in) == [Hours -> {s \in Step : \E t \in Hours : HourFits(s, t, in)}]
Plans(in) == {p \in Candidates(in) : Feasible(p, in)}
Plannable(in) == \E p \in Candidates(in) : Feasible(p, in)

-----------------------------------------------------------------------------
(* validate_plan: the same limits, from the numbers alone.                 *)
Validates(p, in) ==
  \A t \in Hours :
    /\ p[t].charge <= in.power /\ p[t].discharge <= in.power
    /\ p[t].charge = 0 \/ p[t].discharge = 0
    /\ SocMin <= p[t].soc /\ p[t].soc <= SocMax
    /\ Bought(p[t], t, in) <= in.import /\ Sold(p[t], t, in) <= in.export
    /\ 100 * p[t].shed <= ShedPct * in.load[t]
    /\ p[t].curtail <= in.gen[t]

(* apply_capacity_derates: the tightest of the derates in force.           *)
Derated(series, rating) ==
  [t \in Hours |->
     LET caps == {(rating * d.pct) \div 100 :
                    d \in {e \in derates : e.from <= t /\ t <= e.to}} IN
       IF caps = {} THEN series[t]
       ELSE Lesser(series[t], CHOOSE c \in caps : \A o \in caps : c <= o)]

(* NAMED_SCENARIOS and _perturb; the plant stands for solar and for wind.  *)
Scaled(series, pct, rating) == [t \in Hours |-> Lesser((series[t] * pct) \div 100, rating)]

Perturb(in, scenario) ==
  CASE scenario = "CLOUD_COVER"     -> [in EXCEPT !.gen = Scaled(@, 30, in.rated["plant"])]
    [] scenario = "WIND_SURGE"      -> [in EXCEPT !.gen = Scaled(@, 160, in.rated["plant"])]
    [] scenario = "DEMAND_SHOCK"    -> [in EXCEPT !.load = [t \in Hours |-> (@[t] * 150) \div 100]]
    [] scenario = "LINE_CONGESTION" -> [in EXCEPT !.import = (@ * 30) \div 100,
                                                  !.export = (@ * 30) \div 100]
    [] scenario = "BATTERY_OUTAGE"  -> [in EXCEPT !.power = 0]
    [] scenario = "PRICE_SPIKE"     -> in

Scenarios == {"CLOUD_COVER", "WIND_SURGE", "DEMAND_SHOCK", "LINE_CONGESTION",
              "BATTERY_OUTAGE", "PRICE_SPIKE"}

(* build_actions_for_step for the first hour: quantity and max_kw.         *)
Order(type, quantity, max) == [type |-> type, quantity |-> quantity, max |-> max]

Orders(s, in) ==
  LET import == Bought(s, 1, in)
      export == Sold(s, 1, in)
      all == {Order("charge", s.charge, s.charge), Order("discharge", s.discharge, s.discharge),
              Order("buy", import, in.import), Order("sell", export, in.export),
              Order("curtail", s.curtail, in.rated["plant"]),
              Order("demand_response", s.shed, (in.rated["load"] * ShedPct) \div 100)}
  IN {o \in all : o.quantity > MinActionable}

-----------------------------------------------------------------------------
(* The registry and the document intake, while a cycle runs.               *)
PatchRating(x) ==
  /\ \E r \in Ratings[x] \ {rated[x]} : rated' = [rated EXCEPT ![x] = r]
  /\ UNCHANGED <<learned, derates, phase, forecasts, inputs, recorded>>

FileDerate ==
  /\ \E d \in Derates \ derates : derates' = derates \union {d}
  /\ UNCHANGED <<rated, learned, phase, forecasts, inputs, recorded>>

-----------------------------------------------------------------------------
(* Snapshot and forecasts, committed; models are retrained or not.  Where  *)
(* a model applies the mean is at most the rating it was trained under,    *)
(* else (physics, weather) at most the present one.                        *)
MakeForecasts ==
  /\ phase = "idle" /\ phase' = "forecast"
  /\ learned' \in {learned, rated}
  /\ \E by \in [Parts -> {"model", "physics"}], soc \in Socs :
       LET basis == [x \in Parts |-> IF by[x] = "model" THEN learned'[x] ELSE rated[x]] IN
         \E gen \in [Hours -> 0..basis["plant"]], load \in [Hours -> 0..basis["load"]] :
           forecasts' = [gen |-> gen, load |-> load, soc |-> soc, basis |-> basis]
  /\ UNCHANGED <<rated, derates, inputs, recorded>>

(* The gates of the cycle, an all-zero demand or no interconnection, and   *)
(* whatever else ends it early: an exception, the end of the process.      *)
GiveUp ==
  /\ phase \in {"forecast", "loaded"} /\ phase' = "idle"
  /\ forecasts' = Nil /\ inputs' = Nil
  /\ UNCHANGED <<rated, learned, derates, recorded>>

LoadInputs ==
  /\ phase = "forecast" /\ phase' = "loaded"
  /\ \E t \in Hours : forecasts.load[t] # 0
  /\ \E l \in Limits :
       inputs' = [gen |-> Derated(forecasts.gen, rated["plant"]), load |-> forecasts.load,
                  soc |-> forecasts.soc, import |-> l.import, export |-> l.export,
                  power |-> Power, rated |-> rated, basis |-> forecasts.basis]
  /\ forecasts' = Nil
  /\ UNCHANGED <<rated, learned, derates, recorded>>

(* Nothing that others write is read from here to the commit: the solver,  *)
(* validation, scenarios, Decision and Action rows.  Whatever it is asked, *)
(* the solver may come to no answer: there is none to be had, or it ends   *)
(* abnormally.  A scenario may come to none, or to an exception, by itself.*)
Conclude ==
  /\ phase = "loaded" /\ phase' = "done"
  /\ LET results == {[valid |-> Validates(p, inputs), orders |-> Orders(p[1], inputs)] :
                       p \in Plans(inputs)}
         infeasible == {x \in Scenarios : ~Plannable(Perturb(inputs, x))} IN
       \/ /\ planStatus' \in {"ERROR"} \union IF results = {} THEN {"INFEASIBLE"} ELSE {}
          /\ decision' = "failed" /\ orders' = {} /\ refused' = {}
       \/ \E r \in results :
            /\ planStatus' = "FEASIBLE"
            /\ decision' = IF r.valid THEN "proposed" ELSE "failed"
            /\ orders' = r.orders
            /\ refused' \in IF r.valid THEN SUBSET infeasible ELSE {{}}
  /\ UNCHANGED <<rated, learned, derates, forecasts, inputs>>

(* The cycle is over; what it recorded is looked at until the next one.    *)
NextCycle ==
  /\ phase = "done" /\ phase' = "idle"
  /\ inputs' = Nil /\ decision' = "none" /\ planStatus' = "none" /\ orders' = {} /\ refused' = {}
  /\ UNCHANGED <<rated, learned, derates, forecasts>>

PlanningNext ==
  \/ \E x \in Parts : PatchRating(x)
  \/ FileDerate
  \/ MakeForecasts \/ GiveUp \/ LoadInputs \/ Conclude \/ NextCycle

PlanningSpec == PlanningInit /\ [][PlanningNext]_planVars

-----------------------------------------------------------------------------
(* Demand can be served without the plant and the battery.                 *)
Servable(in) ==
  /\ SocMin <= in.soc /\ in.soc <= SocMax
  /\ \A t \in Hours :
       /\ in.gen[t] >= 0
       /\ \E k \in 0..in.load[t] : 100 * k <= ShedPct * in.load[t] /\ in.load[t] - k <= in.import

(* A decision fails only where the solver came to no answer, and then says *)
(* so in its plan, or for a cause that lies in its inputs: a state of      *)
(* charge outside the limits of the battery, a demand that import cannot   *)
(* serve even after shedding, or a negative derate; and no scenario is     *)
(* shown as infeasible without such a cause either.  Above all the         *)
(* validator never refuses a plan of the solver otherwise, nor is surplus  *)
(* generation ever a reason to fail.                                       *)
FailsForCause ==
  /\ decision = "failed" => planStatus = "ERROR" \/ ~Servable(inputs)
  /\ \A x \in refused : ~Servable(Perturb(inputs, x))

(* What an action asks for is within the max_kw of its envelope, unless    *)
(* its asset's rating had been lowered below the one the forecast rests    *)
(* on: patched between the two commits of the cycle, or since the model    *)
(* was trained.                                                            *)
EnvelopeHolds ==
  \A o \in orders :
    o.quantity > o.max =>
      \/ o.type = "curtail" /\ inputs.rated["plant"] < inputs.basis["plant"]
      \/ o.type = "demand_response" /\ inputs.rated["load"] < inputs.basis["load"]
=============================================================================
