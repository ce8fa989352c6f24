----------------------------- MODULE Forecasting -----------------------------
(***************************************************************************)
(* Which forecaster a decision cycle uses for an asset: the physics        *)
(* baseline, live weather, or the trained model of the asset               *)
(* (reo_common/forecast_ml.py, policy/forecast.py, the start of            *)
(* policy/cycle.py).  The operator decides on the criteria and may have    *)
(* all models retrained (routers/forecasting.py) while a cycle runs.       *)
(*                                                                         *)
(* Cycle and retraining read, train on what they have read, and commit     *)
(* last; the rows are keyed by asset.                                      *)
(*                                                                         *)
(* Abstractions: time in hours, and neither a cycle nor a retraining takes *)
(* one; history is its number of hours; a fit is the improvement it came   *)
(* to, any value.  Every asset here is of a type that is forecast.         *)
(***************************************************************************)
EXTENDS Integers

CONSTANTS Plants,       \* assets
          Proposed,     \* PROPOSED_CRITERIA
          Custom,       \* criteria an operator may set, within validate_criteria
          Gains,        \* improvement_pct of a fit
          Floor,        \* 48: hours train_model needs in any case
          noModel,
          MaxHours      \* bound: the clock

(* The row of an asset: the outcome of its last training, n_samples, and   *)
(* (history) the min_training_hours it was trained under.                  *)
ModelRow == [status : {"insufficient_data", "trained"}, n : Nat, asked : Nat, gain : Int, at : Nat]

ASSUME ForecastAssumption ==
  /\ Floor \in Nat /\ MaxHours \in Nat /\ Gains \subseteq Int
  /\ \A c \in Custom \union {Proposed} :
       /\ c.mode \in {"physics", "ml", "auto"} /\ c.minHours \in Nat /\ c.minHours >= Floor
       /\ c.retrain \in Nat \ {0}
  /\ noModel \notin ModelRow

VARIABLES hours,        \* the clock
          history,      \* hours of usable telemetry of each asset
          retired,      \* assets with effective_to
          criteria,     \* PlatformSettings.forecast_criteria
          model,        \* ForecastModel rows
          cycle,        \* what the running cycle has read
          retraining,   \* what the running request to retrain has read
          forecast,     \* by asset: the source of its last forecast
          disturbed     \* history: since the last cycle read, something it reads changed

forecastVars ==
  <<hours, history, retired, criteria, model, cycle, retraining, forecast, disturbed>>

Undecided == [status |-> "proposed", mode |-> "auto", minHours |-> Proposed.minHours,
              minGain |-> Proposed.minGain, retrain |-> Proposed.retrain]
Off == [on |-> FALSE]
None == [by |-> "none", fallback |-> FALSE, gain |-> 0, age |-> 0, n |-> 0, asked |-> 0,
         under |-> Undecided]

ForecastInit ==
  /\ hours = 0 /\ retired = {}
  /\ history \in [Plants -> {0, Floor}]
  /\ criteria = noModel /\ model = [a \in Plants |-> noModel]
  /\ cycle = Off /\ retraining = Off
  /\ forecast = [a \in Plants |-> None] /\ disturbed = TRUE

-----------------------------------------------------------------------------
(* effective_criteria: until an operator decides, physics.                 *)
Effective(stored) ==
  IF stored = noModel THEN [Undecided EXCEPT !.mode = "physics"] ELSE stored

(* train_model: the rows a training may write for an asset with so much    *)
(* history.                                                                *)
Fits(n, c) ==
  IF n < c.minHours \/ n < Floor
  THEN {[status |-> "insufficient_data", n |-> n, asked |-> c.minHours, gain |-> 0, at |-> hours]}
  ELSE {[status |-> "trained", n |-> n, asked |-> c.minHours, gain |-> g, at |-> hours] :
          g \in Gains}

Trainings(seen) ==
  {rows \in [Plants -> UNION {Fits(history[a], seen.under) : a \in Plants} \union {noModel}] :
     \A a \in Plants :
       rows[a] \in IF a \in seen.assets THEN Fits(history[a], seen.under) ELSE {noModel}}

Upsert(rows) == [a \in Plants |-> IF rows[a] = noModel THEN model[a] ELSE rows[a]]

(* The unique key of (tenant, asset, variable): rows that were not there   *)
(* when they were looked up, and are now.                                  *)
Clash(seen) == \E a \in seen.new : model[a] # noModel

(* Mutant: a trained model is never too old.                               *)
StaleNever(row, c) == row = noModel \/ (row.status # "trained" /\ hours > row.at)

(* ensure_models_fresh.                                                    *)
Stale(row, c) ==
  \/ row = noModel
  \/ hours - row.at > c.retrain
  \/ row.status # "trained" /\ hours > row.at

(* models_to_apply.                                                        *)
Qualifies(row, c) ==
  /\ row # noModel /\ row.status = "trained"
  /\ c.mode = "ml" \/ (c.mode = "auto" /\ row.gain >= c.minGain)

Snapshot ==
  LET c == Effective(criteria)
      assets == Plants \ retired IN
    [on |-> TRUE, under |-> c, assets |-> assets,
     new |-> {a \in assets : model[a] = noModel},
     stale |-> \E a \in assets : Stale(model[a], c)]

-----------------------------------------------------------------------------
(* accept_criteria and set_criteria.                                       *)
StoreCriteria(status, c) ==
  /\ criteria' = [status |-> status, mode |-> c.mode, minHours |-> c.minHours,
                  minGain |-> c.minGain, retrain |-> c.retrain]
  /\ disturbed' = TRUE
  /\ UNCHANGED <<hours, history, retired, model, cycle, retraining, forecast>>

AcceptCriteria == StoreCriteria("accepted", Proposed)
SetCriteria == \E c \in Custom : StoreCriteria("custom", c)

(* retrain_now.                                                            *)
StartRetrain ==
  /\ ~retraining.on
  /\ retraining' = Snapshot
  /\ UNCHANGED <<hours, history, retired, criteria, model, cycle, forecast, disturbed>>

FinishRetrain ==
  /\ retraining.on /\ ~Clash(retraining)
  /\ \E rows \in Trainings(retraining) : model' = Upsert(rows)
  /\ retraining' = Off /\ disturbed' = TRUE
  /\ UNCHANGED <<hours, history, retired, criteria, cycle, forecast>>

RetrainFails ==
  /\ retraining.on /\ retraining' = Off
  /\ UNCHANGED <<hours, history, retired, criteria, model, cycle, forecast, disturbed>>

(* update_asset of the registry: retire an asset or bring it back.         *)
Retire(a) ==
  /\ retired' = IF a \in retired THEN retired \ {a} ELSE retired \union {a}
  /\ disturbed' = TRUE
  /\ UNCHANGED <<hours, history, criteria, model, cycle, retraining, forecast>>

HourPasses ==
  /\ hours < MaxHours /\ ~cycle.on /\ ~retraining.on
  /\ hours' = hours + 1 /\ disturbed' = TRUE
  /\ \E more \in SUBSET Plants :
       history' = [a \in Plants |-> history[a] + IF a \in more THEN 1 ELSE 0]
  /\ UNCHANGED <<retired, criteria, model, cycle, retraining, forecast>>

-----------------------------------------------------------------------------
(* run_cycle up to its first commit.                                       *)
StartCycle ==
  /\ ~cycle.on
  /\ cycle' = Snapshot /\ disturbed' = FALSE
  /\ UNCHANGED <<hours, history, retired, criteria, model, retraining, forecast>>

Source(row, c, live) ==
  LET ml == Qualifies(row, c) IN
    [by |-> IF ml THEN "ml" ELSE IF live THEN "weather" ELSE "physics",
     fallback |-> c.mode = "ml" /\ ~ml, under |-> c,
     gain |-> IF ml THEN row.gain ELSE 0, age |-> IF ml THEN hours - row.at ELSE 0,
     n |-> IF ml THEN row.n ELSE 0, asked |-> IF ml THEN row.asked ELSE 0]

(* With the live feed enabled and its API answering, or not.               *)
Issue(rows) ==
  \E live \in BOOLEAN :
    forecast' = [a \in Plants |-> IF a \in cycle.assets
                                 THEN Source(rows[a], cycle.under, live) ELSE forecast[a]]

(* ensure_models_fresh in its savepoint, load_trained_models,              *)
(* generate_and_persist_forecasts, commit.                                 *)
FinishCycle ==
  /\ cycle.on
  /\ \/ /\ cycle.stale /\ ~Clash(cycle)
        /\ \E rows \in Trainings(cycle) : model' = Upsert(rows)
     \/ ~cycle.stale /\ UNCHANGED model
  /\ Issue(model')
  /\ cycle' = Off
  /\ UNCHANGED <<hours, history, retired, criteria, retraining, disturbed>>

(* The training or the loading fails: this cycle goes without models.      *)
FinishWithoutModels ==
  /\ cycle.on
  /\ Issue([a \in Plants |-> noModel])
  /\ cycle' = Off /\ disturbed' = TRUE
  /\ UNCHANGED <<hours, history, retired, criteria, model, retraining>>

CycleFails ==
  /\ cycle.on /\ cycle' = Off /\ disturbed' = TRUE
  /\ UNCHANGED <<hours, history, retired, criteria, model, retraining, forecast>>

ForecastNext ==
  \/ AcceptCriteria \/ SetCriteria
  \/ StartRetrain \/ FinishRetrain \/ RetrainFails
  \/ (\E a \in Plants : Retire(a)) \/ HourPasses
  \/ StartCycle \/ FinishCycle \/ FinishWithoutModels \/ CycleFails

ForecastSpec == ForecastInit /\ [][ForecastNext]_forecastVars

-----------------------------------------------------------------------------
(* _view of routers/forecasting.py: the models the operator is shown as    *)
(* applied.                                                                *)
Applied(a) == Qualifies(model[a], Effective(criteria))

(* forecast_ml.py: "the proposal is shown, not silently adopted".  A       *)
(* forecast by a model rests on criteria that an operator decided on, and  *)
(* on a model of the mode and the improvement they ask for and not older   *)
(* than their retrain_hours, whatever retraining overlaps the cycle.  Its  *)
(* history is as long as was asked for when it was trained: criteria that  *)
(* ask for more are not held against it before it is trained again.        *)
(* A fallback is recorded exactly where "ml" was asked for and not had.    *)
(* And as long as nothing it reads has changed since a cycle, what the     *)
(* operator is shown as applied is what the cycle used.                    *)
ModelInForce ==
  \A a \in Plants :
    LET f == forecast[a] IN
      /\ f.by = "ml" =>
           /\ f.under.status # "proposed" /\ f.under.mode # "physics"
           /\ f.under.mode = "auto" => f.gain >= f.under.minGain
           /\ f.age <= f.under.retrain
           /\ f.n >= f.asked /\ f.n >= Floor
      /\ f.fallback <=> (f.by \in {"physics", "weather"} /\ f.under.mode = "ml")
      /\ (~disturbed /\ ~cycle.on /\ a \notin retired) => (f.by = "ml" <=> Applied(a))
=============================================================================
