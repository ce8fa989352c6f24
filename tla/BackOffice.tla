----------------------------- MODULE BackOffice ------------------------------
(***************************************************************************)
(* The parts beside telemetry, dispatch and agents, together: what people  *)
(* hand in, the watched folder, exports, accounts, the login throttle, the *)
(* registry, the choice of forecasters and the planning of a cycle.  They  *)
(* share the database and, as far as they are modelled, no row in it, so   *)
(* that a behaviour of one says all there is to say of it: each behaviour  *)
(* here is one of one part, and the others stand still.                    *)
(***************************************************************************)
EXTENDS Intake, FolderWatch, Exports, Accounts, LoginThrottle, Registry, Forecasting, Planning

VARIABLE part           \* the part this behaviour is one of

officeVars == <<part, intakeVars, folderVars, exportVars, accountVars, throttleVars,
                registryVars, forecastVars, planVars>>

OfficeParts == {"intake", "folder", "exports", "accounts", "throttle", "registry",
                "forecasting", "planning"}

(* Where a part may begin in several ways, the others see one of them.     *)
OfficeInit ==
  /\ part \in OfficeParts
  /\ IntakeInit /\ FolderInit /\ ExportInit /\ AccountInit /\ ThrottleInit /\ RegistryInit
  /\ ForecastInit /\ PlanningInit
  /\ part # "accounts" => account[FirstAdmin].roles = {"tenant_admin"}
  /\ part # "forecasting" => \A a \in Plants : history[a] = 0
  /\ part # "planning" => \A x \in Parts : \A r \in Ratings[x] : rated[x] <= r

IntakeStill == UNCHANGED intakeVars
FolderStill == UNCHANGED folderVars
ExportStill == UNCHANGED exportVars
AccountStill == UNCHANGED accountVars
ThrottleStill == UNCHANGED throttleVars
RegistryStill == UNCHANGED registryVars
ForecastStill == UNCHANGED forecastVars
PlanStill == UNCHANGED planVars

OfficeNext ==
  /\ UNCHANGED part
  /\ \/ /\ part = "intake" /\ IntakeNext
        /\ FolderStill /\ ExportStill /\ AccountStill /\ ThrottleStill /\ RegistryStill
        /\ ForecastStill /\ PlanStill
     \/ /\ part = "folder" /\ FolderNext
        /\ IntakeStill /\ ExportStill /\ AccountStill /\ ThrottleStill /\ RegistryStill
        /\ ForecastStill /\ PlanStill
     \/ /\ part = "exports" /\ ExportNext
        /\ IntakeStill /\ FolderStill /\ AccountStill /\ ThrottleStill /\ RegistryStill
        /\ ForecastStill /\ PlanStill
     \/ /\ part = "accounts" /\ AccountNext
        /\ IntakeStill /\ FolderStill /\ ExportStill /\ ThrottleStill /\ RegistryStill
        /\ ForecastStill /\ PlanStill
     \/ /\ part = "throttle" /\ ThrottleNext
        /\ IntakeStill /\ FolderStill /\ ExportStill /\ AccountStill /\ RegistryStill
        /\ ForecastStill /\ PlanStill
     \/ /\ part = "registry" /\ RegistryNext
        /\ IntakeStill /\ FolderStill /\ ExportStill /\ AccountStill /\ ThrottleStill
        /\ ForecastStill /\ PlanStill
     \/ /\ part = "forecasting" /\ ForecastNext
        /\ IntakeStill /\ FolderStill /\ ExportStill /\ AccountStill /\ ThrottleStill
        /\ RegistryStill /\ PlanStill
     \/ /\ part = "planning" /\ PlanningNext
        /\ IntakeStill /\ FolderStill /\ ExportStill /\ AccountStill /\ ThrottleStill
        /\ RegistryStill /\ ForecastStill

(* The fairness of the parts, each as its module states it.                *)
FolderStep == part = "folder" /\ Watch /\ OfficeNext
ExportStep == part = "exports" /\ Export /\ OfficeNext
PublishStep == part = "exports" /\ PublishNext /\ OfficeNext
ThrottleTick == part = "throttle" /\ TickThrottle /\ OfficeNext
ExpireStep == part = "throttle" /\ ExpireNext /\ OfficeNext

OfficeFair ==
  /\ WF_officeVars(FolderStep) /\ WF_officeVars(ExportStep) /\ WF_officeVars(PublishStep)
  /\ WF_officeVars(ThrottleTick) /\ WF_officeVars(ExpireStep)

OfficeSpec == OfficeInit /\ [][OfficeNext]_officeVars /\ OfficeFair
=============================================================================
