--------------------------- MODULE OnboardingService ---------------------------
(***************************************************************************)
(* What the operations service and the marketplace keep of one driver who  *)
(* applies to drive: the onboarding profile, the driver's row, a row per   *)
(* required document, the vehicle, the home region and the stream of       *)
(* onboarding_approved events the marketplace consumes.  Beside it, one    *)
(* ride that dispatch may give up on, which the admin panel can            *)
(* redispatch.  Every operator below is the whole effect of one endpoint:  *)
(* AdminPanel sends the calls, this module says what they do.              *)
(***************************************************************************)
EXTENDS Integers, FiniteSets

CONSTANTS
  Docs,        \* the required document types
  MetaDocs,    \* those that need a number, an expiry date and an issuer
  Fields,      \* the fields of the vehicle that are told apart
  MaxFiles,    \* bound: files uploaded for one document
  None         \* no value

\* The switch of the vehicle form: in a payload, the vehicle is switched off.
Off == "is_active"

ASSUME OnboardingAssumption ==
  /\ MetaDocs \subseteq Docs
  /\ Off \notin Fields
  /\ MaxFiles \in Nat \ {0}

ProfileStatuses == {"SUBMITTED", "DOCS_PENDING", "APPROVED", "REJECTED"}
DriverStatuses  == {"PENDING_APPROVAL", "ACTIVE", "SUSPENDED"}
DocStatuses     == {"MISSING", "SUBMITTED", "APPROVED", "REJECTED"}
Regions         == {"home", "away"}
Authors         == {"init", "driver", "admin"}

VARIABLES
  profile,   \* status of the driver's onboarding profile
  driver,    \* the marketplace's driver row
  docs,      \* document type -> status and file held (0: none)
  vehicle,   \* field -> who wrote it last, or None
  home,      \* the home region: active, and who named it
  ride,      \* a ride dispatch may give up on
  events     \* onboarding_approved events not yet consumed

svc == <<profile, driver, docs, vehicle, home, ride, events>>

DriverRows == [status: DriverStatuses, approved: BOOLEAN, region: Regions]
DocRows    == [status: DocStatuses, file: 0..MaxFiles]
Vehicles   == [Fields -> Authors] \cup {None}

SvcTypeOK ==
  /\ profile \in ProfileStatuses
  /\ driver \in DriverRows
  /\ docs \in [Docs -> DocRows]
  /\ vehicle \in Vehicles
  /\ home \in [active: BOOLEAN, name: Authors]
  /\ ride \in {"MATCHING", "NO_DRIVERS_FOUND", "ENDED"}
  /\ events \in Nat

\* How far the application is: no file yet (and no vehicle), a file for every
\* document, every file approved, or the driver approved as well.
Starts == {"new", "sent", "reviewed", "hired"}
NoFile   == [status |-> "MISSING", file |-> 0]
OneFile  == [status |-> "SUBMITTED", file |-> 1]
Reviewed == [status |-> "APPROVED", file |-> 1]

SvcInit(start) ==
  /\ profile = IF start = "hired" THEN "APPROVED" ELSE "SUBMITTED"
  /\ driver = [status |-> IF start = "hired" THEN "ACTIVE" ELSE "PENDING_APPROVAL",
               approved |-> start = "hired", region |-> "home"]
  /\ docs = [d \in Docs |-> CASE start = "new"  -> NoFile
                              [] start = "sent" -> OneFile
                              [] OTHER          -> Reviewed]
  /\ vehicle = IF start = "new" THEN None ELSE [f \in Fields |-> "init"]
  /\ home = [active |-> TRUE, name |-> "init"]
  /\ ride = "MATCHING"
  /\ events = 0

----------------------------------------------------------------------------
(* The endpoints.                                                          *)

\* POST /admin/onboarding/{id}/approve: whatever the documents say.
ApproveDriver ==
  /\ profile' = "APPROVED"
  /\ driver' = [driver EXCEPT !.status = "ACTIVE", !.approved = TRUE]
  /\ events' = events + 1
  /\ UNCHANGED <<docs, vehicle, home, ride>>

\* POST /admin/onboarding/{id}/reject and /request-info: the profile only.
SetProfile(status) ==
  /\ profile' = status
  /\ UNCHANGED <<driver, docs, vehicle, home, ride, events>>

\* The marketplace's half of POST /admin/drivers/{id}/suspend.
SuspendDriver ==
  /\ driver' = [driver EXCEPT !.status = "SUSPENDED"]
  /\ UNCHANGED <<profile, docs, vehicle, home, ride, events>>

AssignRegion(r) ==
  /\ driver' = [driver EXCEPT !.region = r]
  /\ UNCHANGED <<profile, docs, vehicle, home, ride, events>>

\* A document is decided by its row's id: the file it holds now is the file
\* the decision is about, whichever one the admin looked at.
DecideDocument(d, status) ==
  /\ docs[d].file > 0
  /\ docs' = [docs EXCEPT ![d].status = status]
  /\ UNCHANGED <<profile, driver, vehicle, home, ride, events>>

\* POST of a file by the driver or by an admin: the row is new, or the old
\* row gets the new file and goes back to review.
UploadDocument(d) ==
  /\ docs[d].file < MaxFiles
  /\ docs' = [docs EXCEPT ![d].status = "SUBMITTED", ![d].file = @ + 1]
  /\ UNCHANGED <<profile, driver, vehicle, home, ride, events>>

\* PATCH of the vehicle sets the fields of the payload (exclude_unset).  One
\* that is switched off is no longer the driver's active vehicle.
PatchVehicle(payload) ==
  /\ vehicle # None
  /\ vehicle' = IF Off \in DOMAIN payload THEN None
                ELSE [f \in Fields |-> IF f \in DOMAIN payload THEN payload[f] ELSE vehicle[f]]
  /\ UNCHANGED <<profile, driver, docs, home, ride, events>>

\* POST of a vehicle retires the active one, seen or not; the new one may be
\* switched off from the start.
PostVehicle(payload) ==
  /\ vehicle' = IF Off \in DOMAIN payload THEN None ELSE payload
  /\ UNCHANGED <<profile, driver, docs, home, ride, events>>

\* POST /admin/regions/{id}/toggle-active flips what the row holds now.
ToggleRegion ==
  /\ home' = [home EXCEPT !.active = ~@]
  /\ UNCHANGED <<profile, driver, docs, vehicle, ride, events>>

\* PUT /admin/regions/{id}: the payload's is_active and code are not read.
PutRegion(name) ==
  /\ home' = [home EXCEPT !.name = name]
  /\ UNCHANGED <<profile, driver, docs, vehicle, ride, events>>

\* POST of a redispatch: pending offers expire and the search starts anew.
Redispatch ==
  /\ ride \in {"NO_DRIVERS_FOUND", "MATCHING"}
  /\ ride' = "MATCHING"
  /\ UNCHANGED <<profile, driver, docs, vehicle, home, events>>

----------------------------------------------------------------------------
(* What runs by itself.                                                    *)

\* The marketplace consumes an onboarding_approved event.
ConsumeApproval ==
  /\ events > 0
  /\ events' = events - 1
  /\ driver' = [status |-> "ACTIVE", approved |-> TRUE, region |-> "home"]
  /\ UNCHANGED <<profile, docs, vehicle, home, ride>>

\* Dispatch gives the ride up, or somebody takes it or cancels it.
RideMoves ==
  /\ \/ ride = "MATCHING" /\ ride' \in {"NO_DRIVERS_FOUND", "ENDED"}
     \/ ride = "NO_DRIVERS_FOUND" /\ ride' = "ENDED"
  /\ UNCHANGED <<profile, driver, docs, vehicle, home, events>>

=============================================================================
