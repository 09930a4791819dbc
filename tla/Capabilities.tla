---------------------------- MODULE Capabilities ----------------------------
(***************************************************************************)
(* The registry of what agents can do (agent_capabilities), by which the   *)
(* orchestrator chooses whom to give a task: pool controllers reconcile it *)
(* with the soul sheets every six hours (rasa/pool/controller.py,          *)
(* rasa/orchestrator/capabilities.py).  Nothing keeps two controllers from *)
(* running, and sheets are edited while a pass reads them.                 *)
(*                                                                         *)
(* A sheet, with those it inherits from, is a version number, and is good, *)
(* gone (or not valid), or broken: half written, it does not parse.  A     *)
(* load reads the sheets in the order of the directory up to the one it    *)
(* looks for, and fails at the first that is broken.  A pass is its        *)
(* transactions, one after the other.                                      *)
(***************************************************************************)
EXTENDS Integers, Sequences

CONSTANTS
  Souls,
  Listing,      \* the souls in the order of the directory
  Controllers,  \* pool controllers that run
  MaxEdits,     \* bound on the edits: versions are 0..MaxEdits
  MaxFaults     \* bound on failed statements and controllers that end

CapabilityConstants ==
  /\ Listing \in Seq(Souls) /\ \A s \in Souls : \E i \in DOMAIN Listing :
                                                  Listing[i] = s
  /\ MaxEdits \in Nat /\ MaxFaults \in Nat

VARIABLES
  sheet,    \* sheet[s]: version of the file of soul s
  form,     \* form[s]: good, gone or broken
  row,      \* row[s]: version that the row of s tells of, or None
  step,     \* step[c]: where the pass of controller c is
  todo,     \* todo[c]: souls of list_all still to load
  held,     \* held[c]: soul and version loaded and not yet registered
  active,   \* active[c]: souls that were loaded
  doomed,   \* doomed[c]: rows still to delete
  began,    \* history: sheets and rows as the passes under way, or the last
            \* ones, found them
  steady,   \* history: souls that could be loaded all the time since
  absent,   \* history: souls that never could since
  hitch,    \* history: a pass failed or was cut short since
  faults    \* faults so far

files == <<sheet, form>>
pass == <<step, todo, held, active, doomed>>
vars == <<files, row, pass, began, steady, absent, hitch, faults>>

None == -1
Versions == 0..MaxEdits
Nothing == <<"none", None>>
Forms == {"good", "gone", "broken"}

(* load: _read_raw, _validate. *)
Loads(s, f) ==
  /\ f[s] = "good"
  /\ \E i \in DOMAIN Listing :
       Listing[i] = s /\ \A j \in 1..i : f[Listing[j]] # "broken"

Loadable(f) == {s \in Souls : Loads(s, f)}
Resting == \A c \in Controllers : step[c] = "idle"

TypeOK ==
  /\ sheet \in [Souls -> Versions] /\ form \in [Souls -> Forms]
  /\ row \in [Souls -> Versions \cup {None}]
  /\ step \in [Controllers -> {"idle", "load", "delete"}]
  /\ todo \in [Controllers -> SUBSET Souls]
  /\ held \in [Controllers -> (Souls \X Versions) \cup {Nothing}]
  /\ active \in [Controllers -> SUBSET Souls]
  /\ doomed \in [Controllers -> SUBSET Souls]
  /\ \A c \in Controllers : doomed[c] \cap active[c] = {}
  /\ began \in [sheet : [Souls -> Versions],
                row : [Souls -> Versions \cup {None}]]
  /\ steady \subseteq Souls /\ absent \subseteq Souls
  /\ hitch \in BOOLEAN /\ faults \in 0..MaxFaults

(* The migration has seeded rows for some of the souls. *)
Init ==
  /\ sheet = [s \in Souls |-> 0] /\ form = [s \in Souls |-> "good"]
  /\ row \in [Souls -> {0, None}]
  /\ step = [c \in Controllers |-> "idle"]
  /\ todo = [c \in Controllers |-> {}]
  /\ held = [c \in Controllers |-> Nothing]
  /\ active = [c \in Controllers |-> {}]
  /\ doomed = [c \in Controllers |-> {}]
  /\ began = [sheet |-> sheet, row |-> row]
  /\ steady = {} /\ absent = {} /\ hitch = FALSE /\ faults = 0

Edit(s) ==
  /\ sheet[s] < MaxEdits
  /\ sheet' = [sheet EXCEPT ![s] = @ + 1]
  /\ \E f \in Forms : form' = [form EXCEPT ![s] = f]
  /\ steady' = steady \cap Loadable(form') /\ absent' = absent \ Loadable(form')
  /\ UNCHANGED <<row, pass, began, hitch, faults>>

(* list_all passes over what is broken. *)
ListSouls(c) ==
  /\ step[c] = "idle"
  /\ step' = [step EXCEPT ![c] = "load"]
  /\ todo' = [todo EXCEPT ![c] = {s \in Souls : form[s] = "good"}]
  /\ active' = [active EXCEPT ![c] = {}]
  /\ IF Resting
     THEN /\ began' = [sheet |-> sheet, row |-> row]
          /\ steady' = Loadable(form) /\ absent' = Souls \ Loadable(form)
          /\ hitch' = FALSE
     ELSE UNCHANGED <<began, steady, absent, hitch>>
  /\ UNCHANGED <<files, row, held, doomed, faults>>

(* load, with a loader of this pass: nothing is cached.  A soul that fails *)
(* is left to the deletion.                                                *)
LoadSoul(c, s) ==
  /\ step[c] = "load" /\ held[c] = Nothing /\ s \in todo[c]
  /\ todo' = [todo EXCEPT ![c] = @ \ {s}]
  /\ IF Loads(s, form)
     THEN /\ active' = [active EXCEPT ![c] = @ \cup {s}]
          /\ held' = [held EXCEPT ![c] = <<s, sheet[s]>>]
     ELSE UNCHANGED <<active, held>>
  /\ UNCHANGED <<files, row, step, doomed, began, steady, absent, hitch, faults>>

(* register_capability: the upsert, whatever the row says by now. *)
Register(c) ==
  /\ held[c] # Nothing
  /\ row' = [row EXCEPT ![held[c][1]] = held[c][2]]
  /\ held' = [held EXCEPT ![c] = Nothing]
  /\ UNCHANGED <<files, step, todo, active, doomed, began, steady, absent,
                 hitch, faults>>

Fault == faults < MaxFaults /\ faults' = faults + 1 /\ hitch' = TRUE

(* The upsert fails: the error is printed, the soul stays active. *)
FailRegister(c) ==
  /\ held[c] # Nothing /\ Fault
  /\ held' = [held EXCEPT ![c] = Nothing]
  /\ UNCHANGED <<files, row, step, todo, active, doomed, began, steady, absent>>

(* A faulty variant, for the mutant: the deletion inside the loop. *)
ListRowsEarly(c) ==
  /\ step[c] = "load" /\ held[c] = Nothing
  /\ step' = [step EXCEPT ![c] = "delete"]
  /\ todo' = [todo EXCEPT ![c] = {}]
  /\ doomed' = [doomed EXCEPT ![c] = {s \in Souls : row[s] # None} \ active[c]]
  /\ UNCHANGED <<files, row, held, active, began, steady, absent, hitch, faults>>

(* list_capabilities: the rows of souls that were not loaded. *)
ListRows(c) ==
  /\ step[c] = "load" /\ todo[c] = {} /\ held[c] = Nothing
  /\ step' = [step EXCEPT ![c] = "delete"]
  /\ doomed' = [doomed EXCEPT ![c] = {s \in Souls : row[s] # None} \ active[c]]
  /\ UNCHANGED <<files, row, todo, held, active, began, steady, absent, hitch,
                 faults>>

(* delete_capability. *)
DeleteRow(c, s) ==
  /\ s \in doomed[c]
  /\ row' = [row EXCEPT ![s] = None]
  /\ doomed' = [doomed EXCEPT ![c] = @ \ {s}]
  /\ UNCHANGED <<files, step, todo, held, active, began, steady, absent, hitch,
                 faults>>

EndPass(c) ==
  /\ step[c] = "delete" /\ doomed[c] = {}
  /\ step' = [step EXCEPT ![c] = "idle"]
  /\ UNCHANGED <<files, row, todo, held, active, doomed, began, steady, absent,
                 hitch, faults>>

(* A statement of the deletion fails, which ends the pass; or the          *)
(* controller ends, and another is started.                                *)
CutShort(c) ==
  /\ step[c] # "idle" /\ Fault
  /\ step' = [step EXCEPT ![c] = "idle"]
  /\ todo' = [todo EXCEPT ![c] = {}] /\ doomed' = [doomed EXCEPT ![c] = {}]
  /\ held' = [held EXCEPT ![c] = Nothing]
  /\ UNCHANGED <<files, row, active, began, steady, absent>>

Next ==
  \/ \E s \in Souls : Edit(s)
  \/ \E c \in Controllers :
       \/ ListSouls(c) \/ Register(c) \/ FailRegister(c) \/ ListRows(c)
       \/ EndPass(c) \/ CutShort(c)
       \/ \E s \in Souls : LoadSoul(c, s) \/ DeleteRow(c, s)

Spec == Init /\ [][Next]_vars

(* When no pass is under way the registry is what the last ones owe it,    *)
(* although they overlapped and sheets were edited under them: the row of  *)
(* a soul that could be loaded all the time is neither gone nor older than *)
(* it was, not even after failures; without any it tells of the sheet as   *)
(* it was when they began, or a later one; and a soul that could never be  *)
(* loaded has no row.  A soul that cannot be loaded for a moment, be it    *)
(* for a sheet of another that is broken, may lose its row until the next  *)
(* pass.                                                                   *)
RowsFollowSheets ==
  Resting => \A s \in Souls :
    /\ s \in steady => row[s] >= began.row[s]
    /\ s \in steady /\ ~hitch => row[s] >= began.sheet[s]
    /\ s \in absent /\ ~hitch => row[s] = None
=============================================================================
