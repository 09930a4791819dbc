----------------------------- MODULE SoulLoader -----------------------------
(***************************************************************************)
(* The loader of soul sheets (rasa/agent/soul.py): one cached soul, its    *)
(* file, the file of the soul it inherits from, and the modification time  *)
(* by which a change is noticed.  Files are edited while a load reads      *)
(* them; an edit may leave the file with a time that is not later than the *)
(* one it had (a copy that keeps times, a checkout, a coarse clock).       *)
(*                                                                         *)
(* A sheet is a version number; whether it is well formed is a choice its  *)
(* edit makes.  The deeper ancestors are read as the parent is.  The file  *)
(* is named after its soul: one that is not has no time and is never stale.*)
(***************************************************************************)
EXTENDS Integers

CONSTANT MaxEdits  \* bound on the edits: versions are 0..MaxEdits

SoulConstants == MaxEdits \in Nat

VARIABLES
  sheet,   \* version of the soul's file
  base,    \* version of its parent's file
  sound,   \* the soul's file passes the schema
  mtime,   \* the soul's file's modification time
  step,    \* where load is: idle, parent, stamp
  reading, \* version load has read
  soul,    \* cached soul: versions of its own file and of its parent's
  stamp,   \* _mtimes: the time recorded with it, None for none
  missed   \* history: an edit since load read the file that its time cannot
           \* show: one before the time was recorded, or one with no later time

vars == <<sheet, base, sound, mtime, step, reading, soul, stamp, missed>>

None == -1
Versions == 0..MaxEdits
NoSoul == [own |-> None, parent |-> None]

TypeOK ==
  /\ sheet \in Versions /\ base \in Versions /\ sound \in BOOLEAN
  /\ mtime \in Versions /\ step \in {"idle", "parent", "stamp"}
  /\ reading \in Versions \cup {None}
  /\ soul \in [own : Versions, parent : Versions] \cup {NoSoul}
  /\ stamp \in Versions \cup {None}
  /\ missed \in BOOLEAN
  /\ stamp # None => soul # NoSoul

Init ==
  /\ sheet = 0 /\ base = 0 /\ sound = TRUE /\ mtime = 0
  /\ step = "idle" /\ reading = None
  /\ soul = NoSoul /\ stamp = None /\ missed = FALSE

(* is_stale: by the soul's own file alone. *)
Stale == stamp = None \/ mtime > stamp

EditSheet ==
  /\ sheet < MaxEdits /\ sheet' = sheet + 1
  /\ sound' \in BOOLEAN
  /\ mtime' \in {mtime, mtime + 1}
  /\ missed' = (missed \/ step # "idle" \/ mtime' = mtime)
  /\ UNCHANGED <<base, step, reading, soul, stamp>>

EditBase ==
  /\ base < MaxEdits /\ base' = base + 1
  /\ UNCHANGED <<sheet, sound, mtime, step, reading, soul, stamp, missed>>

(* _read_raw, _validate: a sheet that fails leaves nothing cached. *)
Read ==
  /\ missed' = FALSE
  /\ IF sound THEN step' = "parent" /\ reading' = sheet
              ELSE UNCHANGED <<step, reading>>
  /\ UNCHANGED <<sheet, base, sound, mtime>>

(* A faulty variant, for the mutant: a hit records the time of the file.   *)
LoadStamping ==
  /\ step = "idle"
  /\ IF soul # NoSoul
     THEN /\ stamp' = mtime
          /\ UNCHANGED <<sheet, base, sound, mtime, step, reading, soul, missed>>
     ELSE Read /\ UNCHANGED <<soul, stamp>>

(* load: what is cached is returned as it is. *)
Load ==
  /\ step = "idle" /\ soul = NoSoul
  /\ Read
  /\ UNCHANGED <<soul, stamp>>

(* reload_if_stale forgets the soul before it loads it. *)
Reload ==
  /\ step = "idle" /\ Stale
  /\ soul' = NoSoul /\ stamp' = None
  /\ Read

(* _resolve_inheritance, _deep_merge, _from_dict: the parent's file is     *)
(* read after the soul's own; then the soul is cached.                     *)
Resolve ==
  /\ step = "parent"
  /\ soul' = [own |-> reading, parent |-> base]
  /\ step' = "stamp"
  /\ UNCHANGED <<sheet, base, sound, mtime, reading, stamp, missed>>

(* _file_mtime: read last, whatever it is by now. *)
Stamp ==
  /\ step = "stamp"
  /\ stamp' = mtime /\ step' = "idle" /\ reading' = None
  /\ UNCHANGED <<sheet, base, sound, mtime, soul, missed>>

Next == EditSheet \/ EditBase \/ Load \/ Reload \/ Resolve \/ Stamp

Spec == Init /\ [][Next]_vars

(* Whoever holds a soul can tell that it is out of date: while no load is  *)
(* under way, a cached soul is the sheet on disk, or it is stale, or an    *)
(* edit since it was read is one that its time cannot show.  Nothing of    *)
(* the kind holds for the parent: an edit of its file is never noticed.    *)
OldSoulsAreStale ==
  step = "idle" /\ soul # NoSoul => soul.own = sheet \/ Stale \/ missed
=============================================================================
