------------------------------ MODULE Settings ------------------------------
(***************************************************************************)
(* config.json and profiles.json under concurrent requests: api_settings   *)
(* and api_profiles of app/blueprints/settings.py, load_config of          *)
(* core/checker.py, and the configuration in memory, state.CFG.            *)
(*                                                                         *)
(* Both files are read, changed and written again without a lock.          *)
(* write_text truncates the file and writes when it closes it, so that a   *)
(* reader in between finds it empty; of two writers that opened it at the  *)
(* same time the second leaves a tail of the first if it writes less.      *)
(***************************************************************************)
EXTENDS Naturals, FiniteSets

CONSTANTS
  Savers,           \* request threads
  Values,           \* what an operator types into a field
  Absent,           \* no value
  Mask,             \* _SECRET_SENTINEL
  Names,            \* of profiles
  Empty, Mixed      \* a file that was truncated, or is two documents in one another

\* One secret key stands for those of _SECRET_TOP_KEYS and _SECRET_NESTED, one
\* plain key for the others.
Document == [secret : Values \cup {Absent}, plain : Values \cup {Absent}]
Blank == [secret |-> Absent, plain |-> Absent]
Profiles == SUBSET Names

\* What json.loads raises on.
Unreadable == {Empty, Mixed}

ASSUME SettingsAssumption ==
  /\ Absent \notin Values /\ Mask \notin Values /\ Mask # Absent
  /\ Empty # Mixed
  /\ \A x \in Unreadable : x \notin Document /\ \A p \in Profiles : x # p

VARIABLES
  config,           \* config.json
  live,             \* state.CFG; the overlay of the environment is left out
  profiles,         \* profiles.json
  running,          \* the process is up
  save,             \* each thread's save of one of the two files
  crossed,          \* history: files of which two writes or a write and a kill met
  typed,            \* history: the secret each save has in its form, if typed over
  newest,           \* history: the secret typed last, of those in config.json
  behind,           \* history: saves of config.json under way that had read it
                    \* before a secret was stored that was typed
  reverted          \* history: one of these has written

overlap == <<typed, newest, behind, reverted>>
settingsVars == <<config, live, profiles, running, save, crossed, overlap>>

Files == {"config", "profiles"}

\* read: past _merge_settings or the change of the dict; open: past the
\* truncation; written, loaded, cleared: of config.json, before load_config,
\* CFG.clear and CFG.update.
SaveStage == {"idle", "read", "open", "written", "loaded", "cleared"}
NoSave == [stage |-> "idle", file |-> "config", doc |-> Blank]

SettingsTypeOK ==
  /\ config \in Document \cup Unreadable /\ live \in Document \cup {Empty}
  /\ profiles \in Profiles \cup Unreadable
  /\ running \in BOOLEAN /\ crossed \in SUBSET Files
  /\ \A t \in Savers :
       /\ save[t].stage \in SaveStage /\ save[t].file \in Files
       /\ save[t].doc \in IF save[t].file = "config" THEN Document ELSE Profiles
       /\ typed[t] \in Values \cup {Absent}
  /\ newest \in Values /\ behind \in SUBSET Savers /\ reverted \in BOOLEAN

\* The operator has entered a secret before.
SettingsInit ==
  /\ config \in {d \in Document : d.secret # Absent} /\ live = config
  /\ profiles \in Profiles
  /\ running = TRUE
  /\ save = [t \in Savers |-> NoSave]
  /\ crossed = {}
  /\ typed = [t \in Savers |-> Absent] /\ newest = config.secret
  /\ behind = {} /\ reverted = FALSE

-----------------------------------------------------------------------------
Saving(t, s) == running /\ save[t].stage = s
GoOn(t, s) == save' = [save EXCEPT ![t].stage = s]
Saved(t) == save' = [save EXCEPT ![t] = NoSave]

\* _mask_settings: what GET shows.
Masked(d) == [d EXCEPT !.secret = IF @ = Absent THEN Absent ELSE Mask]

\* _merge_settings: a field that is not in the form, and a secret that comes back
\* masked, stay.
MergedSettings(form, d) ==
  [secret |-> IF form.secret \in {Absent, Mask} THEN d.secret ELSE form.secret,
   plain |-> IF form.plain = Absent THEN d.plain ELSE form.plain]

\* A form is what GET showed at some time, with fields typed over or left out;
\* nobody empties the secret.
Form == Document \cup {Masked(d) : d \in Document}

Typed(form) == IF form.secret = Mask THEN Absent ELSE form.secret

\* Mutant of ReadConfig: what cannot be read is taken for empty, as
\* _load_profiles does.
ReadConfigOrBlank(t) ==
  /\ Saving(t, "idle")
  /\ \E form \in Form :
       /\ save' = [save EXCEPT ![t] = [stage |-> "read", file |-> "config",
            doc |-> MergedSettings(form, IF config \in Unreadable THEN Blank ELSE config)]]
       /\ typed' = [typed EXCEPT ![t] = Typed(form)]
  /\ UNCHANGED <<config, live, profiles, running, crossed, newest, behind, reverted>>

\* POST /api/settings, after _validate_settings: json.loads raises on a file that
\* is not JSON, and the answer is 500.
ReadConfig(t) ==
  /\ Saving(t, "idle") /\ config \notin Unreadable
  /\ \E form \in Form :
       /\ save' = [save EXCEPT ![t] = [stage |-> "read", file |-> "config",
                                       doc |-> MergedSettings(form, config)]]
       /\ typed' = [typed EXCEPT ![t] = Typed(form)]
  /\ UNCHANGED <<config, live, profiles, running, crossed, newest, behind, reverted>>

\* POST and DELETE /api/profiles: _load_profiles takes a file that is not JSON for
\* no profiles.
ReadProfiles(t) ==
  /\ Saving(t, "idle")
  /\ LET p == IF profiles \in Unreadable THEN {} ELSE profiles
     IN  \E q \in {p \cup {n} : n \in Names} \cup {p \ {n} : n \in p} :
           save' = [save EXCEPT ![t] = [stage |-> "read", file |-> "profiles", doc |-> q]]
  /\ UNCHANGED <<config, live, profiles, running, crossed, overlap>>

OtherWriters(t, f) == {u \in Savers \ {t} : save[u].stage = "open" /\ save[u].file = f}

Put(f, c) ==
  IF f = "config" THEN config' = c /\ UNCHANGED profiles
                  ELSE profiles' = c /\ UNCHANGED config

\* Mutant of Truncate: the file is opened before it is known what to write.
TruncateEarly(t) ==
  /\ Saving(t, "idle") \/ Saving(t, "read")
  /\ GoOn(t, IF Saving(t, "read") THEN "open" ELSE "idle")
  /\ Put(save[t].file, Empty)
  /\ crossed' = IF OtherWriters(t, save[t].file) = {} THEN crossed ELSE crossed \cup {save[t].file}
  /\ UNCHANGED <<live, running, overlap>>

\* write_text opens the file...
Truncate(t) ==
  /\ Saving(t, "read")
  /\ GoOn(t, "open")
  /\ Put(save[t].file, Empty)
  /\ crossed' = IF OtherWriters(t, save[t].file) = {} THEN crossed ELSE crossed \cup {save[t].file}
  /\ UNCHANGED <<live, running, overlap>>

Now(f) == IF f = "config" THEN config ELSE profiles

\* The saves of config.json that have read it and not written it yet.
UnderWay == {u \in Savers : save[u].stage \in {"read", "open"} /\ save[u].file = "config"}

\* history: what a write means for the secret typed last.
NoteSecret(t) ==
  IF save[t].file = "profiles" THEN UNCHANGED overlap
  ELSE /\ typed' = [typed EXCEPT ![t] = Absent]
       /\ IF typed[t] = Absent
          THEN /\ reverted' = (reverted \/ t \in behind)
               /\ behind' = behind \ {t} /\ UNCHANGED newest
          ELSE newest' = typed[t] /\ behind' = UnderWay \ {t} /\ reverted' = FALSE

\* ...and writes it.
Write(t) ==
  /\ Saving(t, "open")
  /\ LET f == save[t].file
     IN  \/ /\ Put(f, save[t].doc)
            /\ crossed' = IF OtherWriters(t, f) = {} THEN crossed \ {f} ELSE crossed
         \/ /\ Now(f) \notin {Empty, save[t].doc}
            /\ Put(f, Mixed)
            /\ UNCHANGED crossed
  /\ IF save[t].file = "config" THEN GoOn(t, "written") ELSE Saved(t)
  /\ NoteSecret(t)
  /\ UNCHANGED <<live, running>>

\* load_config; on what is not JSON it raises and CFG stays.
Load(t) ==
  /\ Saving(t, "written")
  /\ IF config \in Unreadable THEN Saved(t)
     ELSE save' = [save EXCEPT ![t] = [stage |-> "loaded", file |-> "config", doc |-> config]]
  /\ UNCHANGED <<config, live, profiles, running, crossed, overlap>>

\* CFG is changed in place.
Clear(t) ==
  /\ Saving(t, "loaded")
  /\ GoOn(t, "cleared")
  /\ live' = Empty
  /\ UNCHANGED <<config, profiles, running, crossed, overlap>>

\* update adds to what is there: two of them may meet.
Updated(d) ==
  IF live = Empty THEN d
  ELSE [k \in {"secret", "plain"} |-> IF d[k] = Absent THEN live[k] ELSE d[k]]

Update(t) ==
  /\ Saving(t, "cleared")
  /\ live' = Updated(save[t].doc)
  /\ Saved(t)
  /\ UNCHANGED <<config, profiles, running, crossed, overlap>>

KillSaves ==
  /\ running
  /\ running' = FALSE
  /\ crossed' = crossed \cup {save[t].file : t \in {u \in Savers : save[u].stage = "open"}}
  /\ save' = [t \in Savers |-> NoSave]
  /\ typed' = [t \in Savers |-> Absent] /\ behind' = {}
  /\ UNCHANGED <<config, live, profiles, newest, reverted>>

\* CFG is loaded when app.state is imported, which fails on a broken file.
Boot ==
  /\ ~running /\ config \notin Unreadable
  /\ running' = TRUE
  /\ live' = config
  /\ UNCHANGED <<config, profiles, save, crossed, overlap>>

\* An operator restores what the application cannot read: external.
Repair ==
  /\ ~running /\ config \in Unreadable
  /\ config' \in {d \in Document : d.secret # Absent}
  /\ crossed' = crossed \ {"config"}
  /\ newest' = config'.secret /\ reverted' = FALSE
  /\ UNCHANGED <<live, profiles, running, save, typed, behind>>

SaveStep(t) ==
  \/ ReadConfig(t) \/ ReadProfiles(t) \/ Truncate(t) \/ Write(t)
  \/ Load(t) \/ Clear(t) \/ Update(t)

SettingsNext == (\E t \in Savers : SaveStep(t)) \/ KillSaves \/ Boot \/ Repair

SettingsSpec == SettingsInit /\ [][SettingsNext]_settingsVars

-----------------------------------------------------------------------------
(* Properties.                                                              *)

\* config.json holds a real secret whenever it can be read, never the mask and
\* never none, and so does, once CFG is filled again, the memory: api_settings
\* refuses to merge into what it cannot read.  It is the one typed last, unless a
\* save wrote that had read the file before that one was stored: the merge of such
\* a save goes into the older document, and takes the older secret back with it.
SecretKept ==
  /\ config \notin Unreadable =>
       config.secret \in Values /\ (~reverted => config.secret = newest)
  /\ running /\ (\A t \in Savers : save[t].stage # "cleared") =>
       live.secret \in Values

\* What the comment on _SECRET_SENTINEL promises (settings.py:66): a secret that
\* comes back masked keeps the stored one, so that the one stored is the one typed
\* last.  It is not, when two saves overlap: nothing locks config.json between
\* read_text and write_text of api_settings.
SentinelKeepsStored == config \notin Unreadable => config.secret = newest

\* The files are readable, and the application starts, except while one is being
\* written, after two writes of it overlapped, or after a kill during a write.
ReadableUnlessCrossed ==
  \A f \in Files :
    Now(f) \in Unreadable =>
      f \in crossed \/ \E t \in Savers : save[t].stage = "open" /\ save[t].file = f
=============================================================================
