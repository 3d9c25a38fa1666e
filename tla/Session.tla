------------------------------ MODULE Session ------------------------------
(***************************************************************************)
(* The control session of `fluxframe run`: the configuration as loaded,    *)
(* the active preset with its unsaved edits, and the chain the current run *)
(* renders with.  The session belongs to the process; runs come and go     *)
(* with the camera and each builds its chain from the session.             *)
(*                                                                         *)
(* Every command is applied by the worker between two frames, start to     *)
(* finish, so it is one step here.  A save stages a temporary file and     *)
(* renames it: a crash leaves the old file or the new one, and in the      *)
(* second case looks like a save followed by a crash.                      *)
(*                                                                         *)
(* Left out: the commands that only read, the wording of errors, and the   *)
(* text of the file (comments, order of sections).  A daemon without a     *)
(* configuration file has no presets and never gets past Boot.             *)
(***************************************************************************)
EXTENDS Preset

CONSTANTS
    Name,           \* preset names
    Globals,        \* values of the global tables ([input], [output], ...)
    DefaultGlobals, \* their built-in values
    AutoGlobals,    \* those with input.device = "auto"
    Override,       \* Override[g]: the tables g with the command line laid over them
    Savable,        \* names save_preset accepts: [A-Za-z0-9_-]+
    Requested,      \* the preset named by --preset, or "default"
    Files,          \* contents an operator may give the file
    EditKinds,      \* the section kinds clients edit ...
    Chains,         \* ... the chains they ask for ...
    MaxCommands,    \* ... and how many commands they send
    MaxEdits,       \* how often the operator rewrites the file
    MaxBoots        \* how often the daemon is started

\* What a reader makes of the file: nothing there, not TOML, TOML that
\* validate() refuses, or a configuration; blamed is the preset whose tables
\* alone make it broken or invalid, if there is one.
FileKind == {"absent", "broken", "invalid", "valid"}
IsPresets(presets) ==
    IsPartial(presets, Name) /\ \A n \in DOMAIN presets : IsPreset(presets[n])
IsFile(f) ==
    /\ f = [kind |-> f.kind, globals |-> f.globals, presets |-> f.presets, blamed |-> f.blamed]
    /\ f.kind \in FileKind /\ f.globals \in Globals /\ IsPresets(f.presets)
    /\ f.blamed \subseteq DOMAIN f.presets /\ \A m, n \in f.blamed : m = n
    /\ f.kind \in {"absent", "valid"} => f.blamed = {}

ASSUME GlobalsAssumption ==
    /\ DefaultGlobals \in Globals
    /\ AutoGlobals \subseteq Globals
    /\ Override \in [Globals -> Globals]
ASSUME NameAssumption == Requested \in Name /\ Savable \subseteq Name
ASSUME FilesAssumption == \A f \in Files : IsFile(f)
ASSUME ClientAssumption == EditKinds \subseteq Kind /\ \A names \in Chains : names \in Seq(Effect)
ASSUME BoundAssumption ==
    MaxCommands \in Nat /\ MaxEdits \in Nat /\ MaxBoots \in Nat

VARIABLES
    file,     \* the configuration file
    phase,    \* of the process: "off", "waiting" between runs, "acquiring" a
              \* camera with the chain built, "serving" frames
    cfg,      \* session.cfg
    name,     \* session.active_preset_name
    active,   \* session.active_preset, unsaved edits included
    live,     \* the chain of the current run
    started,  \* the global tables the process started with ...
    using,    \* ... and those the current run was built with
    reply,    \* the answer to the last command
    touched,  \* the operator changed the file since it was last loaded
    commands, \* commands answered so far
    edits,    \* times the operator rewrote the file so far
    boots     \* times the daemon was started so far

session == <<cfg, name, active>>
env == <<started, using>>
vars == <<file, phase, cfg, name, active, live, started, using, reply, touched,
          commands, edits, boots>>

Phases == {"off", "waiting", "acquiring", "serving"}
Running == phase \in {"acquiring", "serving"}
AutoInput == started \in AutoGlobals

Init ==
    /\ file \in Files
    /\ phase = "off"
    /\ cfg = [globals |-> DefaultGlobals, presets |-> None]
    /\ name = Requested
    /\ active = None
    /\ live = Passthrough
    /\ started = DefaultGlobals
    /\ using = DefaultGlobals
    /\ reply = "none"
    /\ touched = FALSE
    /\ commands = 0
    /\ edits = 0
    /\ boots = 0

-----------------------------------------------------------------------------
(* The process and its runs. *)

\* run: load the file, lay the command line over it, validate, resolve the
\* preset.  Anything missing ends the process before it has begun.
Boot ==
    /\ phase = "off"
    /\ boots < MaxBoots
    /\ file.kind = "valid"
    /\ Requested \in DOMAIN file.presets
    /\ phase' = "waiting"
    /\ cfg' = [globals |-> Override[file.globals], presets |-> file.presets]
    /\ name' = Requested
    /\ active' = file.presets[Requested]
    /\ started' = Override[file.globals]
    /\ using' = Override[file.globals]
    /\ live' = Passthrough
    /\ reply' = "none"
    /\ touched' = FALSE
    /\ boots' = boots + 1
    /\ UNCHANGED <<file, commands, edits>>

\* A preset that does not build is a configuration error and ends the process;
\* an effect that does not prepare is taken for a fault that may pass.
RunBegins ==
    /\ phase = "waiting"
    /\ using' = IF AutoInput THEN cfg.globals ELSE started
    /\ \/ /\ ~Builds(active)
          /\ phase' = "off"
          /\ UNCHANGED live
       \/ /\ Builds(active) /\ ~Prepares(active)
          /\ phase' = IF AutoInput THEN "waiting" ELSE "off"
          /\ UNCHANGED live
       \/ /\ Builds(active) /\ Prepares(active)
          /\ phase' = "acquiring"
          /\ live' = Chain(active)
    /\ UNCHANGED <<file, session, started, reply, touched, commands, edits, boots>>

CameraOpens ==
    /\ phase = "acquiring"
    /\ phase' = "serving"
    /\ UNCHANGED <<file, session, live, env, reply, touched, commands, edits, boots>>

\* recover_input: the output, the chain and the run stay, the camera is reopened.
CameraLost ==
    /\ phase = "serving"
    /\ phase' = "acquiring"
    /\ UNCHANGED <<file, session, live, env, reply, touched, commands, edits, boots>>

\* Any other failure takes the chain down with the run; run_auto begins another.
RunFails ==
    /\ Running
    /\ phase' = IF AutoInput THEN "waiting" ELSE "off"
    /\ live' = Passthrough
    /\ UNCHANGED <<file, session, env, reply, touched, commands, edits, boots>>

\* Ctrl-C, a crash, a power cut: what is not in the file is gone.
ProcessEnds ==
    /\ phase # "off"
    /\ phase' = "off"
    /\ live' = Passthrough
    /\ UNCHANGED <<file, session, env, reply, touched, commands, edits, boots>>

\* The operator's editor.
EditFile ==
    /\ edits < MaxEdits
    /\ file' \in Files \ {file}
    /\ touched' = TRUE
    /\ edits' = edits + 1
    /\ UNCHANGED <<phase, session, live, env, reply, commands, boots>>

-----------------------------------------------------------------------------
(* Commands. *)

Command ==
    /\ commands < MaxCommands
    /\ commands' = commands + 1
    /\ UNCHANGED <<phase, env, edits, boots>>
Serving == phase = "serving" /\ Command

Answer(r) == reply' = r
Refuse == Answer("err") /\ UNCHANGED <<file, session, live, touched>>

\* apply_offline_command: no pipeline, nothing to change.
Offline ==
    /\ phase \in {"waiting", "acquiring"}
    /\ Command
    /\ Refuse

\* apply_set_command: materialise the section, merge the parameter, reconfigure
\* the live effect; when that fails put the table and the effect back.
Set(k, e, f, v) ==
    /\ Serving
    /\ UNCHANGED <<file, cfg, name, touched>>
    /\ IF k = "mask" /\ k \notin DOMAIN active
       THEN Answer("err") /\ UNCHANGED <<active, live>>
       ELSE LET base == Materialised(active, k)
                entry == Merged(base[k], e, f, v)
                edited == PutEntry(base, k, e, entry)
                original == ParamsOf(base[k], e)
            IN  \/ /\ CanReconfigure(live, k, e, entry.params)
                   /\ active' = edited
                   /\ live' = Reconfigured(live, k, e, entry.params)
                   /\ Answer("ok")
                \/ /\ ~CanReconfigure(live, k, e, entry.params)
                   /\ active' = RevertAbsent(RestoreEntry(edited, k, e, base[k].table),
                                             k, k \notin DOMAIN active)
                   /\ live' = IF CanReconfigure(live, k, e, original)
                              THEN Reconfigured(live, k, e, original) ELSE live
                   /\ Answer("err")

\* apply_set_chain_command: build the new slots from the tables there are,
\* prepare them, swap them in and prune the tables of the effects that left.
SetChain(k, names) ==
    /\ Serving
    /\ UNCHANGED <<file, cfg, name, touched>>
    /\ IF ~IsComposite(live)
       THEN Answer("err") /\ UNCHANGED <<active, live>>
       ELSE LET base == Materialised(active, k)
                wanted == [base[k] EXCEPT !.chain = names]
                works == /\ Configures(k, wanted)
                         /\ \A e \in Range(names) : Loads(ParamsOf(wanted, e))
            IN  \/ /\ works
                   /\ active' = Rechained(base, k, names)
                   /\ live' = [live EXCEPT ![k] = Slots(wanted)]
                   /\ Answer("ok")
                \/ /\ ~works
                   /\ active' = RevertAbsent(base, k, k \notin DOMAIN active)
                   /\ UNCHANGED live
                   /\ Answer("err")

\* apply_set_enabled_command: the live slots first, then the preset.
SetEnabled(k, e, on) ==
    /\ Serving
    /\ UNCHANGED <<file, cfg, name, touched>>
    /\ IF /\ k \in DOMAIN active
          /\ e \in Range(active[k].chain)
          /\ IsComposite(live)
          /\ e \in Names(live[k])
       THEN /\ live' = Switched(live, k, e, on)
            /\ active' = Toggled(active, k, e, on)
            /\ Answer("ok")
       ELSE Answer("err") /\ UNCHANGED <<active, live>>

\* set_preset: build and prepare before anything is replaced.
SetPreset(n) ==
    /\ Serving
    /\ IF n \in DOMAIN cfg.presets /\ Builds(cfg.presets[n]) /\ Prepares(cfg.presets[n])
       THEN /\ name' = n
            /\ active' = cfg.presets[n]
            /\ live' = Chain(cfg.presets[n])
            /\ Answer("ok")
            /\ UNCHANGED <<file, cfg, touched>>
       ELSE Refuse

\* apply_reload_command: the file's own configuration replaces session.cfg.
Reload ==
    /\ Serving
    /\ IF /\ file.kind = "valid"
          /\ name \in DOMAIN file.presets
          /\ Builds(file.presets[name]) /\ Prepares(file.presets[name])
       THEN /\ live' = Chain(file.presets[name])
            /\ active' = file.presets[name]
            /\ cfg' = [globals |-> file.globals, presets |-> file.presets]
            /\ touched' = FALSE
            /\ Answer("ok")
            /\ UNCHANGED <<file, name>>
       ELSE Refuse

\* The tables of the preset are taken out of the text before it is parsed.
Repairs(n) == file.kind = "absent" \/ file.blamed = {n}

\* Fault: the other presets are not carried over.
WrittenAlone(n, p) ==
    [kind |-> IF Repairs(n) THEN "valid" ELSE file.kind,
     globals |-> IF file.kind = "absent" THEN DefaultGlobals ELSE file.globals,
     presets |-> With(None, n, Normalised(p)),
     blamed |-> {}]

\* persist::save_preset, when the file can be read, re-parsed and replaced.
Written(n, p) ==
    [kind |-> IF Repairs(n) THEN "valid" ELSE file.kind,
     globals |-> IF file.kind = "absent" THEN DefaultGlobals ELSE file.globals,
     presets |-> With(file.presets, n, Normalised(p)),
     blamed |-> file.blamed \ {n}]

\* Fault: session.cfg keeps the old preset.
SaveFileOnly(n) ==
    /\ file' = Written(n, active)
    /\ Answer("ok")
    /\ UNCHANGED <<cfg, name, active, live, touched>>

\* The file is written first, then mirrored in session.cfg.
Save(n) ==
    /\ file' = Written(n, active)
    /\ cfg' = [cfg EXCEPT !.presets = With(@, n, active)]
    /\ Answer("ok")
    /\ UNCHANGED <<name, active, live, touched>>

CanWrite(n) == n \in Savable /\ (file.kind = "broken" => Repairs(n))

SavePreset ==
    /\ Serving
    /\ \/ CanWrite(name) /\ Save(name)
       \/ Refuse                        \* refused, or an I/O error

\* A name in use is refused, by the daemon's own list and by the file's, which
\* has to parse as it stands.
SavePresetAs(n) ==
    /\ Serving
    /\ \/ /\ n \in Savable
          /\ file.kind # "broken"
          /\ n \notin DOMAIN cfg.presets
          /\ n \notin DOMAIN file.presets
          /\ Save(n)
       \/ Refuse

-----------------------------------------------------------------------------

Next ==
    \/ Boot \/ RunBegins \/ CameraOpens \/ CameraLost \/ RunFails \/ ProcessEnds
    \/ EditFile
    \/ Offline
    \/ \E k \in EditKinds, e \in Effect :
         \/ \E f \in Param, v \in Value : Set(k, e, f, v)
         \/ \E on \in BOOLEAN : SetEnabled(k, e, on)
    \/ \E k \in EditKinds, names \in Chains : SetChain(k, names)
    \/ \E n \in Name : SetPreset(n) \/ SavePresetAs(n)
    \/ SavePreset
    \/ Reload

Spec == Init /\ [][Next]_vars

-----------------------------------------------------------------------------

TypeOK ==
    /\ IsFile(file)
    /\ phase \in Phases
    /\ cfg = [globals |-> cfg.globals, presets |-> cfg.presets]
    /\ cfg.globals \in Globals /\ IsPresets(cfg.presets)
    /\ name \in Name
    /\ IsPreset(active)
    /\ IsChain(live)
    /\ started \in Globals /\ using \in Globals
    /\ reply \in {"none", "ok", "err"}
    /\ touched \in BOOLEAN
    /\ commands \in 0..MaxCommands /\ edits \in 0..MaxEdits /\ boots \in 0..MaxBoots

\* Edits the daemon has accepted never make it unable to start its next run:
\* whatever sequence of commands produced it, the active preset of a process
\* that has begun a run builds.  A preset that does not build would end the
\* process the next time the camera comes back, with the edits in it
\* (run_once surfaces the error as permanent).
ActiveBuilds == Running => Builds(active)

\* The picture is the preset: the slots of the live chain are those of the
\* active preset, each with its flag, and the first slot of every effect with
\* the parameters of its table.
LiveFollowsPreset == Running => Follows(live, active)

\* A restart of the pipeline shows the same picture: what a client sees through
\* the socket is what a rebuilt chain would render, for presets that name no
\* effect twice in one chain.
RebuildShowsTheSame == Running /\ NoRepeats(active) => live = Chain(active)

\* The same without the proviso on repeated effects (control-socket.md: all
\* changes apply immediately).  Does not hold: a `set` on an effect that is
\* twice in its chain reaches only the first until the chain is rebuilt.
ChangesApplyNow == Running => live = Chain(active)

\* The daemon's list of presets and the file agree unless the operator changed
\* the file: a save reaches both, so a reload after a save brings back what was
\* saved, less the tables of effects that are in no chain.
MirrorAgrees ==
    phase # "off" /\ ~touched =>
        /\ DOMAIN file.presets = DOMAIN cfg.presets
        /\ \A n \in DOMAIN cfg.presets :
             file.presets[n] \in {cfg.presets[n], Normalised(cfg.presets[n])}

\* A command that is answered with an error has changed nothing: not the
\* preset, not the picture, not the configuration, not the file.
RefusedChangesNothing ==
    [][commands' # commands /\ reply' = "err"
        => UNCHANGED <<active, name, live, cfg, file>>]_vars

\* What was saved is not lost by a reload: with nothing unsaved and the file not
\* touched by anybody else, an accepted reload leaves the active preset alone.
ReloadKeepsSaved ==
    [][Reload /\ reply' = "ok" /\ ~touched
         /\ name \in DOMAIN cfg.presets /\ cfg.presets[name] = active
        => /\ active' \in {active, Normalised(active)}
           /\ DOMAIN cfg'.presets = DOMAIN cfg.presets]_vars

\* Every run works with the global tables the process was started with, command
\* line included (configuration.md: only applied at startup; running.md: command
\* line overrides remain in effect across a reload).  Does not hold: under
\* device = "auto" the run after a reload takes the file's tables, without the
\* command line.
GlobalsFixedAtStart == Running => using = started

\* A `set` that is accepted does not stop the daemon: the active preset of a
\* process that has begun a run prepares.  Does not hold for an image that opens
\* and does not decode: the next frame fails the run and under device = "auto"
\* every later run fails too, with no command that could repair it.
ActivePrepares == phase = "serving" => Prepares(active)
=============================================================================
