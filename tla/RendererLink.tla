---------------------------- MODULE RendererLink ----------------------------
(***************************************************************************)
(* The link and renderer options of a running session: update_options,     *)
(* load, unload and discard of src/src/libretro/libretro_core.c, and the   *)
(* renderer transaction SetVideoRenderer of                                *)
(* src/src/engines/melonds/nds_adapter.cpp, which moves both consoles      *)
(* between software and OpenGL renderers on the thread that owns the       *)
(* OpenGL contexts, and may fail at each of them.                          *)
(*                                                                         *)
(* One thread makes all these calls; a step is one call of the engine or   *)
(* one task of its context thread.                                         *)
(***************************************************************************)
EXTENDS FiniteSetsExt, Naturals

CONSTANTS
  Machines,   \* the consoles of a pair, in the order they are handled
  MaxFaults   \* bound on failures

ASSUME MachinesAssumption ==
  Machines # {} /\ IsFiniteSet(Machines) /\ Machines \subseteq Nat
ASSUME FaultsAssumption == MaxFaults \in Nat

Renderers == {"software", "opengl"}
Engines == {"nds", "other"}
NoState == {}

VARIABLES
  fe_link, fe_renderer, \* the options as the frontend stores and shows them
  updated,        \* the frontend reports a change of options
  honoured,       \* the frontend supports SET_VARIABLE
  opt_link,       \* core.options.link_enabled
  opt_renderer,   \* core.options.nds_renderer
  frontend_link,  \* core.frontend_link_value
  pending, pending_value, \* core.link_request_pending, pending_link_value
  loaded_renderer, \* core.loaded_nds_renderer
  session,        \* the engine of the loaded session, or "none"
  session_link,   \* core.session.link_enabled
  link_enabled,   \* pair->link_enabled
  video_renderer, \* pair->video_renderer
  poisoned,       \* pair->frame_state is Poisoned
  requested,      \* mp_requested of both consoles
  renderer,       \* per console, its renderer; "gone" when it was destroyed
  context,        \* pair->gl_context exists
  inhibited,      \* core.fastforward_inhibited
  state_link,     \* history: the link of a restored state while it is its
                  \* own, {} otherwise
  pc, why,        \* place in a call, and what a renderer change is for
  target, todo, ok, \* renderer change: goal, consoles left, result
  new_link, old_link, \* requested_link, restore_link_on_failure
  faults

fe == <<fe_link, fe_renderer, updated, honoured>>
options == <<opt_link, opt_renderer, frontend_link, pending, pending_value,
             loaded_renderer>>
pair == <<link_enabled, video_renderer, poisoned, requested, renderer,
          context>>
change == <<why, target, todo, ok, new_link, old_link>>
linkVars == <<fe, options, session, session_link, pair, inhibited, state_link,
          pc, change, faults>>

AllSoftware == [m \in Machines |-> "software"]

LinkInit ==
  /\ fe_link \in BOOLEAN /\ fe_renderer \in Renderers
  /\ updated = FALSE /\ honoured \in BOOLEAN
  /\ opt_link = fe_link /\ opt_renderer = fe_renderer
  /\ frontend_link = fe_link /\ pending = FALSE /\ pending_value = FALSE
  /\ loaded_renderer = "software"
  /\ session = "none" /\ session_link = FALSE
  /\ link_enabled = FALSE /\ video_renderer = "software" /\ poisoned = FALSE
  /\ requested = FALSE /\ renderer = AllSoftware /\ context = FALSE
  /\ inhibited = FALSE /\ state_link = NoState
  /\ pc = "idle" /\ why = "none" /\ target = "software" /\ todo = {}
  /\ ok = FALSE /\ new_link = FALSE /\ old_link = FALSE /\ faults = 0

Fault == faults < MaxFaults /\ faults' = faults + 1

\* force_core_option: a frontend may ignore it.
Shows(variable, value) == IF honoured THEN value ELSE variable

\* LinkTransportActive, which only the DS engine has.
Active == session = "nds" /\ link_enabled /\ requested

\* synchronize_fastforward_policy, the last thing a call does.
Synchronized == inhibited' = Active'

\* The user changes options; the next frame will be told.
UserChanges ==
  /\ pc = "idle"
  /\ \E l \in BOOLEAN, r \in Renderers : fe_link' = l /\ fe_renderer' = r
  /\ updated' = TRUE
  /\ UNCHANGED <<honoured, options, session, session_link, pair, inhibited,
                 state_link, pc, change, faults>>

----------------------------------------------------------------------------
(* Loading and unloading                                                   *)

\* Link and OpenGL are both asked for by a DS game: OpenGL wins.
LoadedLink(engine) ==
  fe_link /\ ~(engine = "nds" /\ fe_renderer = "opengl")

\* retro_load_game, up to the renderer of a DS pair.  The pair may not load.
Load ==
  /\ pc = "idle" /\ session = "none"
  /\ \E engine \in Engines :
       /\ opt_link' = LoadedLink(engine)
       /\ fe_link' = IF opt_link' = fe_link THEN fe_link
                     ELSE Shows(fe_link, FALSE)
       /\ \/ /\ session' = engine /\ session_link' = opt_link'
             /\ link_enabled' = opt_link' /\ UNCHANGED faults
             /\ IF engine = "nds" /\ fe_renderer = "opengl"
                THEN pc' = "activate" /\ why' = "load"
                ELSE UNCHANGED <<pc, why>>
          \/ /\ Fault
             /\ UNCHANGED <<session, session_link, link_enabled, pc, why>>
  /\ opt_renderer' = fe_renderer /\ frontend_link' = opt_link'
  /\ pending' = FALSE /\ loaded_renderer' = "software"
  /\ UNCHANGED <<fe_renderer, updated, honoured, pending_value,
                 video_renderer, poisoned, requested, renderer, context,
                 inhibited, state_link, target, todo, ok, new_link, old_link>>

\* dualboy_session_unload.  The destructor of a DS pair puts consoles that
\* still have OpenGL renderers back, or destroys them, on the context thread.
Destroyed ==
  /\ session' = "none" /\ session_link' = FALSE
  /\ link_enabled' = FALSE /\ video_renderer' = "software"
  /\ poisoned' = FALSE /\ requested' = FALSE /\ renderer' = AllSoftware
  /\ context' = FALSE /\ state_link' = NoState
  /\ pc' = "idle" /\ why' = "none" /\ target' = "software" /\ todo' = {}
  /\ ok' = FALSE /\ new_link' = FALSE /\ old_link' = FALSE

\* unload_current, which first tries to put back the software renderers.
Unload ==
  /\ pc = "idle" /\ session # "none"
  /\ inhibited' = FALSE
  /\ \/ /\ video_renderer = "opengl"
        /\ pc' = "deactivate" /\ why' = "unload"
        /\ UNCHANGED <<session, session_link, pair, state_link, target, todo,
                       ok, new_link, old_link, loaded_renderer>>
     \/ /\ video_renderer # "opengl"
        /\ Destroyed /\ loaded_renderer' = "software"
  /\ UNCHANGED <<fe, opt_link, opt_renderer, frontend_link, pending,
                 pending_value, faults>>

Unloaded ==
  /\ pc = "deactivated" /\ why = "unload"
  /\ Destroyed /\ loaded_renderer' = "software"
  /\ UNCHANGED <<fe, opt_link, opt_renderer, frontend_link, pending,
                 pending_value, inhibited, faults>>

----------------------------------------------------------------------------
(* SetVideoRenderer                                                        *)

Outside == UNCHANGED <<fe, options, session, session_link, link_enabled,
                       requested, inhibited, state_link, why, new_link,
                       old_link>>

Returns(goal, result) ==
  /\ ok' = result /\ todo' = {}
  /\ pc' = IF goal = "opengl" THEN "activated" ELSE "deactivated"

\* A retired pair, or one that is linked, is left alone; the contexts may
\* not be available.
Activate ==
  /\ pc = "activate" /\ target' = "opengl"
  /\ \/ /\ poisoned \/ link_enabled
        /\ Returns("opengl", FALSE) /\ UNCHANGED <<context, faults>>
     \/ /\ ~poisoned /\ ~link_enabled
        /\ Fault /\ Returns("opengl", FALSE) /\ UNCHANGED context
     \/ /\ ~poisoned /\ ~link_enabled
        /\ context' = TRUE /\ todo' = Machines /\ pc' = "install"
        /\ UNCHANGED <<ok, faults>>
  /\ Outside /\ UNCHANGED <<video_renderer, poisoned, renderer>>

Deactivate ==
  /\ pc = "deactivate" /\ target' = "software"
  /\ \/ poisoned /\ Returns("software", FALSE)
     \/ ~poisoned /\ todo' = Machines /\ pc' = "remove" /\ ok' = ok
  /\ Outside /\ UNCHANGED <<video_renderer, poisoned, renderer, context,
                            faults>>

\* A console that was handled is off the list.
Handled(m) ==
  IF todo = {m} THEN Returns(target, TRUE)
  ELSE todo' = todo \ {m} /\ UNCHANGED <<pc, ok>>

\* A bug: only the console that failed is put back.
Undo_Last(m) == {m}

\* What a failed activation puts back: everything up to the failure.
Undo(m) == {k \in Machines : k <= m}

Failed(m) == renderer' \in {renderer, [renderer EXCEPT ![m] = target]}

\* One console gets its OpenGL renderer.
Install ==
  /\ pc = "install"
  /\ \E m \in {Min(todo)} :
       \/ /\ renderer' = [renderer EXCEPT ![m] = "opengl"]
          /\ Handled(m)
          /\ video_renderer' = IF todo = {m} THEN "opengl" ELSE video_renderer
          /\ UNCHANGED faults
       \/ /\ Fault /\ Failed(m)
          /\ todo' = Undo(m) /\ pc' = "recover"
          /\ UNCHANGED <<video_renderer, ok>>
  /\ Outside /\ UNCHANGED <<poisoned, context, target>>

\* One console gets its software renderer back.
Remove ==
  /\ pc = "remove"
  /\ \E m \in {Min(todo)} :
       \/ /\ renderer' = [renderer EXCEPT ![m] = "software"]
          /\ Handled(m)
          /\ video_renderer' =
               IF todo = {m} THEN "software" ELSE video_renderer
          /\ context' = (todo # {m})
          /\ UNCHANGED faults
       \/ /\ Fault /\ Failed(m)
          /\ pc' = "recover"
          /\ UNCHANGED <<video_renderer, todo, ok, context>>
  /\ Outside /\ UNCHANGED <<poisoned, target>>

\* No console had to be destroyed.
Whole == \A m \in Machines : renderer'[m] # "gone"

\* RestoreSoftwareOrTerminalize: a console that cannot be put back is
\* destroyed on the context thread, or abandoned.  In the end the contexts
\* go, and PoisonRendererPair retires a pair that is not whole.
Recover ==
  /\ pc = "recover"
  /\ \E m \in {Min(todo)} :
       /\ \/ /\ renderer' = [renderer EXCEPT ![m] = "software"]
             /\ UNCHANGED faults
          \/ renderer' = [renderer EXCEPT ![m] = "gone"] /\ Fault
       /\ \/ /\ todo # {m} /\ todo' = todo \ {m}
             /\ UNCHANGED <<pc, ok, context, poisoned, video_renderer>>
          \/ /\ todo = {m}
             /\ Returns(target, target = "software" /\ Whole)
             /\ context' = FALSE /\ poisoned' = ~Whole
             /\ video_renderer' = IF Whole THEN "software" ELSE "opengl"
  /\ Outside /\ UNCHANGED target

----------------------------------------------------------------------------
(* update_options                                                          *)

\* Link and OpenGL are both asked for: the link wins if it alone changed.
LinkWins == fe_link # frontend_link /\ fe_renderer = opt_renderer

\* update_options for a DS pair resolves a conflict and sets out.
UpdateNds ==
  /\ pc = "idle" /\ session = "nds" /\ updated
  /\ updated' = FALSE /\ pending' = FALSE
  /\ LET conflict == fe_link /\ fe_renderer = "opengl"
         link == fe_link /\ (conflict => LinkWins)
         goal == IF conflict /\ LinkWins THEN "software" ELSE fe_renderer
     IN /\ new_link' = link /\ frontend_link' = link
        /\ fe_link' = IF link = fe_link THEN fe_link ELSE Shows(fe_link, link)
        /\ fe_renderer' = IF goal = fe_renderer THEN fe_renderer
                          ELSE Shows(fe_renderer, goal)
        /\ pc' = IF goal = "opengl" THEN "unlink"
                 ELSE IF loaded_renderer = "opengl" THEN "deactivate"
                 ELSE "relink"
  /\ why' = "option" /\ old_link' = opt_link
  /\ UNCHANGED <<honoured, opt_link, opt_renderer, pending_value,
                 loaded_renderer, session, session_link, pair, inhibited,
                 state_link, target, todo, ok, faults>>

\* MelonDSPair::SetLink, which refuses the link under OpenGL.
SetPairLink(enabled) ==
  /\ enabled => video_renderer = "software"
  /\ link_enabled' = enabled /\ session_link' = enabled

\* A bug: the frontend keeps showing what it asked for.
ReflectLink_Silently(enabled) ==
  opt_link' = enabled /\ frontend_link' = enabled /\ fe_link' = fe_link

\* reflect_link_option.
ReflectLink(enabled) ==
  /\ opt_link' = enabled /\ frontend_link' = enabled
  /\ fe_link' = IF frontend_link = enabled THEN fe_link
                ELSE Shows(fe_link, enabled)

\* A bug: the link stays while OpenGL starts.
Unlink_Keeps ==
  /\ pc = "unlink"
  /\ UNCHANGED <<link_enabled, session_link>>
  /\ opt_link' = FALSE /\ opt_renderer' = "opengl"
  /\ pc' = IF loaded_renderer = "opengl" THEN "frame" ELSE "activate"
  /\ UNCHANGED <<fe, frontend_link, pending, pending_value, loaded_renderer,
                 session, video_renderer, poisoned, requested, renderer,
                 context, inhibited, state_link, change, faults>>

\* OpenGL is asked for: the link goes first.
Unlink ==
  /\ pc = "unlink"
  /\ IF opt_link THEN SetPairLink(FALSE)
     ELSE UNCHANGED <<link_enabled, session_link>>
  /\ opt_link' = FALSE /\ opt_renderer' = "opengl"
  /\ pc' = IF loaded_renderer = "opengl" THEN "frame" ELSE "activate"
  /\ UNCHANGED <<fe, frontend_link, pending, pending_value, loaded_renderer,
                 session, video_renderer, poisoned, requested, renderer,
                 context, inhibited, state_link, change, faults>>

\* activate_loaded_gl_renderer returns: OpenGL is on, or the pair stays on
\* software and gets its link back.
Activated ==
  /\ pc = "activated" /\ (ok \/ video_renderer = "software")
  /\ loaded_renderer' = IF ok THEN "opengl" ELSE "software"
  /\ opt_renderer' = loaded_renderer'
  /\ fe_renderer' = IF ok THEN fe_renderer
                    ELSE Shows(fe_renderer, "software")
  /\ \/ /\ why = "load" /\ pc' = "idle"
        /\ UNCHANGED <<opt_link, frontend_link, fe_link, link_enabled,
                       session_link>>
     \/ /\ why = "option" /\ pc' = "frame"
        /\ IF ~ok /\ old_link THEN SetPairLink(TRUE) /\ ReflectLink(TRUE)
           ELSE ReflectLink(FALSE) /\ UNCHANGED <<link_enabled, session_link>>
  /\ UNCHANGED <<updated, honoured, pending, pending_value, session,
                 video_renderer, poisoned, requested, renderer, context,
                 inhibited, state_link, change, faults>>

\* deactivate_loaded_gl_renderer returns: the consoles are on software.
Deactivated ==
  /\ pc = "deactivated" /\ why = "option" /\ video_renderer = "software"
  /\ loaded_renderer' = "software" /\ pc' = "relink"
  /\ UNCHANGED <<fe, opt_link, opt_renderer, frontend_link, pending,
                 pending_value, session, session_link, pair, inhibited,
                 state_link, change, faults>>

\* The link follows last.
Relink ==
  /\ pc = "relink" /\ pc' = "frame"
  /\ opt_renderer' = "software"
  /\ IF new_link # opt_link THEN SetPairLink(new_link)
     ELSE UNCHANGED <<link_enabled, session_link>>
  /\ opt_link' = new_link /\ frontend_link' = new_link
  /\ UNCHANGED <<fe, pending, pending_value, loaded_renderer, session,
                 video_renderer, poisoned, requested, renderer, context,
                 inhibited, state_link, change, faults>>

\* A renderer change left the pair unusable: discard_current, after which the
\* frontend is asked to shut down.
Retire ==
  /\ \/ pc = "activated" /\ ~ok /\ video_renderer # "software"
     \/ pc = "deactivated" /\ why = "option" /\ video_renderer # "software"
  /\ inhibited' = FALSE
  /\ Destroyed /\ loaded_renderer' = "opengl"
  /\ IF pc = "deactivated"
     THEN /\ ReflectLink(FALSE) /\ opt_renderer' = "opengl"
          /\ fe_renderer' = Shows(fe_renderer, "opengl")
     ELSE UNCHANGED <<opt_link, opt_renderer, frontend_link, fe_link,
                      fe_renderer>>
  /\ UNCHANGED <<updated, honoured, pending, pending_value, faults>>

\* update_options for another engine: a change of the link is a request.
UpdateOther ==
  /\ pc = "idle" /\ session = "other" /\ updated
  /\ updated' = FALSE
  /\ opt_renderer' = fe_renderer /\ frontend_link' = fe_link
  /\ \/ /\ fe_link # frontend_link
        /\ pending' = TRUE /\ pending_value' = fe_link
        /\ state_link' = NoState
     \/ /\ fe_link = frontend_link
        /\ UNCHANGED <<pending, pending_value, state_link>>
  /\ pc' = IF pending' THEN "retry" ELSE "frame"
  /\ UNCHANGED <<fe_link, fe_renderer, honoured, opt_link, loaded_renderer,
                 session, session_link, pair, inhibited, change, faults>>

\* The request is tried in every frame until the engine accepts it.
Retry ==
  /\ \/ pc = "retry"
     \/ pc = "idle" /\ session = "other" /\ ~updated /\ pending
  /\ pc' = "frame"
  /\ \/ /\ link_enabled' = pending_value /\ session_link' = pending_value
        /\ opt_link' = pending_value /\ pending' = FALSE /\ UNCHANGED faults
     \/ /\ Fault
        /\ UNCHANGED <<link_enabled, session_link, opt_link, pending>>
  /\ UNCHANGED <<fe, opt_renderer, frontend_link, pending_value,
                 loaded_renderer, session, video_renderer, poisoned,
                 requested, renderer, context, inhibited, state_link, change>>

----------------------------------------------------------------------------
(* Frames, resets and states                                               *)

\* The rest of retro_run.  Games turn their wireless on and off; a frame that
\* is too late, or fails under OpenGL, retires the pair and ends its link.
Frame ==
  /\ pc = "frame" \/ (pc = "idle" /\ session # "none" /\ ~updated /\ ~pending)
  /\ \/ /\ session = "nds" /\ ~poisoned
        /\ requested' \in BOOLEAN
        /\ UNCHANGED <<poisoned, link_enabled, faults>>
     \/ /\ session = "nds" /\ ~poisoned
        /\ Fault /\ poisoned' = TRUE /\ link_enabled' = FALSE
        /\ requested' \in BOOLEAN
     \/ /\ session # "nds" \/ poisoned
        /\ UNCHANGED <<poisoned, link_enabled, requested, faults>>
  /\ pc' = "idle"
  /\ UNCHANGED <<fe, options, session, session_link, video_renderer, renderer,
                 context, state_link, change>>
  /\ Synchronized

\* retro_reset: wireless is off afterwards; under OpenGL it may fail, and
\* retires the pair.
Reset ==
  /\ pc = "idle" /\ session # "none"
  /\ requested' = (requested /\ (session # "nds" \/ poisoned))
  /\ \/ UNCHANGED <<poisoned, faults>>
     \/ /\ session = "nds" /\ ~poisoned /\ video_renderer = "opengl"
        /\ Fault /\ poisoned' = TRUE
  /\ UNCHANGED <<fe, options, session, session_link, link_enabled,
                 video_renderer, renderer, context, state_link, pc, change>>
  /\ Synchronized

\* A bug: a request that failed earlier is still pending.
Restore_KeepsRequest ==
  /\ pc = "idle" /\ session = "other"
  /\ \E link \in BOOLEAN :
       /\ session_link' = link /\ link_enabled' = link /\ opt_link' = link
       /\ state_link' = {link}
  /\ UNCHANGED <<fe, opt_renderer, frontend_link, pending, pending_value,
                 loaded_renderer, session, video_renderer, poisoned,
                 requested, renderer, context, pc, change, faults>>
  /\ Synchronized

\* retro_unserialize; a state comes with its link.  DS pairs have no states.
Restore ==
  /\ pc = "idle" /\ session = "other"
  /\ \E link \in BOOLEAN :
       /\ session_link' = link /\ link_enabled' = link /\ opt_link' = link
       /\ state_link' = {link}
  /\ pending' = FALSE
  /\ UNCHANGED <<fe, opt_renderer, frontend_link, pending_value,
                 loaded_renderer, session, video_renderer, poisoned,
                 requested, renderer, context, pc, change, faults>>
  /\ Synchronized

\* discard_current, after a restore that could not be undone.
Discard ==
  /\ pc = "idle" /\ session = "other" /\ Fault
  /\ Destroyed /\ inhibited' = FALSE /\ loaded_renderer' = "software"
  /\ UNCHANGED <<fe, opt_link, opt_renderer, frontend_link, pending,
                 pending_value>>

LinkNext ==
  \/ UserChanges \/ Load \/ Unload \/ Unloaded
  \/ Activate \/ Deactivate \/ Install \/ Remove \/ Recover
  \/ UpdateNds \/ Unlink \/ Activated \/ Deactivated \/ Relink \/ Retire
  \/ UpdateOther \/ Retry \/ Frame \/ Reset \/ Restore \/ Discard

LinkSpec == LinkInit /\ [][LinkNext]_linkVars

----------------------------------------------------------------------------
(* Properties                                                              *)

InChange == pc \in {"install", "remove", "recover"}

\* Values have their types; consoles are left to handle exactly while a
\* renderer change is under way.
LinkTypeOK ==
  /\ {fe_link, updated, honoured, opt_link, frontend_link, pending,
      pending_value, session_link, link_enabled, poisoned, requested, context,
      inhibited, ok, new_link, old_link} \subseteq BOOLEAN
  /\ {fe_renderer, opt_renderer, loaded_renderer, video_renderer, target}
       \subseteq Renderers
  /\ session \in Engines \cup {"none"}
  /\ state_link \in {NoState, {TRUE}, {FALSE}}
  /\ renderer \in [Machines -> Renderers \cup {"gone"}]
  /\ pc \in {"idle", "activate", "install", "remove", "recover", "activated",
             "deactivate", "deactivated", "unlink", "relink", "retry", "frame"}
  /\ why \in {"none", "load", "option", "unload"}
  /\ todo \subseteq Machines /\ (todo # {}) = InChange
  /\ faults \in 0 .. MaxFaults

\* At no moment, not even inside a change, is there an OpenGL renderer while
\* the wireless link is on; and the core never relies on the adapter to refuse.
Exclusive ==
  /\ link_enabled => \A m \in Machines : renderer[m] # "opengl"
  /\ pc = "activate" => ~link_enabled

\* An OpenGL renderer never outlives its contexts: its destructor would touch
\* the OpenGL state of someone else.
GLInContext == ~context => \A m \in Machines : renderer[m] # "opengl"

\* A renderer change is transactional: the pair is on one renderer with both
\* consoles alive, or the session is gone before the next frame; and on the
\* way no OpenGL renderer is left without its context.
RendererTransaction ==
  /\ LinkTypeOK /\ GLInContext
  /\ pc \in {"idle", "frame", "relink"} =>
       /\ renderer = [m \in Machines |-> video_renderer]
       /\ context = (video_renderer = "opengl")

\* Between calls the options, the session and the adapter agree, and so does
\* the frontend when it lets the core correct its options; fast-forward is
\* inhibited exactly while both consoles are on the air.
OptionsAgree ==
  /\ pc = "idle" => inhibited = Active
  /\ pc = "idle" /\ session = "nds" =>
       /\ opt_renderer = video_renderer /\ loaded_renderer = video_renderer
       /\ opt_link = session_link
       /\ poisoned \/ link_enabled = session_link
       /\ honoured /\ ~updated =>
            fe_link = opt_link /\ fe_renderer = opt_renderer

\* The link of another engine is the one the user asked for last, or will be
\* tried again, until a state is restored: from then on it is that of the
\* state, and an older request never comes back.
LinkOwner ==
  pc = "idle" /\ session = "other" =>
    IF state_link = NoState
    THEN \/ session_link = frontend_link
         \/ pending /\ pending_value = frontend_link
    ELSE state_link = {session_link} /\ ~pending
=============================================================================
