------------------------------ MODULE Frontend ------------------------------
(***************************************************************************)
(* The libretro entry points over one session: loading and unloading       *)
(* (ContentLoad) and, while a session is loaded, frames, resets and        *)
(* restored states (FrameOutput), in any order the frontend may call them. *)
(***************************************************************************)
EXTENDS ContentLoad, FrameOutput

VARIABLE running   \* retro_run has read its inputs and runs the frame

vars == <<loadVars, outputVars, running>>

Init == LoadInit /\ OutputInit /\ running = FALSE

\* nds_session_loaded, and the engine with the queue of sound.
NDSLoaded == session.loaded /\ session.platform[0] = "nds"
GBLoaded == session.loaded /\ session.engine = "sameboy"

Ready == session.loaded /\ ~InCall /\ ~running

StartLoad == ~running /\ BeginLoad /\ DropOutput /\ UNCHANGED running
ContinueLoad == LoadStep /\ UNCHANGED <<outputVars, running>>
EndLoad ==
  /\ Return /\ UNCHANGED running
  /\ IF session.loaded THEN OpenOutput(NDSLoaded) ELSE UNCHANGED outputVars
EndSession == ~running /\ Unload /\ DropOutput /\ UNCHANGED running

\* retro_run.
StartRun ==
  Ready /\ PollInputs(NDSLoaded) /\ running' = TRUE /\ UNCHANGED loadVars
EndRun ==
  /\ running /\ running' = FALSE /\ UNCHANGED loadVars
  /\ FrameDone(NDSLoaded, GBLoaded) \/ FrameFails(NDSLoaded, GBLoaded)

Reset == Ready /\ ResetOutput /\ UNCHANGED <<loadVars, running>>
Restore == Ready /\ RestoreOutput /\ UNCHANGED <<loadVars, running>>

Run == StartRun \/ EndRun
Next ==
  \/ StartLoad \/ ContinueLoad \/ EndLoad \/ EndSession
  \/ Run \/ Reset \/ Restore

\* A frontend keeps calling retro_run and its calls return: fairness of Run,
\* stated on the variable that its two steps toggle.
FramesGoOn == []<>running /\ []<>~running

Spec == Init /\ [][Next]_vars
-----------------------------------------------------------------------------
\* What the player sees is what the player touches: a picture has the size
\* that the frontend was told; a finger touches the very pixel it covers; a
\* cursor is drawn on the pixel that its stick touches.  Layouts, swapped
\* screens, failed frames and restored states come in any order; only while
\* failed frames hold back a new layout may a finger miss the old picture.
ScreenAgrees ==
  LET pixels == video.picture.pixels
      pixel(c) == <<c, touch[c][1], ScreenHeight + touch[c][2]>>
  IN video # NoVideo /\ ~running =>
       /\ video.picture.size = announced
       /\ \A c \in Consoles :
            /\ finger[c] # NoPoint /\ display = option =>
                 pixels[finger[c]] = pixel(c)
            /\ video.cursors[c] # NoPoint /\ touch[c] # NoPoint =>
                 pixels[video.cursors[c]] = pixel(c)

\* A cursor that is left alone disappears, as long as frames go on, whether the
\* frontend has a clock that moves or none.
CursorHides ==
  FramesGoOn =>
    \A c \in Consoles : \A s \in Sticks[c] :
      (\/ <>[](stick[c] = s /\ clock = NoClock)
       \/ <>[](stick[c] = s /\ clock # NoClock /\ clock > 0))
        => []<>(~cursor[c].visible)
=============================================================================
