------------------------------ MODULE XrFrame ------------------------------
(***************************************************************************)
(* The OpenXR frame loop: the session state machine of OpenXRManager, the  *)
(* part of Presenter::Present that begins and ends frames, the head pose   *)
(* the draw calls take and leave as a snapshot for xrEndFrame              *)
(* (GeometryShaderManager::SetConstants), and the eye images of the D3D11  *)
(* and the Vulkan backend.  The video thread runs the loop; the runtime    *)
(* moves the session on its own and tells of it through a queue of events. *)
(*                                                                         *)
(* Present ends frame N and at once begins frame N+1, so that the game     *)
(* draws inside a begun frame.  Between the two it may come to know that   *)
(* the session has stopped.                                                *)
(*                                                                         *)
(* Of a pose only its equality with the snapshot counts.  Two names are    *)
(* enough: a picture whose pose leaves the snapshot is stale from then on, *)
(* and LocateViews takes the name the snapshot does not use.  A call of    *)
(* the runtime fails once the session is lost.  Overlay layers, the        *)
(* layered swapchain (Android) and opcode replay (off) are left out.       *)
(***************************************************************************)
EXTENDS Naturals, Sequences

CONSTANTS
  Setups,    \* the builds, settings and surroundings considered
  NumImages  \* images in the swapchain of an eye

\* vulkan: the Vulkan backend, else D3D11.  lockHeadPose: vr_lock_head_pose.
\* mirrorFails: the desktop window may have no image to draw to.  hidesFirst:
\* the runtime stops a session only after it returned a frame that is not to
\* be rendered.  mayLose: it may lose the session.
ASSUME XrFrameAssumption ==
  /\ Setups \subseteq [vulkan : BOOLEAN, lockHeadPose : BOOLEAN, mirrorFails : BOOLEAN,
                       hidesFirst : BOOLEAN, mayLose : BOOLEAN]
  /\ NumImages \in Nat \ {0}

Eyes == {"left", "right"}

VARIABLES
  setup,          \* one of the setups
  session,        \* the runtime's state of the session
  loss,           \* whether it loses the session
  events,         \* what xrPollEvent has yet to return
  xrFrame,        \* the last frame call the runtime accepted
  synced,         \* a frame was ended since xrBeginSession
  running,        \* m_session_running
  exit,           \* m_exit_render_loop
  shouldRender,   \* m_frame_state.shouldRender
  inputActive,    \* OpenXRInputState: runtime_active
  views,          \* m_eye_views
  viewsValid,     \* m_eye_views_valid
  submitted,      \* m_submitted_eye_views
  submittedValid, \* m_submitted_eye_views_valid
  needsRefresh,   \* m_vr_pose_needs_refresh
  cached,         \* m_cached_eye_projection
  efb,            \* the picture in the EFB
  xfb,            \* the picture in m_xfb_entry
  eye,            \* the swapchain of each eye
  begun,          \* m_vr_frame_begun
  started,        \* vr_frame_started
  part,           \* which of Present's two blocks begins a frame
  pc

runtimeVars == <<session, loss, events, synced>>
inputVars == <<exit, inputActive>>
poseVars == <<submitted, submittedValid, needsRefresh, cached>>
viewVars == <<views, viewsValid>>
pictureVars == <<efb, xfb>>
presentVars == <<begun, started, part, pc>>
vars == <<setup, runtimeVars, xrFrame, running, inputVars, shouldRender, viewVars,
          poseVars, pictureVars, eye, presentVars>>

\* The window turns ImmediateXFB off when the head pose is locked.
ImmediateXFB == ~setup.lockHeadPose

\* What a picture shows: a scene drawn for one head pose, which is or is no
\* longer that of the snapshot, scenes drawn for several, a scene drawn while
\* no session ran, nothing, or the picture a loaded state brings along.
NoPose == "none"
Poses == {"a", "b"}
Drawn(p) == <<"drawn", p>>
Stale == <<"stale">>
Mixed == <<"mixed">>
Flat == <<"flat">>
Blank == <<"blank">>
Other == <<"other">>
Pictures == {Drawn(p) : p \in Poses \cup {NoPose}} \cup {Stale, Mixed, Flat, Blank, Other}

Over(old, new) == IF old \in {Blank, Other, new} THEN new ELSE Mixed

\* A picture when the snapshot goes over to pose p.
Aged(picture, p) == IF picture = Drawn(submitted) /\ p # submitted THEN Stale ELSE picture
AgedEye(s, p) == [s EXCEPT !.shown = Aged(s.shown, p),
                           !.held = [i \in 1..Len(s.held) |-> Aged(s.held[i], p)]]

\* held: the images acquired and not released, oldest first, as the pictures
\* in them; waited: the oldest was waited for; acquired: m_image_acquired;
\* shown: the picture released last, the one the compositor takes.
Swapchain == [held : Seq(Pictures), waited : BOOLEAN, acquired : BOOLEAN,
              shown : Pictures]

TypeOK ==
  /\ setup \in Setups
  /\ session \in {"idle", "ready", "synchronized", "visible", "stopping", "exiting"}
  /\ loss \in {"none", "pending", "lost"}
  /\ events \in Seq({"READY", "STOPPING", "EXITING", "LOSS_PENDING", "INSTANCE_LOSS_PENDING"})
  /\ xrFrame \in {"none", "waited", "begun"}
  /\ {synced, running, exit, shouldRender, inputActive, viewsValid,
      submittedValid, needsRefresh, begun, started} \subseteq BOOLEAN
  /\ {views, submitted, cached} \subseteq Poses \cup {NoPose}
  /\ {efb, xfb} \subseteq Pictures
  /\ eye \in [Eyes -> Swapchain]
  /\ \A e \in Eyes : /\ Len(eye[e].held) <= NumImages
                     /\ eye[e].acquired => eye[e].waited /\ eye[e].held # <<>>
  /\ part \in {"start", "next"}
  /\ pc \in {"game", "poll", "begin", "locate", "render", "submit"}

\* The backend has created the session and the swapchains.
Init ==
  /\ setup \in Setups
  /\ session = "idle" /\ loss = "none" /\ events = <<>> /\ synced = FALSE
  /\ xrFrame = "none" /\ running = FALSE /\ exit = FALSE
  /\ shouldRender = FALSE /\ inputActive = FALSE
  /\ views = NoPose /\ viewsValid = FALSE /\ submitted = NoPose /\ submittedValid = FALSE
  /\ needsRefresh = TRUE /\ cached = NoPose
  /\ efb = Blank /\ xfb = Blank
  /\ eye = [e \in Eyes |-> [held |-> <<>>, waited |-> FALSE, acquired |-> FALSE,
                            shown |-> Blank]]
  /\ begun = FALSE /\ started = FALSE /\ part = "start" /\ pc = "game"

-----------------------------------------------------------------------------
(* The runtime.  The states the code does not tell apart (VISIBLE and      *)
(* FOCUSED) are one, and an event it ignores is not queued.                *)

RuntimeMoves(from, to, told) ==
  /\ loss # "lost" /\ session = from /\ session' = to
  /\ events' = events \o told
  /\ UNCHANGED <<setup, loss, synced, xrFrame, running, inputVars, shouldRender, viewVars,
                 poseVars, pictureVars, eye, presentVars>>

RuntimeReady == RuntimeMoves("idle", "ready", <<"READY">>)
RuntimeExits == RuntimeMoves("idle", "exiting", <<"EXITING">>)
RuntimeSyncs == running /\ synced /\ RuntimeMoves("ready", "synchronized", <<>>)
RuntimeShows == RuntimeMoves("synchronized", "visible", <<>>)
RuntimeHides == RuntimeMoves("visible", "synchronized", <<>>)
RuntimeStops ==
  /\ setup.hidesFirst => ~shouldRender
  /\ RuntimeMoves("synchronized", "stopping", <<"STOPPING">>)

RuntimeLoses ==
  /\ setup.mayLose
  /\ \/ /\ loss = "none" /\ loss' = "pending"
        /\ \E told \in {"LOSS_PENDING", "INSTANCE_LOSS_PENDING"} :
             events' = Append(events, told)
     \/ loss = "pending" /\ loss' = "lost" /\ UNCHANGED events
  /\ UNCHANGED <<setup, session, synced, xrFrame, running, inputVars, shouldRender, viewVars,
                 poseVars, pictureVars, eye, presentVars>>

Runtime == \/ RuntimeReady \/ RuntimeExits \/ RuntimeSyncs \/ RuntimeShows
           \/ RuntimeHides \/ RuntimeStops \/ RuntimeLoses

-----------------------------------------------------------------------------
(* The game draws and copies the EFB; the emulator presents.               *)

\* Mutant: the snapshot is taken and the cached projection is kept.
DrawKeepsCache ==
  /\ pc = "game" /\ running
  /\ submitted' = views /\ submittedValid' = viewsValid
  /\ needsRefresh' = FALSE /\ cached' = cached
  /\ efb' = Over(Aged(efb, views), Aged(Drawn(cached), views))
  /\ xfb' = Aged(xfb, views) /\ eye' = [e \in Eyes |-> AgedEye(eye[e], views)]
  /\ UNCHANGED <<setup, runtimeVars, xrFrame, running, inputVars, shouldRender, viewVars,
                 presentVars>>

\* SetConstants fetches the pose for a draw and leaves the snapshot.
DrawFetches ==
  /\ pc = "game" /\ running /\ (~setup.lockHeadPose \/ needsRefresh)
  /\ cached' = views /\ submitted' = views /\ submittedValid' = viewsValid
  /\ needsRefresh' = FALSE
  /\ efb' = Over(Aged(efb, views), Drawn(views))
  /\ xfb' = Aged(xfb, views) /\ eye' = [e \in Eyes |-> AgedEye(eye[e], views)]
  /\ UNCHANGED <<setup, runtimeVars, xrFrame, running, inputVars, shouldRender, viewVars,
                 presentVars>>

\* SetConstants draws with the pose it has.
DrawCached ==
  /\ pc = "game" /\ running /\ setup.lockHeadPose /\ ~needsRefresh
  /\ efb' = Over(efb, Drawn(cached))
  /\ UNCHANGED <<setup, runtimeVars, xrFrame, running, inputVars, shouldRender, viewVars, poseVars,
                 xfb, eye, presentVars>>

\* SetConstants without a running session.
DrawFlat ==
  /\ pc = "game" /\ ~running
  /\ efb' = Over(efb, Flat)
  /\ UNCHANGED <<setup, runtimeVars, xrFrame, running, inputVars, shouldRender, viewVars, poseVars,
                 xfb, eye, presentVars>>

PresentBegins ==
  /\ started' = begun /\ part' = "start" /\ UNCHANGED begun
  /\ pc' = IF begun THEN "render" ELSE "poll"

\* The game copies the EFB to the XFB and may clear it.  With ImmediateXFB
\* the copy is presented, unless this field has had its one (CapImmediateXFB).
CopyToXfb ==
  /\ pc = "game"
  /\ xfb' = efb /\ efb' \in {efb, Blank}
  /\ IF ImmediateXFB THEN PresentBegins \/ UNCHANGED presentVars
                     ELSE UNCHANGED presentVars
  /\ UNCHANGED <<setup, runtimeVars, xrFrame, running, inputVars, shouldRender, viewVars,
                 poseVars, eye>>

\* Without ImmediateXFB the last copy is presented at the end of a field,
\* wherever the game is with the next picture.
ViSwap ==
  /\ pc = "game" /\ ~ImmediateXFB
  /\ PresentBegins
  /\ UNCHANGED <<setup, runtimeVars, xrFrame, running, inputVars, shouldRender, viewVars, poseVars,
                 pictureVars, eye>>

\* A loaded state presents the picture it was saved with.
LoadState ==
  /\ pc = "game"
  /\ xfb' = Other /\ efb' = Other
  /\ PresentBegins
  /\ UNCHANGED <<setup, runtimeVars, xrFrame, running, inputVars, shouldRender, viewVars, poseVars, eye>>

-----------------------------------------------------------------------------
(* Present begins a frame: at its start when none is begun, and at its end *)
(* for the next picture, where the EFB is cleared as well.                 *)

FrameDecided(ok) ==
  \/ /\ part = "start" /\ started' = ok /\ pc' = "render"
     /\ UNCHANGED <<begun, part, pictureVars>>
  \/ /\ part = "next" /\ begun' = ok /\ pc' = "game"
     /\ efb' = Blank /\ UNCHANGED <<started, part, xfb>>

PollReady ==
  /\ running' = (loss # "lost" \/ running)
  /\ synced' = (loss = "lost" /\ synced)
  /\ UNCHANGED <<session, xrFrame, inputVars, presentVars, pictureVars>>

\* Mutant: the controller state stays published.
PollStoppingKeepsInput ==
  /\ running' = FALSE /\ UNCHANGED <<inputVars, synced>>
  /\ session' = IF loss = "lost" THEN session ELSE "idle"
  /\ xrFrame' = "none"
  /\ UNCHANGED <<presentVars, pictureVars>>

\* Mutant: a stopped session ends the loop.
PollStoppingExits ==
  /\ running' = FALSE /\ inputActive' = FALSE /\ exit' = TRUE /\ UNCHANGED synced
  /\ session' = IF loss = "lost" THEN session ELSE "idle"
  /\ xrFrame' = "none"
  /\ UNCHANGED <<presentVars, pictureVars>>

PollStopping ==
  /\ running' = FALSE /\ inputActive' = FALSE /\ UNCHANGED <<exit, synced>>
  /\ session' = IF loss = "lost" THEN session ELSE "idle"
  /\ xrFrame' = "none"
  /\ UNCHANGED <<presentVars, pictureVars>>

PollExit ==
  /\ exit' = TRUE /\ inputActive' = FALSE
  /\ UNCHANGED <<running, synced, session, xrFrame, presentVars, pictureVars>>

PollInstanceLoss ==
  /\ exit' = TRUE /\ inputActive' = FALSE
  /\ FrameDecided(FALSE)
  /\ UNCHANGED <<running, synced, session, xrFrame>>

PollEvent ==
  /\ pc = "poll" /\ events # <<>>
  /\ events' = Tail(events)
  /\ \/ Head(events) = "READY" /\ PollReady
     \/ Head(events) = "STOPPING" /\ PollStopping
     \/ Head(events) \in {"EXITING", "LOSS_PENDING"} /\ PollExit
     \/ Head(events) = "INSTANCE_LOSS_PENDING" /\ PollInstanceLoss
  /\ UNCHANGED <<setup, loss, shouldRender, viewVars, poseVars, eye>>

NoFrame ==
  /\ pc = "poll" /\ events = <<>> /\ (exit \/ ~running)
  /\ FrameDecided(FALSE)
  /\ UNCHANGED <<setup, runtimeVars, xrFrame, running, inputVars, shouldRender, viewVars, poseVars, eye>>

\* A frame that is waited for brings new controller state.
WaitFrame ==
  /\ pc = "poll" /\ events = <<>> /\ ~exit /\ running
  /\ shouldRender' = (loss # "lost" /\ session = "visible")
  /\ IF loss = "lost"
       THEN FrameDecided(FALSE) /\ UNCHANGED <<xrFrame, inputActive>>
       ELSE /\ xrFrame' = "waited" /\ inputActive' = TRUE /\ pc' = "begin"
            /\ UNCHANGED <<begun, started, part, pictureVars>>
  /\ UNCHANGED <<setup, runtimeVars, running, exit, viewVars, poseVars, eye>>

BeginFrame ==
  /\ pc = "begin"
  /\ IF loss = "lost"
       THEN FrameDecided(FALSE) /\ UNCHANGED xrFrame
       ELSE /\ xrFrame' = "begun" /\ pc' = "locate"
            /\ UNCHANGED <<begun, started, part, pictureVars>>
  /\ UNCHANGED <<setup, runtimeVars, running, inputVars, shouldRender, viewVars, poseVars, eye>>

\* Views that cannot be located leave the old ones in place.
LocateViews ==
  /\ pc = "locate" /\ shouldRender
  /\ \/ /\ loss # "lost"
        /\ views' \in Poses \ {submitted}
        /\ viewsValid' = TRUE
     \/ viewsValid' = FALSE /\ UNCHANGED views
  /\ FrameDecided(TRUE)
  /\ UNCHANGED <<setup, runtimeVars, xrFrame, running, inputVars, shouldRender, poseVars, eye>>

FrameNotRendered ==
  /\ pc = "locate" /\ ~shouldRender
  /\ FrameDecided(TRUE)
  /\ UNCHANGED <<setup, runtimeVars, xrFrame, running, inputVars, shouldRender, viewVars, poseVars, eye>>

-----------------------------------------------------------------------------
(* The eye images.  The runtime hands them out and takes them back in      *)
(* order: xrWaitSwapchainImage waits for the oldest image that is held,    *)
(* once, and xrReleaseSwapchainImage releases the oldest.                  *)

Released(s) == [s EXCEPT !.shown = Head(s.held), !.held = Tail(s.held),
                         !.waited = FALSE, !.acquired = FALSE]

\* Mutant: the D3D11 backend leaves the release to the next step as well.
EyeLeft(s) == s

\* ReleaseEyeTexture: Vulkan only ends the render pass.
EyeReleased(s) == IF setup.vulkan THEN s ELSE Released(s)

\* AcquireEyeFramebuffer, the blit and ReleaseEyeTexture.  An image whose
\* wait is refused is to be released again; what is released is the oldest.
EyeBlitted(s, picture) ==
  IF loss = "lost" \/ Len(s.held) = NumImages
    THEN s
    ELSE LET held == Append(s.held, picture)
         IN IF s.waited
              THEN Released([s EXCEPT !.held = Append(s.held, s.shown)])
              ELSE EyeReleased([s EXCEPT !.held = held, !.waited = TRUE, !.acquired = TRUE])

\* RenderXFBToScreen, when the desktop window has an image to draw to.
RenderXFB ==
  /\ pc = "render" /\ pc' = "submit"
  /\ \/ eye' = IF shouldRender THEN [e \in Eyes |-> EyeBlitted(eye[e], xfb)] ELSE eye
     \/ setup.mirrorFails /\ UNCHANGED eye
  /\ UNCHANGED <<setup, runtimeVars, xrFrame, running, inputVars, shouldRender, viewVars, poseVars,
                 pictureVars, begun, started, part>>

\* SubmitFrame of the Vulkan backend first releases what m_image_acquired
\* names.
SubmitReleases(s) == IF setup.vulkan /\ s.acquired /\ loss # "lost" THEN Released(s) ELSE s

\* The call of xrEndFrame shows a layer.
LayerGoesOut == pc = "submit" /\ started /\ shouldRender /\ submittedValid /\ loss # "lost"

\* Mutant: a frame that has no layer to show is not ended.
SubmitOnlyLayers ==
  /\ pc = "submit" /\ pc' = "poll" /\ part' = "next" /\ begun' = FALSE
  /\ IF LayerGoesOut
       THEN xrFrame' = "none" /\ synced' = TRUE
       ELSE UNCHANGED <<xrFrame, synced>>
  /\ eye' = IF started THEN [e \in Eyes |-> SubmitReleases(eye[e])] ELSE eye
  /\ UNCHANGED <<setup, session, loss, events, running, inputVars, shouldRender, viewVars, poseVars,
                 pictureVars, started>>

\* SubmitFrame ends the frame, with the layer or without.
SubmitFrame ==
  /\ pc = "submit" /\ pc' = "poll" /\ part' = "next" /\ begun' = FALSE
  /\ IF started /\ loss # "lost"
       THEN xrFrame' = "none" /\ synced' = TRUE
       ELSE UNCHANGED <<xrFrame, synced>>
  /\ eye' = IF started THEN [e \in Eyes |-> SubmitReleases(eye[e])] ELSE eye
  /\ UNCHANGED <<setup, session, loss, events, running, inputVars, shouldRender, viewVars, poseVars,
                 pictureVars, started>>

VideoThread == \/ PollEvent \/ NoFrame \/ WaitFrame \/ BeginFrame \/ LocateViews
               \/ FrameNotRendered \/ RenderXFB \/ SubmitFrame

Next == \/ Runtime \/ VideoThread
        \/ DrawFetches \/ DrawCached \/ DrawFlat \/ CopyToXfb \/ ViSwap \/ LoadState

Spec == Init /\ [][Next]_vars

\* The video thread goes on with what it is doing, the game goes on copying and
\* fields go on ending,
\* and neither tracking nor the game misses every frame: again and again
\* views are located, and such a frame is drawn.  The runtime takes a session
\* that submits frames as far as showing it.
Fairness ==
  /\ WF_vars(VideoThread)
  /\ WF_vars(CopyToXfb /\ pc' # "game") /\ WF_vars(ViSwap)
  /\ SF_vars(LocateViews /\ viewsValid')
  /\ SF_vars(DrawFetches /\ viewsValid)
  /\ WF_vars(RuntimeReady) /\ WF_vars(RuntimeSyncs) /\ WF_vars(RuntimeShows)

FairSpec == Spec /\ Fairness

-----------------------------------------------------------------------------
(* Properties.                                                             *)

\* Between the block of Present that begins a frame and xrEndFrame the frame
\* stays begun and the session running, whatever the runtime does in the
\* meantime; and a Present leaves no frame begun that it has forgotten.
FramesArePaired ==
  /\ begun \/ (pc \in {"render", "submit"} /\ started) => running /\ xrFrame = "begun"
  /\ (pc = "game" /\ ~begun /\ loss # "lost") => xrFrame = "none"

\* What the runtime sees of the frame loop is the call order it expects, and a
\* frame that was begun is ended in time, unless the session is lost: the loop
\* implements XrCalls.
Calls == INSTANCE XrCalls WITH frame <- xrFrame, lost <- (loss = "lost")
ImplementsCallOrder == Calls!Spec

\* The images of an eye are given back before Present returns to the game:
\* an image still held would shift every later picture by one.
NoImageLeftHeld == pc = "game" => \A e \in Eyes : eye[e].held = <<>>

\* A layer that goes out shows in both eyes the picture drawn with exactly
\* the pose it is submitted with, or none, or that of a loaded state: the
\* compositor reprojects from the true pose.  This is as far as the design can
\* give it: a field presented without ImmediateXFB shows a picture of an
\* earlier pose, and a desktop window without an image leaves the last picture
\* in the eyes.
ImmediatePictureHasItsPose ==
  [][LayerGoesOut /\ pc' # pc /\ ImmediateXFB /\ ~setup.mirrorFails =>
       \A e \in Eyes : eye'[e].shown \in {Drawn(submitted), Blank, Other}]_vars

\* Controller and head poses are offered to the game only by a session that
\* runs: once Present has learnt that it stopped or is lost they are gone.
InputEndsWithSession == pc = "game" /\ inputActive => running /\ ~exit

\* A session the runtime neither hides nor stops any more is shown something
\* again and again: no order of stops, starts and missed poses before that
\* leaves the frame loop stuck.
SettledSessionIsShown ==
  /\ <>[][~RuntimeHides /\ ~RuntimeStops]_vars
  /\ <>[](session # "exiting" /\ loss = "none" /\ ImmediateXFB)
  => []<>LayerGoesOut
=============================================================================
