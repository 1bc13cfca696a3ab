--------------------------- MODULE XrFrameProofs ---------------------------
(* Proofs about the OpenXR frame loop, for any builds, settings and        *)
(* surroundings and any number of swapchain images.                        *)
EXTENDS XrFrame, SequenceTheorems, TLAPS

(* What each step of Present knows of the frame: a frame is begun only     *)
(* where none is, and what Present holds to be begun the runtime holds to  *)
(* be begun as well, unless the session is lost.                           *)
FrameInv ==
  /\ pc \in {"poll", "begin", "locate"} => ~begun
  /\ pc \in {"begin", "locate"} => running
  /\ pc = "locate" => xrFrame = "begun"
  /\ begun \/ (pc \in {"render", "submit"} /\ started) => running /\ xrFrame = "begun"
  /\ (pc = "poll" /\ loss # "lost") => xrFrame = "none"
  /\ (pc = "game" /\ ~begun /\ loss # "lost") => xrFrame = "none"
  /\ (pc \in {"render", "submit"} /\ ~started /\ loss # "lost") => xrFrame = "none"

\* Controller state is offered only by a session that runs, at every step.
InputInv == inputActive => running /\ ~exit

FrameVars == <<pc, begun, running, xrFrame, started>>

LEMMA FramesKnown == Spec => []FrameInv
<1>1. Init => FrameInv
  BY DEF Init, FrameInv
<1>2. FrameInv /\ [Next]_vars => FrameInv'
  <2> SUFFICES ASSUME FrameInv, [Next]_vars PROVE FrameInv'
    OBVIOUS
  <2>1. CASE Runtime
    <3>1. UNCHANGED FrameVars /\ (loss' # "lost" => loss # "lost")
      BY <2>1 DEF Runtime, RuntimeReady, RuntimeExits, RuntimeSyncs, RuntimeShows, RuntimeHides,
                  RuntimeStops, RuntimeLoses, RuntimeMoves, presentVars, FrameVars
    <3>2. QED
      BY <3>1 DEF FrameInv, FrameVars
  <2>2. CASE PollEvent
    <3>1. pc = "poll" /\ loss' = loss
      BY <2>2 DEF PollEvent
    <3>2. CASE PollReady
      BY <3>1, <3>2 DEF FrameInv, PollReady, presentVars
    <3>3. CASE PollStopping
      BY <3>1, <3>3 DEF FrameInv, PollStopping, presentVars
    <3>4. CASE PollExit
      BY <3>1, <3>4 DEF FrameInv, PollExit, presentVars
    <3>5. CASE PollInstanceLoss
      BY <3>1, <3>5 DEF FrameInv, PollInstanceLoss, FrameDecided
    <3>6. QED
      BY <2>2, <3>2, <3>3, <3>4, <3>5 DEF PollEvent
  <2>3. CASE NoFrame
    BY <2>3 DEF FrameInv, NoFrame, FrameDecided, runtimeVars
  <2>4. CASE WaitFrame
    BY <2>4 DEF FrameInv, WaitFrame, FrameDecided, runtimeVars
  <2>5. CASE BeginFrame
    BY <2>5 DEF FrameInv, BeginFrame, FrameDecided, runtimeVars
  <2>6. CASE LocateViews
    BY <2>6 DEF FrameInv, LocateViews, FrameDecided, runtimeVars
  <2>7. CASE FrameNotRendered
    BY <2>7 DEF FrameInv, FrameNotRendered, FrameDecided, runtimeVars
  <2>8. CASE RenderXFB
    BY <2>8 DEF FrameInv, RenderXFB, runtimeVars
  <2>9. CASE SubmitFrame
    BY <2>9 DEF FrameInv, SubmitFrame
  <2>10. CASE DrawFetches \/ DrawCached \/ DrawFlat
    <3>1. UNCHANGED FrameVars /\ loss' = loss
      BY <2>10 DEF DrawFetches, DrawCached, DrawFlat, runtimeVars, presentVars, FrameVars
    <3>2. QED
      BY <3>1 DEF FrameInv, FrameVars
  <2>11. CASE CopyToXfb \/ ViSwap \/ LoadState
    <3>1. /\ pc = "game" /\ UNCHANGED <<running, xrFrame, loss>>
          /\ PresentBegins \/ UNCHANGED presentVars
      BY <2>11 DEF CopyToXfb, ViSwap, LoadState, runtimeVars
    <3>2. QED
      BY <3>1 DEF FrameInv, PresentBegins, presentVars
  <2>12. CASE UNCHANGED vars
    BY <2>12 DEF FrameInv, vars, runtimeVars, presentVars
  <2>13. QED
    BY <2>1, <2>2, <2>3, <2>4, <2>5, <2>6, <2>7, <2>8, <2>9, <2>10, <2>11, <2>12
       DEF Next, VideoThread
<1>3. QED
  BY <1>1, <1>2, PTL DEF Spec

\* However the runtime moves, stops or loses the session, a frame Present
\* takes for begun is begun in a running session, and none is left begun.
THEOREM FramesPaired == Spec => []FramesArePaired
<1>1. FrameInv => FramesArePaired
  BY DEF FrameInv, FramesArePaired
<1>2. QED
  BY <1>1, FramesKnown, PTL

\* What else the runtime knows of a frame: a frame to be begun was waited
\* for, and only a session has a frame.
CallInv ==
  /\ (pc = "begin" /\ loss # "lost") => xrFrame = "waited"
  /\ xrFrame # "none" => running

CallVars == <<running, xrFrame, loss>>

LEMMA CallsKnown == Spec => []CallInv
<1>1. Init => CallInv
  BY DEF Init, CallInv
<1>2. FrameInv /\ CallInv /\ [Next]_vars => CallInv'
  <2> SUFFICES ASSUME FrameInv, CallInv, [Next]_vars PROVE CallInv'
    OBVIOUS
  <2>1. CASE Runtime
    BY <2>1 DEF Runtime, RuntimeReady, RuntimeExits, RuntimeSyncs, RuntimeShows, RuntimeHides,
                RuntimeStops, RuntimeLoses, RuntimeMoves, presentVars, CallInv
  <2>2. CASE PollEvent
    <3>1. pc = "poll" /\ loss' = loss
      BY <2>2 DEF PollEvent
    <3>2. pc' # "begin"
      BY <2>2, <3>1 DEF PollEvent, PollReady, PollStopping, PollExit, PollInstanceLoss,
                        FrameDecided, presentVars
    <3>3. xrFrame' # "none" => running'
      <4>1. CASE PollReady
        BY <4>1, Zenon DEF CallInv, PollReady
      <4>2. CASE PollStopping \/ PollExit \/ PollInstanceLoss
        BY <4>2 DEF CallInv, PollStopping, PollExit, PollInstanceLoss
      <4>3. QED
        BY <2>2, <4>1, <4>2 DEF PollEvent
    <3>4. QED
      BY <3>2, <3>3 DEF CallInv
  <2>3. CASE WaitFrame
    BY <2>3 DEF CallInv, WaitFrame, FrameDecided, runtimeVars
  <2>4. CASE BeginFrame
    BY <2>4 DEF CallInv, FrameInv, BeginFrame, FrameDecided, runtimeVars
  <2>5. CASE SubmitFrame
    BY <2>5 DEF CallInv, SubmitFrame
  <2>6. CASE NoFrame \/ LocateViews \/ FrameNotRendered \/ RenderXFB
    BY <2>6 DEF CallInv, NoFrame, LocateViews, FrameNotRendered, RenderXFB, FrameDecided
  <2>7. CASE \/ DrawFetches \/ DrawCached \/ DrawFlat \/ CopyToXfb \/ ViSwap \/ LoadState
             \/ UNCHANGED vars
    BY <2>7 DEF CallInv, DrawFetches, DrawCached, DrawFlat, CopyToXfb, ViSwap, LoadState,
                PresentBegins, presentVars, vars, runtimeVars
  <2>8. QED
    BY <2>1, <2>2, <2>3, <2>4, <2>5, <2>6, <2>7 DEF Next, VideoThread
<1>3. QED
  BY <1>1, <1>2, FramesKnown, PTL DEF Spec

\* The game is offered no controller state by a session Present knows to have
\* stopped or to be lost.
THEOREM InputEnds == Spec => []InputEndsWithSession
<1>1. Init => InputInv
  BY DEF Init, InputInv
<1>2. InputInv /\ [Next]_vars => InputInv'
  <2> SUFFICES ASSUME InputInv, [Next]_vars PROVE InputInv'
    OBVIOUS
  <2>1. CASE PollEvent
    BY <2>1 DEF InputInv, PollEvent, PollReady, PollStopping, PollExit, PollInstanceLoss, inputVars
  <2>2. CASE WaitFrame
    BY <2>2 DEF InputInv, WaitFrame
  <2>3. CASE UNCHANGED <<running, inputVars>>
    BY <2>3 DEF InputInv, inputVars
  <2>4. QED
    BY <2>1, <2>2, <2>3
       DEF Next, VideoThread, Runtime, RuntimeReady, RuntimeExits, RuntimeSyncs, RuntimeShows,
           RuntimeHides, RuntimeStops, RuntimeLoses, RuntimeMoves, NoFrame, BeginFrame,
           LocateViews, FrameNotRendered, RenderXFB, SubmitFrame, DrawFetches, DrawCached,
           DrawFlat, CopyToXfb, ViSwap, LoadState, vars
<1>3. InputInv => InputEndsWithSession
  BY DEF InputInv, InputEndsWithSession
<1>4. QED
  BY <1>1, <1>2, <1>3, PTL DEF Spec

-----------------------------------------------------------------------------
(* Type correctness.                                                       *)

LEMMA PictureTypes ==
  /\ Blank \in Pictures /\ Stale \in Pictures /\ Mixed \in Pictures
  /\ Flat \in Pictures /\ Other \in Pictures
  /\ \A p \in Poses \cup {NoPose} : Drawn(p) \in Pictures
BY DEF Pictures

LEMMA OverType ==
  ASSUME NEW old \in Pictures, NEW new \in Pictures
  PROVE  Over(old, new) \in Pictures
BY PictureTypes DEF Over

LEMMA AgedType ==
  ASSUME NEW picture \in Pictures, NEW p
  PROVE  Aged(picture, p) \in Pictures
BY PictureTypes DEF Aged

\* The images of an eye as the type invariant has them.
Chains == {s \in Swapchain : /\ Len(s.held) <= NumImages
                             /\ s.acquired => s.waited /\ s.held # <<>>}

LEMMA AgedEyeType ==
  ASSUME NEW s \in Chains, NEW p
  PROVE  AgedEye(s, p) \in Chains
<1> DEFINE held == [i \in 1..Len(s.held) |-> Aged(s.held[i], p)]
<1>1. s.held \in Seq(Pictures) /\ s.shown \in Pictures
  BY DEF Chains, Swapchain
<1>2. Len(s.held) \in Nat
  BY <1>1, LenProperties
<1>3. \A i \in 1..Len(s.held) : Aged(s.held[i], p) \in Pictures
  BY <1>1, ElementOfSeq, AgedType
<1>4. held \in [1..Len(s.held) -> Pictures]
  BY <1>3
<1>5. held \in Seq(Pictures)
  BY <1>2, <1>4, SeqDef
<1>6. Len(held) = Len(s.held)
  BY <1>2, <1>4, <1>5, LenProperties
<1>7. s.held # <<>> => held # <<>>
  BY <1>1, <1>5, <1>6, EmptySeq
<1>8. AgedEye(s, p) = [s EXCEPT !.shown = Aged(s.shown, p), !.held = held]
  BY DEF AgedEye
<1>9. Aged(s.shown, p) \in Pictures
  BY <1>1, AgedType
<1> HIDE DEF held
<1>10. QED
  BY <1>5, <1>6, <1>7, <1>8, <1>9 DEF Chains, Swapchain

LEMMA ReleasedType ==
  ASSUME NEW s \in Swapchain, s.held # <<>>, Len(s.held) <= NumImages + 1
  PROVE  Released(s) \in Chains
<1>1. s.held \in Seq(Pictures) /\ NumImages \in Nat
  BY XrFrameAssumption DEF Swapchain
<1>2. /\ Head(s.held) \in Pictures /\ Tail(s.held) \in Seq(Pictures)
      /\ Len(Tail(s.held)) = Len(s.held) - 1 /\ Len(s.held) \in Nat
  BY <1>1, HeadTailProperties, LenProperties
<1>3. Released(s).held = Tail(s.held) /\ Released(s).acquired = FALSE
  BY DEF Released, Swapchain
<1>4. Released(s) \in Swapchain
  BY <1>2 DEF Released, Swapchain
<1>5. Len(Tail(s.held)) <= NumImages
  BY <1>1, <1>2
<1>6. QED
  BY <1>3, <1>4, <1>5 DEF Chains

LEMMA EyeBlittedType ==
  ASSUME NEW s \in Chains, NEW picture \in Pictures
  PROVE  EyeBlitted(s, picture) \in Chains
<1>1. /\ s \in Swapchain /\ s.held \in Seq(Pictures) /\ s.shown \in Pictures
      /\ Len(s.held) <= NumImages /\ NumImages \in Nat
  BY XrFrameAssumption DEF Chains, Swapchain
<1>2. Len(s.held) \in Nat
  BY <1>1, LenProperties
<1>3. ASSUME NEW q \in Pictures
      PROVE  /\ Append(s.held, q) \in Seq(Pictures)
             /\ Len(Append(s.held, q)) = Len(s.held) + 1
             /\ Append(s.held, q) # <<>>
  BY <1>1, <1>2, EmptySeq, AppendProperties
<1>4. CASE loss = "lost" \/ Len(s.held) = NumImages
  BY <1>4 DEF EyeBlitted
<1>5. CASE loss # "lost" /\ Len(s.held) # NumImages /\ s.waited
  <2> DEFINE t == [s EXCEPT !.held = Append(s.held, s.shown)]
  <2>1. /\ t \in Swapchain /\ t.held = Append(s.held, s.shown)
    BY <1>1, <1>3 DEF Swapchain
  <2>2. t.held # <<>> /\ Len(t.held) <= NumImages + 1
    BY <2>1, <1>1, <1>2, <1>3
  <2>3. Released(t) \in Chains
    BY <2>1, <2>2, ReleasedType
  <2>4. QED
    BY <1>5, <2>3 DEF EyeBlitted
<1>6. CASE loss # "lost" /\ Len(s.held) # NumImages /\ ~s.waited
  <2> DEFINE t == [s EXCEPT !.held = Append(s.held, picture), !.waited = TRUE,
                            !.acquired = TRUE]
  <2>1. /\ t \in Swapchain /\ t.held = Append(s.held, picture) /\ t.waited
    BY <1>1, <1>3 DEF Swapchain
  <2>2. t.held # <<>> /\ Len(t.held) <= NumImages
    BY <2>1, <1>1, <1>2, <1>3, <1>6
  <2>3. t \in Chains
    BY <2>1, <2>2 DEF Chains
  <2>4. Released(t) \in Chains
    <3>1. Len(t.held) \in Nat
      BY <1>2, <1>3, <2>1
    <3>2. Len(t.held) <= NumImages + 1
      BY <1>1, <2>2, <3>1
    <3> HIDE DEF t
    <3>3. QED
      BY <2>1, <2>2, <3>2, ReleasedType
  <2>5. EyeBlitted(s, picture) = EyeReleased(t)
    BY <1>6 DEF EyeBlitted
  <2>6. QED
    BY <2>3, <2>4, <2>5 DEF EyeReleased
<1>7. QED
  BY <1>4, <1>5, <1>6

LEMMA SubmitReleasesType ==
  ASSUME NEW s \in Chains
  PROVE  SubmitReleases(s) \in Chains
<1>1. s \in Swapchain /\ Len(s.held) <= NumImages /\ s.held \in Seq(Pictures) /\ NumImages \in Nat
  BY XrFrameAssumption DEF Chains, Swapchain
<1>2. Len(s.held) <= NumImages + 1
  BY <1>1, LenProperties
<1>3. s.acquired => Released(s) \in Chains
  BY <1>1, <1>2, ReleasedType DEF Chains
<1>4. QED
  BY <1>3 DEF SubmitReleases

\* The type invariant, its parts apart.
EventNames == {"READY", "STOPPING", "EXITING", "LOSS_PENDING", "INSTANCE_LOSS_PENDING"}
RuntimeTypes ==
  /\ setup \in Setups
  /\ session \in {"idle", "ready", "synchronized", "visible", "stopping", "exiting"}
  /\ loss \in {"none", "pending", "lost"}
  /\ events \in Seq(EventNames)
  /\ xrFrame \in {"none", "waited", "begun"}
  /\ synced \in BOOLEAN
SessionTypes ==
  /\ running \in BOOLEAN /\ exit \in BOOLEAN
  /\ shouldRender \in BOOLEAN /\ inputActive \in BOOLEAN
PoseTypes ==
  /\ viewsValid \in BOOLEAN /\ submittedValid \in BOOLEAN
  /\ needsRefresh \in BOOLEAN
  /\ views \in Poses \cup {NoPose} /\ submitted \in Poses \cup {NoPose}
  /\ cached \in Poses \cup {NoPose}
PictureTypesOK == efb \in Pictures /\ xfb \in Pictures
PresentTypes ==
  /\ begun \in BOOLEAN /\ started \in BOOLEAN
  /\ part \in {"start", "next"}
  /\ pc \in {"game", "poll", "begin", "locate", "render", "submit"}
Types ==
  /\ RuntimeTypes /\ SessionTypes /\ PoseTypes /\ PictureTypesOK /\ PresentTypes
  /\ eye \in [Eyes -> Chains]

LEMMA FrameDecidedTypes ==
  ASSUME PresentTypes, PictureTypesOK, NEW ok \in BOOLEAN, FrameDecided(ok)
  PROVE  PresentTypes' /\ PictureTypesOK'
BY PictureTypes DEF FrameDecided, PresentTypes, PictureTypesOK, pictureVars

LEMMA TypesHold == Spec => []Types
<1>1. Init => Types
  <2> SUFFICES ASSUME Init PROVE Types
    OBVIOUS
  <2> DEFINE s == [held |-> <<>>, waited |-> FALSE, acquired |-> FALSE, shown |-> Blank]
  <2>1. /\ s \in Swapchain /\ s.held = <<>> /\ ~s.acquired
    BY PictureTypes, EmptySeq DEF Swapchain
  <2>2. s \in Chains
    BY <2>1, EmptySeq, XrFrameAssumption DEF Chains
  <2>3. eye = [e \in Eyes |-> s]
    BY DEF Init
  <2> HIDE DEF s
  <2>4. eye \in [Eyes -> Chains]
    BY <2>2, <2>3
  <2>5. RuntimeTypes /\ SessionTypes /\ PoseTypes /\ PictureTypesOK /\ PresentTypes
    BY PictureTypes, EmptySeq
       DEF Init, RuntimeTypes, SessionTypes, PoseTypes, PictureTypesOK, PresentTypes
  <2>6. QED
    BY <2>4, <2>5 DEF Types
<1>2. Types /\ [Next]_vars => Types'
  <2> SUFFICES ASSUME Types, [Next]_vars PROVE Types'
    OBVIOUS
  <2> USE DEF Types
  <2>1. CASE Runtime
    <3>1. /\ setup' = setup /\ UNCHANGED <<synced, xrFrame, running, inputVars, shouldRender>>
          /\ UNCHANGED <<viewVars, poseVars, pictureVars, eye, presentVars>>
      BY <2>1 DEF Runtime, RuntimeReady, RuntimeExits, RuntimeSyncs, RuntimeShows, RuntimeHides,
                  RuntimeStops, RuntimeLoses, RuntimeMoves
    <3>2. events \in Seq(EventNames)
      BY DEF RuntimeTypes
    <3>3. /\ \A told \in EventNames : <<told>> \in Seq(EventNames)
          /\ <<>> \in Seq(EventNames)
      BY EmptySeq
    <3>4. \A told \in Seq(EventNames) : events \o told \in Seq(EventNames)
      BY <3>2, ConcatProperties
    <3>5. \A told \in EventNames : Append(events, told) \in Seq(EventNames)
      BY <3>2, AppendProperties
    <3>6. /\ session' \in {"idle", "ready", "synchronized", "visible", "stopping", "exiting"}
          /\ loss' \in {"none", "pending", "lost"}
          /\ events' \in Seq(EventNames)
      <4>1. CASE RuntimeLoses
        BY <4>1, <3>2, <3>5 DEF RuntimeLoses, RuntimeTypes, EventNames
      <4>2. CASE ~RuntimeLoses
        <5>1. /\ session' \in {"ready", "exiting", "synchronized", "visible", "stopping"}
              /\ loss' = loss
              /\ \E told \in {<<>>, <<"READY">>, <<"EXITING">>, <<"STOPPING">>} :
                   events' = events \o told
          BY <2>1, <4>2 DEF Runtime, RuntimeReady, RuntimeExits, RuntimeSyncs, RuntimeShows,
                            RuntimeHides, RuntimeStops, RuntimeMoves
        <5>2. {<<>>, <<"READY">>, <<"EXITING">>, <<"STOPPING">>} \subseteq Seq(EventNames)
          BY <3>3 DEF EventNames
        <5>3. QED
          BY <5>1, <5>2, <3>4 DEF RuntimeTypes
      <4>3. QED
        BY <4>1, <4>2
    <3>7. QED
      BY <3>1, <3>6 DEF RuntimeTypes, SessionTypes, PoseTypes, PictureTypesOK, PresentTypes,
                        inputVars, viewVars, poseVars, pictureVars, presentVars
  <2>2. CASE PollEvent
    <3>1. events' \in Seq(EventNames)
      BY <2>2, HeadTailProperties DEF PollEvent, RuntimeTypes
    <3>2. UNCHANGED <<setup, loss, shouldRender, viewVars, poseVars, eye>>
      BY <2>2 DEF PollEvent
    <3>3. /\ session' \in {session, "idle"} /\ xrFrame' \in {xrFrame, "none"}
          /\ synced' \in BOOLEAN /\ running' \in BOOLEAN
          /\ exit' \in BOOLEAN /\ inputActive' \in BOOLEAN
      BY <2>2 DEF PollEvent, PollReady, PollStopping, PollExit, PollInstanceLoss, RuntimeTypes,
                  SessionTypes, inputVars
    <3>4. FrameDecided(FALSE) \/ UNCHANGED <<presentVars, pictureVars>>
      BY <2>2 DEF PollEvent, PollReady, PollStopping, PollExit, PollInstanceLoss
    <3>5. PresentTypes' /\ PictureTypesOK'
      <4>1. CASE FrameDecided(FALSE)
        BY <4>1, FrameDecidedTypes
      <4>2. CASE UNCHANGED <<presentVars, pictureVars>>
        BY <4>2 DEF PresentTypes, PictureTypesOK, presentVars, pictureVars
      <4>3. QED
        BY <3>4, <4>1, <4>2
    <3>6. QED
      BY <3>1, <3>2, <3>3, <3>5 DEF RuntimeTypes, SessionTypes, PoseTypes, viewVars, poseVars
  <2>3. CASE NoFrame \/ FrameNotRendered
    <3>1. /\ UNCHANGED <<setup, runtimeVars, xrFrame, running, inputVars, shouldRender>>
          /\ UNCHANGED <<viewVars, poseVars, eye>>
          /\ \E ok \in BOOLEAN : FrameDecided(ok)
      BY <2>3 DEF NoFrame, FrameNotRendered
    <3>2. PresentTypes' /\ PictureTypesOK'
      BY <3>1, FrameDecidedTypes
    <3>3. QED
      BY <3>1, <3>2 DEF RuntimeTypes, SessionTypes, PoseTypes, runtimeVars, inputVars, viewVars,
                        poseVars
  <2>4. CASE WaitFrame \/ BeginFrame
    <3>1. /\ UNCHANGED <<setup, runtimeVars, running, exit>>
          /\ UNCHANGED <<viewVars, poseVars, eye>>
          /\ xrFrame' \in {xrFrame, "waited", "begun"}
          /\ shouldRender' \in BOOLEAN /\ inputActive' \in BOOLEAN
      BY <2>4 DEF WaitFrame, BeginFrame, SessionTypes, inputVars
    <3>2. \/ FrameDecided(FALSE)
          \/ pc' \in {"begin", "locate"} /\ UNCHANGED <<begun, started, part, pictureVars>>
      BY <2>4 DEF WaitFrame, BeginFrame
    <3>3. PresentTypes' /\ PictureTypesOK'
      <4>1. CASE FrameDecided(FALSE)
        BY <4>1, FrameDecidedTypes
      <4>2. CASE pc' \in {"begin", "locate"} /\ UNCHANGED <<begun, started, part, pictureVars>>
        BY <4>2 DEF PresentTypes, PictureTypesOK, pictureVars
      <4>3. QED
        BY <3>2, <4>1, <4>2
    <3>4. QED
      BY <3>1, <3>3 DEF RuntimeTypes, SessionTypes, PoseTypes, runtimeVars, viewVars, poseVars
  <2>5. CASE LocateViews
    <3>1. /\ UNCHANGED <<setup, runtimeVars, xrFrame, running, inputVars, shouldRender>>
          /\ UNCHANGED <<poseVars, eye>>
          /\ views' \in Poses \cup {NoPose} /\ viewsValid' \in BOOLEAN
          /\ FrameDecided(TRUE)
      BY <2>5 DEF LocateViews, PoseTypes
    <3>2. PresentTypes' /\ PictureTypesOK'
      BY <3>1, FrameDecidedTypes
    <3>3. QED
      BY <3>1, <3>2 DEF RuntimeTypes, SessionTypes, PoseTypes, runtimeVars, inputVars, poseVars
  <2>6. CASE RenderXFB
    <3>1. \A e \in Eyes : EyeBlitted(eye[e], xfb) \in Chains
      BY EyeBlittedType DEF PictureTypesOK
    <3>2. eye' \in [Eyes -> Chains]
      BY <2>6, <3>1 DEF RenderXFB
    <3>3. QED
      BY <2>6, <3>2 DEF RenderXFB, RuntimeTypes, SessionTypes, PoseTypes, PictureTypesOK,
                        PresentTypes, runtimeVars, inputVars, viewVars, poseVars, pictureVars
  <2>7. CASE SubmitFrame
    <3>1. \A e \in Eyes : SubmitReleases(eye[e]) \in Chains
      BY SubmitReleasesType
    <3>2. eye' \in [Eyes -> Chains]
      BY <2>7, <3>1 DEF SubmitFrame
    <3>3. RuntimeTypes' /\ PresentTypes'
      BY <2>7 DEF SubmitFrame, RuntimeTypes, PresentTypes
    <3>4. SessionTypes' /\ PoseTypes' /\ PictureTypesOK'
      BY <2>7 DEF SubmitFrame, SessionTypes, PoseTypes, PictureTypesOK, inputVars, viewVars,
                  poseVars, pictureVars
    <3>5. QED
      BY <3>2, <3>3, <3>4
  <2>8. CASE DrawFetches
    <3>1. Aged(efb, views) \in Pictures /\ Drawn(views) \in Pictures /\ Aged(xfb, views) \in Pictures
      BY AgedType, PictureTypes DEF PictureTypesOK, PoseTypes
    <3>2. \A e \in Eyes : AgedEye(eye[e], views) \in Chains
      BY AgedEyeType
    <3>3. eye' \in [Eyes -> Chains]
      BY <2>8, <3>2 DEF DrawFetches
    <3>4. Over(Aged(efb, views), Drawn(views)) \in Pictures
      BY <3>1, OverType
    <3>5. PictureTypesOK'
      BY <2>8, <3>1, <3>4 DEF DrawFetches, PictureTypesOK
    <3>6. PoseTypes'
      BY <2>8 DEF DrawFetches, PoseTypes, viewVars
    <3>7. RuntimeTypes' /\ SessionTypes' /\ PresentTypes'
      BY <2>8 DEF DrawFetches, RuntimeTypes, SessionTypes, PresentTypes, runtimeVars, inputVars,
                  presentVars
    <3>8. QED
      BY <3>3, <3>5, <3>6, <3>7
  <2>9. CASE DrawCached \/ DrawFlat
    <3>1. efb' \in Pictures
      BY <2>9, OverType, PictureTypes DEF DrawCached, DrawFlat, PictureTypesOK, PoseTypes
    <3>2. QED
      BY <2>9, <3>1 DEF DrawCached, DrawFlat, RuntimeTypes, SessionTypes, PoseTypes,
                        PictureTypesOK, PresentTypes, runtimeVars, inputVars, viewVars, poseVars,
                        presentVars
  <2>10. CASE CopyToXfb \/ ViSwap \/ LoadState
    <3>1. PresentTypes'
      BY <2>10 DEF CopyToXfb, ViSwap, LoadState, PresentBegins, PresentTypes, presentVars
    <3>2. PictureTypesOK'
      BY <2>10, PictureTypes DEF CopyToXfb, ViSwap, LoadState, PictureTypesOK, pictureVars
    <3>3. /\ UNCHANGED <<setup, runtimeVars, xrFrame, running, inputVars, shouldRender>>
          /\ UNCHANGED <<viewVars, submitted, submittedValid, needsRefresh, cached, eye>>
      BY <2>10 DEF CopyToXfb, ViSwap, LoadState, PoseTypes, poseVars
    <3>4. QED
      BY <3>1, <3>2, <3>3 DEF RuntimeTypes, SessionTypes, PoseTypes, runtimeVars, inputVars,
                              viewVars
  <2>11. CASE UNCHANGED vars
    BY <2>11 DEF vars, RuntimeTypes, SessionTypes, PoseTypes, PictureTypesOK, PresentTypes,
                 runtimeVars, inputVars, viewVars, poseVars, pictureVars, presentVars
  <2>12. QED
    BY <2>1, <2>2, <2>3, <2>4, <2>5, <2>6, <2>7, <2>8, <2>9, <2>10, <2>11 DEF Next, VideoThread
<1>3. QED
  BY <1>1, <1>2, PTL DEF Spec

\* Whatever the runtime, the game and Present do, no eye ever holds more
\* images than its swapchain has, and m_image_acquired names an image that is
\* held and was waited for.
THEOREM TypeCorrect == Spec => []TypeOK
<1>1. Types => TypeOK
  BY DEF Types, TypeOK, Chains, RuntimeTypes, SessionTypes, PoseTypes, PictureTypesOK,
         PresentTypes, EventNames
<1>2. QED
  BY <1>1, TypesHold, PTL

-----------------------------------------------------------------------------
(* What the runtime tells, and what it means for a frame.                  *)

(* What the runtime has yet to tell of the session, unless it is lost: a   *)
(* start or a stop is told once, and what it tells of still holds.         *)
Telling == {"READY", "STOPPING"}
QueueInv ==
  loss # "lost" =>
    /\ \A i \in 1..Len(events) :
         /\ events[i] = "READY" => session = "ready" /\ ~running
         /\ events[i] = "STOPPING" => session = "stopping"
    /\ \A i, j \in 1..Len(events) : events[i] = events[j] /\ events[i] \in Telling => i = j
    /\ session = "idle" => ~running
    /\ session \in {"synchronized", "visible"} => running /\ synced

LEMMA QueueKnown == Spec => []QueueInv
<1>1. Init => QueueInv
  <2>1. Len(<<>>) = 0
    BY EmptySeq
  <2>2. QED
    BY <2>1 DEF Init, QueueInv
<1>2. Types /\ QueueInv /\ [Next]_vars => QueueInv'
  <2> SUFFICES ASSUME Types, QueueInv, [Next]_vars, loss' # "lost" PROVE QueueInv'
    BY DEF QueueInv
  <2>0. /\ events \in Seq(EventNames) /\ Len(events) \in Nat
        /\ running \in BOOLEAN /\ synced \in BOOLEAN
    BY LenProperties DEF Types, RuntimeTypes, SessionTypes
  <2>1. ASSUME NEW e \in EventNames
        PROVE  LET more == Append(events, e)
               IN /\ events \o <<e>> = more /\ Len(more) = Len(events) + 1
                  /\ \A i \in 1..Len(more) :
                       more[i] = IF i = Len(events) + 1 THEN e ELSE events[i]
    BY <2>0, AppendProperties
  <2>2. loss # "lost" /\ QueueInv
    BY DEF Next, VideoThread, Runtime, RuntimeReady, RuntimeExits, RuntimeSyncs, RuntimeShows,
           RuntimeHides, RuntimeStops, RuntimeLoses, RuntimeMoves, PollEvent, NoFrame, WaitFrame,
           BeginFrame, LocateViews, FrameNotRendered, RenderXFB, SubmitFrame, DrawFetches,
           DrawCached, DrawFlat, CopyToXfb, ViSwap, LoadState, vars, runtimeVars
  <2>3. CASE RuntimeReady
    <3>1. /\ session = "idle" /\ session' = "ready" /\ UNCHANGED <<running, synced>>
          /\ events' = Append(events, "READY")
      BY <2>3, <2>1 DEF RuntimeReady, RuntimeMoves, EventNames
    <3>2. QED
      BY <2>0, <2>1, <2>2, <3>1 DEF QueueInv, EventNames, Telling
  <2>4. CASE RuntimeExits
    <3>1. /\ session = "idle" /\ session' = "exiting" /\ UNCHANGED <<running, synced>>
          /\ events' = Append(events, "EXITING")
      BY <2>4, <2>1 DEF RuntimeExits, RuntimeMoves, EventNames
    <3>2. QED
      BY <2>0, <2>1, <2>2, <3>1 DEF QueueInv, EventNames, Telling
  <2>5. CASE RuntimeStops
    <3>1. /\ session = "synchronized" /\ session' = "stopping" /\ UNCHANGED <<running, synced>>
          /\ events' = Append(events, "STOPPING")
      BY <2>5, <2>1 DEF RuntimeStops, RuntimeMoves, EventNames
    <3>2. QED
      BY <2>0, <2>1, <2>2, <3>1 DEF QueueInv, EventNames, Telling
  <2>6. CASE RuntimeSyncs \/ RuntimeShows \/ RuntimeHides
    <3>1. /\ UNCHANGED <<running, synced>> /\ events' = events \o <<>>
          /\ session' \in {"synchronized", "visible"}
          /\ \/ session = "ready" /\ running /\ synced
             \/ session \in {"synchronized", "visible"}
      BY <2>6 DEF RuntimeSyncs, RuntimeShows, RuntimeHides, RuntimeMoves
    <3>2. events' = events
      BY <2>0, <3>1, ConcatEmptySeq
    <3>3. QED
      BY <2>2, <3>1, <3>2 DEF QueueInv
  <2>7. CASE RuntimeLoses
    <3>1. /\ UNCHANGED <<session, running, synced>>
          /\ \E told \in {"LOSS_PENDING", "INSTANCE_LOSS_PENDING"} :
               events' = Append(events, told)
      BY <2>7 DEF RuntimeLoses
    <3>2. PICK told \in {"LOSS_PENDING", "INSTANCE_LOSS_PENDING"} : events' = Append(events, told)
      BY <3>1
    <3>3. told \in EventNames /\ told \notin Telling
      BY <3>2 DEF EventNames, Telling
    <3>4. QED
      BY <2>0, <2>1, <2>2, <3>1, <3>2, <3>3 DEF QueueInv, Telling
  <2>8. CASE PollEvent
    <3>1. events # <<>> /\ events' = Tail(events)
      BY <2>8 DEF PollEvent
    <3>2. /\ Len(events) \in Nat \ {0} /\ Len(events') = Len(events) - 1
          /\ Head(events) = events[1]
          /\ \A i \in 1..Len(events') : events'[i] = events[i+1]
      BY <2>0, <3>1, HeadTailProperties, EmptySeq
    <3>3. \A i, j \in 1..Len(events') :
            events'[i] = events'[j] /\ events'[i] \in Telling => i = j
      BY <2>2, <3>2 DEF QueueInv
    <3>4. \A i \in 1..Len(events') :
            /\ events'[i] \in Telling => events'[i] # Head(events)
            /\ events'[i] = "READY" => session = "ready" /\ ~running
            /\ events'[i] = "STOPPING" => session = "stopping"
      BY <2>2, <3>2 DEF QueueInv
    <3>5. /\ Head(events) = "READY" => session = "ready"
          /\ Head(events) = "STOPPING" => session = "stopping"
      BY <2>2, <3>2 DEF QueueInv
    <3>6. CASE Head(events) = "READY" /\ PollReady
      BY <2>2, <3>3, <3>4, <3>5, <3>6 DEF QueueInv, PollReady, Telling
    <3>7. CASE Head(events) = "STOPPING" /\ PollStopping
      BY <2>2, <3>3, <3>4, <3>5, <3>7 DEF QueueInv, PollStopping, Telling
    <3>8. CASE PollExit \/ PollInstanceLoss
      BY <2>2, <3>3, <3>4, <3>8 DEF QueueInv, PollExit, PollInstanceLoss
    <3>9. QED
      BY <2>8, <3>6, <3>7, <3>8 DEF PollEvent
  <2>9. CASE SubmitFrame
    BY <2>2, <2>9 DEF QueueInv, SubmitFrame
  <2>10. CASE UNCHANGED <<session, events, running, synced>>
    BY <2>2, <2>10 DEF QueueInv
  <2>11. QED
    BY <2>3, <2>4, <2>5, <2>6, <2>7, <2>8, <2>9, <2>10
       DEF Next, VideoThread, Runtime, NoFrame, WaitFrame, BeginFrame, LocateViews,
           FrameNotRendered, RenderXFB, DrawFetches, DrawCached, DrawFlat, CopyToXfb, ViSwap,
           LoadState, vars, runtimeVars
<1>3. QED
  BY <1>1, <1>2, TypesHold, PTL DEF Spec

(* Until the session is to be lost, what is told of it is one of the three *)
(* events of its life, and an end that was told of has come.               *)
LossInv ==
  loss = "none" =>
    /\ exit => session = "exiting"
    /\ \A i \in 1..Len(events) :
         /\ events[i] \in {"READY", "STOPPING", "EXITING"}
         /\ events[i] = "EXITING" => session = "exiting"

LEMMA LossKnown == Spec => []LossInv
<1>1. Init => LossInv
  <2>1. Len(<<>>) = 0
    BY EmptySeq
  <2>2. QED
    BY <2>1 DEF Init, LossInv
<1>2. Types /\ QueueInv /\ LossInv /\ [Next]_vars => LossInv'
  <2> SUFFICES ASSUME Types, QueueInv, LossInv, [Next]_vars, loss' = "none" PROVE LossInv'
    BY DEF LossInv
  <2>0. events \in Seq(EventNames) /\ Len(events) \in Nat
    BY LenProperties DEF Types, RuntimeTypes
  <2>1. ASSUME NEW e \in EventNames
        PROVE  LET more == Append(events, e)
               IN /\ events \o <<e>> = more /\ Len(more) = Len(events) + 1
                  /\ \A i \in 1..Len(more) :
                       more[i] = IF i = Len(events) + 1 THEN e ELSE events[i]
    BY <2>0, AppendProperties
  <2>2. loss = "none" /\ ~RuntimeLoses
    BY DEF Next, VideoThread, Runtime, RuntimeReady, RuntimeExits, RuntimeSyncs, RuntimeShows,
           RuntimeHides, RuntimeStops, RuntimeLoses, RuntimeMoves, PollEvent, NoFrame, WaitFrame,
           BeginFrame, LocateViews, FrameNotRendered, RenderXFB, SubmitFrame, DrawFetches,
           DrawCached, DrawFlat, CopyToXfb, ViSwap, LoadState, vars, runtimeVars
  <2>3. ASSUME NEW e \in {"READY", "STOPPING", "EXITING"}, events' = events \o <<e>>,
               exit' = exit, session # "exiting", e = "EXITING" => session' = "exiting"
        PROVE  LossInv'
    BY <2>0, <2>1, <2>2, <2>3 DEF LossInv, EventNames
  <2>4. CASE RuntimeReady \/ RuntimeExits \/ RuntimeStops
    BY <2>3, <2>4 DEF RuntimeReady, RuntimeExits, RuntimeStops, RuntimeMoves, inputVars
  <2>5. CASE RuntimeSyncs \/ RuntimeShows \/ RuntimeHides
    <3>1. session # "exiting" /\ exit' = exit /\ events' = events \o <<>>
      BY <2>5 DEF RuntimeSyncs, RuntimeShows, RuntimeHides, RuntimeMoves, inputVars
    <3>2. events' = events
      BY <2>0, <3>1, ConcatEmptySeq
    <3>3. QED
      BY <2>2, <3>1, <3>2 DEF LossInv
  <2>6. CASE PollEvent
    <3>1. events # <<>> /\ events' = Tail(events)
      BY <2>6 DEF PollEvent
    <3>2. /\ Len(events) \in Nat \ {0} /\ Len(events') = Len(events) - 1
          /\ Head(events) = events[1]
          /\ \A i \in 1..Len(events') : events'[i] = events[i+1]
      BY <2>0, <3>1, HeadTailProperties, EmptySeq
    <3>3. /\ Head(events) \in {"READY", "STOPPING", "EXITING"}
          /\ Head(events) = "EXITING" => session = "exiting"
          /\ \A i \in 1..Len(events') :
               /\ events'[i] \in {"READY", "STOPPING", "EXITING"}
               /\ events'[i] = "EXITING" => session = "exiting"
      BY <2>2, <3>2 DEF LossInv
    <3>4. CASE Head(events) = "READY" /\ PollReady
      BY <2>2, <3>3, <3>4 DEF LossInv, PollReady, inputVars
    <3>5. CASE Head(events) = "STOPPING" /\ PollStopping
      <4>1. session # "exiting" /\ ~exit /\ exit' = exit
        BY <2>2, <3>2, <3>5 DEF QueueInv, LossInv, PollStopping, inputVars
      <4>2. QED
        BY <3>3, <4>1 DEF LossInv
    <3>6. CASE Head(events) = "EXITING" /\ PollExit
      BY <3>3, <3>6 DEF LossInv, PollExit
    <3>7. QED
      BY <2>6, <3>3, <3>4, <3>5, <3>6 DEF PollEvent
  <2>7. CASE UNCHANGED <<session, events, exit>>
    BY <2>2, <2>7 DEF LossInv
  <2>8. QED
    BY <2>2, <2>4, <2>5, <2>6, <2>7
       DEF Next, VideoThread, Runtime, NoFrame, WaitFrame, BeginFrame, LocateViews,
           FrameNotRendered, RenderXFB, SubmitFrame, DrawFetches, DrawCached, DrawFlat, CopyToXfb,
           ViSwap, LoadState, vars, runtimeVars, inputVars
<1>3. QED
  BY <1>1, <1>2, QueueKnown, TypesHold, PTL DEF Spec

(* Once Present has been told to exit no frame is begun.                   *)
ExitInv ==
  exit => /\ ~begun /\ pc \notin {"begin", "locate"}
          /\ pc \in {"render", "submit"} => ~started

LEMMA ExitKnown == Spec => []ExitInv
<1>1. Init => ExitInv
  BY DEF Init, ExitInv
<1>2. FrameInv /\ ExitInv /\ [Next]_vars => ExitInv'
  <2> SUFFICES ASSUME FrameInv, ExitInv, [Next]_vars PROVE ExitInv'
    OBVIOUS
  <2>1. CASE PollEvent
    BY <2>1 DEF FrameInv, ExitInv, PollEvent, PollReady, PollStopping, PollExit, PollInstanceLoss,
                FrameDecided, inputVars, presentVars
  <2>2. CASE NoFrame \/ WaitFrame \/ BeginFrame
    BY <2>2 DEF FrameInv, ExitInv, NoFrame, WaitFrame, BeginFrame, FrameDecided, inputVars
  <2>3. CASE LocateViews \/ FrameNotRendered \/ RenderXFB \/ SubmitFrame
    BY <2>3 DEF ExitInv, LocateViews, FrameNotRendered, RenderXFB, SubmitFrame, inputVars
  <2>4. CASE CopyToXfb \/ ViSwap \/ LoadState
    BY <2>4 DEF ExitInv, CopyToXfb, ViSwap, LoadState, PresentBegins, inputVars, presentVars
  <2>5. CASE UNCHANGED <<exit, presentVars>>
    BY <2>5 DEF ExitInv, presentVars
  <2>6. QED
    BY <2>1, <2>2, <2>3, <2>4, <2>5
       DEF Next, VideoThread, Runtime, RuntimeReady, RuntimeExits, RuntimeSyncs, RuntimeShows,
           RuntimeHides, RuntimeStops, RuntimeLoses, RuntimeMoves, DrawFetches, DrawCached,
           DrawFlat, vars, inputVars
<1>3. QED
  BY <1>1, <1>2, FramesKnown, PTL DEF Spec

-----------------------------------------------------------------------------
(* The eye images.  D3D11 gives an image back within the blit.  Vulkan     *)
(* leaves it to SubmitFrame, which Present calls for a begun frame only;   *)
(* with a runtime that hides a session before it stops it, a frame is      *)
(* begun whenever one is to be rendered, until Present learns that the     *)
(* session is lost.                                                        *)

HidesFirst == \A s \in Setups : s.vulkan => s.hidesFirst
Gentle == \A s \in Setups : s.vulkan => s.hidesFirst /\ ~s.mayLose

\* The session is not lost, and Present was not told that it will be.
Dependable == loss = "none" \/ (loss = "pending" /\ ~exit)

\* A loss that is pending or known stays so.
LEMMA OnceDependable ==
  ASSUME [Next]_vars
  PROVE  setup' = setup /\ (Dependable' => Dependable)
<1>1. CASE RuntimeLoses
  BY <1>1 DEF RuntimeLoses, Dependable, inputVars
<1>2. CASE PollEvent
  <2>1. UNCHANGED <<setup, loss>> /\ (exit' = exit \/ exit' = TRUE)
    BY <1>2 DEF PollEvent, PollReady, PollStopping, PollExit, PollInstanceLoss, inputVars
  <2>2. QED
    BY <2>1 DEF Dependable
<1>3. CASE UNCHANGED <<setup, loss, exit>>
  BY <1>3 DEF Dependable
<1>4. QED
  BY <1>1, <1>2, <1>3
     DEF Next, VideoThread, Runtime, RuntimeReady, RuntimeExits, RuntimeSyncs, RuntimeShows,
         RuntimeHides, RuntimeStops, RuntimeMoves, NoFrame, WaitFrame, BeginFrame, LocateViews,
         FrameNotRendered, RenderXFB, SubmitFrame, DrawFetches, DrawCached, DrawFlat, CopyToXfb,
         ViSwap, LoadState, vars, runtimeVars, inputVars

\* What is to be rendered belongs to a session that can be seen and to a frame
\* that was begun.
RenderInv ==
  /\ setup \in Setups
  /\ setup.vulkan /\ Dependable =>
       /\ shouldRender => session \in {"synchronized", "visible"}
       /\ shouldRender /\ pc = "game" => begun
       /\ shouldRender /\ pc \in {"render", "submit"} => started

LEMMA RenderKnown == ASSUME HidesFirst PROVE Spec => []RenderInv
<1>1. Init => RenderInv
  BY DEF Init, RenderInv
<1>2. Types /\ QueueInv /\ LossInv /\ RenderInv /\ [Next]_vars => RenderInv'
  <2> SUFFICES ASSUME Types, QueueInv, LossInv, RenderInv, [Next]_vars PROVE RenderInv'
    OBVIOUS
  <2>0. setup' = setup /\ (Dependable' => Dependable)
    BY OnceDependable
  <2> SUFFICES ASSUME setup.vulkan, Dependable'
               PROVE  /\ shouldRender' => session' \in {"synchronized", "visible"}
                      /\ shouldRender' /\ pc' = "game" => begun'
                      /\ shouldRender' /\ pc' \in {"render", "submit"} => started'
    BY <2>0 DEF RenderInv
  <2>1. /\ loss # "lost" /\ setup.hidesFirst
        /\ shouldRender => session \in {"synchronized", "visible"}
        /\ shouldRender /\ pc = "game" => begun
        /\ shouldRender /\ pc \in {"render", "submit"} => started
    BY <2>0 DEF RenderInv, Dependable, HidesFirst
  <2>2. CASE Runtime
    BY <2>1, <2>2 DEF Runtime, RuntimeReady, RuntimeExits, RuntimeSyncs, RuntimeShows, RuntimeHides,
                      RuntimeStops, RuntimeLoses, RuntimeMoves, presentVars
  <2>3. CASE PollEvent
    <3>1. pc = "poll" /\ shouldRender' = shouldRender /\ loss' = loss /\ events # <<>>
      BY <2>3 DEF PollEvent
    <3>2. /\ Head(events) = events[1] /\ 1 \in 1..Len(events)
      <4>1. events \in Seq(EventNames)
        BY DEF Types, RuntimeTypes
      <4>2. Len(events) \in Nat \ {0} /\ Head(events) = events[1]
        BY <3>1, <4>1, HeadTailProperties, EmptySeq
      <4>3. QED
        BY <4>2
    <3>3. CASE Head(events) = "READY" /\ PollReady
      BY <2>1, <3>1, <3>3 DEF PollReady, presentVars
    <3>4. CASE Head(events) = "STOPPING" /\ PollStopping
      BY <2>1, <3>1, <3>2, <3>4 DEF QueueInv
    <3>5. CASE Head(events) \in {"EXITING", "LOSS_PENDING"} /\ PollExit
      <4>1. loss = "none"
        BY <3>1, <3>5 DEF Dependable, PollExit
      <4>2. QED
        BY <2>1, <3>1, <3>2, <3>5, <4>1 DEF LossInv
    <3>6. CASE Head(events) = "INSTANCE_LOSS_PENDING" /\ PollInstanceLoss
      <4>1. loss = "none"
        BY <3>1, <3>6 DEF Dependable, PollInstanceLoss
      <4>2. QED
        BY <3>2, <3>6, <4>1 DEF LossInv
    <3>7. QED
      BY <2>3, <3>3, <3>4, <3>5, <3>6 DEF PollEvent
  <2>4. CASE NoFrame
    <3>1. ~shouldRender
      BY <2>0, <2>1, <2>4 DEF NoFrame, QueueInv, LossInv, Dependable
    <3>2. QED
      BY <2>4, <3>1 DEF NoFrame
  <2>5. CASE WaitFrame
    BY <2>1, <2>5 DEF WaitFrame, runtimeVars
  <2>6. CASE BeginFrame
    BY <2>1, <2>6 DEF BeginFrame, runtimeVars
  <2>7. CASE LocateViews \/ FrameNotRendered
    BY <2>1, <2>7 DEF LocateViews, FrameNotRendered, FrameDecided, runtimeVars
  <2>8. CASE RenderXFB \/ SubmitFrame
    BY <2>1, <2>8 DEF RenderXFB, SubmitFrame, runtimeVars
  <2>9. CASE DrawFetches \/ DrawCached \/ DrawFlat
    BY <2>1, <2>9 DEF DrawFetches, DrawCached, DrawFlat, runtimeVars, presentVars
  <2>10. CASE CopyToXfb \/ ViSwap \/ LoadState
    BY <2>1, <2>10 DEF CopyToXfb, ViSwap, LoadState, PresentBegins, runtimeVars, presentVars
  <2>11. CASE UNCHANGED vars
    BY <2>1, <2>11 DEF vars, runtimeVars, presentVars
  <2>12. QED
    BY <2>2, <2>3, <2>4, <2>5, <2>6, <2>7, <2>8, <2>9, <2>10, <2>11 DEF Next, VideoThread
<1>3. QED
  BY <1>1, <1>2, TypesHold, QueueKnown, LossKnown, PTL DEF Spec

GivenBack(s) == s.held = <<>> /\ ~s.waited
OneHeld(s) == Len(s.held) = 1 /\ s.acquired

ImageInv ==
  (setup.vulkan => Dependable) =>
    \A e \in Eyes :
       \/ GivenBack(eye[e])
       \/ setup.vulkan /\ pc = "submit" /\ shouldRender /\ OneHeld(eye[e])

LEMMA AgedEyeGivenBack ==
  ASSUME NEW s \in Chains, NEW p, GivenBack(s)
  PROVE  GivenBack(AgedEye(s, p))
<1>1. s.held = <<>> /\ Len(s.held) = 0
  BY EmptySeq DEF GivenBack
<1> DEFINE held == [i \in 1..Len(s.held) |-> Aged(s.held[i], p)]
<1>2. held = <<>>
  <2>1. held \in [1..0 -> {}]
    BY <1>1
  <2>2. held \in Seq({}) /\ Len(held) = 0
    BY <2>1, SeqDef, LenProperties
  <2>3. QED
    BY <2>2, EmptySeq
<1>3. /\ AgedEye(s, p).held = held
      /\ AgedEye(s, p).waited = s.waited
  BY DEF AgedEye, Chains, Swapchain
<1>4. QED
  BY <1>2, <1>3 DEF GivenBack

LEMMA ReleasedGivenBack ==
  ASSUME NEW s \in Swapchain, Len(s.held) = 1
  PROVE  GivenBack(Released(s))
<1>1. s.held \in Seq(Pictures) /\ s.held # <<>>
  <2>1. Len(<<>>) = 0
    BY EmptySeq
  <2>2. s.held # <<>>
    BY <2>1
  <2>3. QED
    BY <2>2 DEF Swapchain
<1>2. Tail(s.held) \in Seq(Pictures) /\ Len(Tail(s.held)) = 0
  <2>1. Tail(s.held) \in Seq(Pictures) /\ Len(Tail(s.held)) = Len(s.held) - 1
    BY <1>1, HeadTailProperties
  <2>2. QED
    BY <2>1
<1>3. Tail(s.held) = <<>>
  BY <1>2, EmptySeq
<1>4. Released(s).held = Tail(s.held) /\ Released(s).waited = FALSE
  BY DEF Released, Swapchain
<1>5. QED
  BY <1>3, <1>4 DEF GivenBack

LEMMA EyeBlittedOnce ==
  ASSUME NEW s \in Chains, NEW picture \in Pictures, GivenBack(s)
  PROVE  GivenBack(EyeBlitted(s, picture)) \/ (setup.vulkan /\ OneHeld(EyeBlitted(s, picture)))
<1> DEFINE t == [s EXCEPT !.held = Append(s.held, picture), !.waited = TRUE, !.acquired = TRUE]
<1>1. s.held \in Seq(Pictures) /\ Len(s.held) = 0 /\ ~s.waited
  BY EmptySeq DEF GivenBack, Chains, Swapchain
<1>2. Append(s.held, picture) \in Seq(Pictures) /\ Len(Append(s.held, picture)) = 1
  BY <1>1, AppendProperties
<1>3. t \in Swapchain /\ Len(t.held) = 1 /\ t.acquired
  BY <1>2 DEF Chains, Swapchain
<1> HIDE DEF t
<1>4. GivenBack(Released(t)) /\ OneHeld(t)
  BY <1>3, ReleasedGivenBack DEF OneHeld
<1>5. EyeBlitted(s, picture) \in {s, EyeReleased(t)}
  BY <1>1 DEF EyeBlitted, t
<1>6. QED
  BY <1>4, <1>5 DEF EyeReleased

LEMMA ImagesKnown == ASSUME HidesFirst PROVE Spec => []ImageInv
<1>1. Init => ImageInv
  BY DEF Init, ImageInv, GivenBack
<1>2. Types /\ RenderInv /\ ImageInv /\ [Next]_vars => ImageInv'
  <2> SUFFICES ASSUME Types, RenderInv, ImageInv, [Next]_vars, setup'.vulkan => Dependable',
                      NEW e \in Eyes
               PROVE  \/ GivenBack(eye'[e])
                      \/ setup'.vulkan /\ pc' = "submit" /\ shouldRender' /\ OneHeld(eye'[e])
    BY DEF ImageInv, GivenBack, OneHeld
  <2>0. /\ setup' = setup /\ (setup.vulkan => Dependable)
        /\ eye \in [Eyes -> Chains] /\ eye[e] \in Chains /\ xfb \in Pictures
    BY OnceDependable DEF Types, PictureTypesOK
  <2>1. \/ GivenBack(eye[e])
        \/ setup.vulkan /\ pc = "submit" /\ shouldRender /\ OneHeld(eye[e])
    BY <2>0 DEF ImageInv
  <2>2. CASE Runtime
    <3>1. UNCHANGED <<eye, pc, shouldRender>>
      BY <2>2 DEF Runtime, RuntimeReady, RuntimeExits, RuntimeSyncs, RuntimeShows, RuntimeHides,
                  RuntimeStops, RuntimeLoses, RuntimeMoves, presentVars
    <3>2. QED
      BY <2>0, <2>1, <3>1
  <2>3. CASE PollEvent \/ NoFrame \/ WaitFrame \/ BeginFrame \/ LocateViews \/ FrameNotRendered
    <3>1. pc \in {"poll", "begin", "locate"} /\ eye' = eye
      BY <2>3 DEF PollEvent, NoFrame, WaitFrame, BeginFrame, LocateViews, FrameNotRendered
    <3>2. QED
      BY <2>1, <3>1
  <2>4. CASE RenderXFB
    <3>1. pc = "render" /\ pc' = "submit" /\ shouldRender' = shouldRender
      BY <2>4 DEF RenderXFB
    <3>2. GivenBack(eye[e])
      BY <2>1, <3>1
    <3>3. CASE eye' = eye
      BY <3>2, <3>3
    <3>4. CASE shouldRender /\ eye' = [d \in Eyes |-> EyeBlitted(eye[d], xfb)]
      <4>1. eye'[e] = EyeBlitted(eye[e], xfb)
        BY <3>4
      <4>2. QED
        BY <2>0, <3>1, <3>2, <3>4, <4>1, EyeBlittedOnce
    <3>5. QED
      BY <2>4, <3>3, <3>4 DEF RenderXFB
  <2>5. CASE SubmitFrame
    <3>1. pc = "submit" /\ eye'[e] = IF started THEN SubmitReleases(eye[e]) ELSE eye[e]
      BY <2>5 DEF SubmitFrame
    <3>2. CASE GivenBack(eye[e])
      <4>1. ~eye[e].acquired
        BY <2>0, <3>2 DEF GivenBack, Chains
      <4>2. eye'[e] = eye[e]
        BY <3>1, <4>1 DEF SubmitReleases
      <4>3. QED
        BY <3>2, <4>2
    <3>3. CASE setup.vulkan /\ shouldRender /\ OneHeld(eye[e])
      <4>1. started /\ loss # "lost"
        BY <2>0, <3>1, <3>3 DEF RenderInv, Dependable
      <4>2. eye'[e] = Released(eye[e])
        BY <3>1, <3>3, <4>1 DEF SubmitReleases, OneHeld
      <4>3. eye[e] \in Swapchain
        BY <2>0 DEF Chains
      <4>4. QED
        BY <3>3, <4>2, <4>3, ReleasedGivenBack DEF OneHeld
    <3>4. QED
      BY <2>1, <3>2, <3>3
  <2>6. CASE DrawFetches
    <3>1. pc = "game" /\ eye'[e] = AgedEye(eye[e], views)
      BY <2>6 DEF DrawFetches
    <3>2. QED
      BY <2>0, <2>1, <3>1, AgedEyeGivenBack
  <2>7. CASE DrawCached \/ DrawFlat \/ CopyToXfb \/ ViSwap \/ LoadState
    <3>1. pc = "game" /\ eye' = eye
      BY <2>7 DEF DrawCached, DrawFlat, CopyToXfb, ViSwap, LoadState
    <3>2. QED
      BY <2>1, <3>1
  <2>8. CASE UNCHANGED vars
    BY <2>0, <2>1, <2>8 DEF vars, presentVars
  <2>9. QED
    BY <2>2, <2>3, <2>4, <2>5, <2>6, <2>7, <2>8 DEF Next, VideoThread
<1>3. QED
  BY <1>1, <1>2, TypesHold, RenderKnown, PTL DEF Spec

\* With D3D11 always, and with Vulkan on a runtime that hides a session before
\* it stops it until Present learns of a loss, both eyes' images are given back
\* before Present returns to the game.
THEOREM ImagesGivenBackUntilLoss ==
  ASSUME HidesFirst
  PROVE  Spec => [](pc = "game" /\ (setup.vulkan => Dependable) => \A e \in Eyes : eye[e].held = <<>>)
<1>1. ImageInv => (pc = "game" /\ (setup.vulkan => Dependable) => \A e \in Eyes : eye[e].held = <<>>)
  BY DEF ImageInv, GivenBack
<1>2. QED
  BY <1>1, ImagesKnown, PTL

\* A session that is never lost.
LEMMA NeverLost == ASSUME Gentle PROVE Spec => [](setup.vulkan => loss = "none")
<1> DEFINE Kept == setup \in Setups /\ (setup.vulkan => loss = "none")
<1>1. Init => Kept
  BY DEF Init
<1>2. Kept /\ [Next]_vars => Kept'
  <2> SUFFICES ASSUME Kept, [Next]_vars PROVE Kept'
    OBVIOUS
  <2>1. CASE RuntimeLoses
    BY <2>1 DEF RuntimeLoses, Gentle
  <2>2. CASE UNCHANGED <<setup, loss>>
    BY <2>2
  <2>3. QED
    BY <2>1, <2>2
       DEF Next, VideoThread, Runtime, RuntimeReady, RuntimeExits, RuntimeSyncs, RuntimeShows,
           RuntimeHides, RuntimeStops, RuntimeMoves, PollEvent, NoFrame, WaitFrame, BeginFrame,
           LocateViews, FrameNotRendered, RenderXFB, SubmitFrame, DrawFetches, DrawCached,
           DrawFlat, CopyToXfb, ViSwap, LoadState, vars, runtimeVars
<1>3. Kept => (setup.vulkan => loss = "none")
  OBVIOUS
<1> HIDE DEF Kept
<1>4. QED
  BY <1>1, <1>2, <1>3, PTL DEF Spec

\* With D3D11 always, and with Vulkan on a gentle runtime, both eyes' images
\* are given back before Present returns to the game.
THEOREM ImagesGivenBack == ASSUME Gentle PROVE Spec => []NoImageLeftHeld
<1>1. HidesFirst
  BY DEF Gentle, HidesFirst
<1>2. (setup.vulkan => loss = "none") => (setup.vulkan => Dependable)
  BY DEF Dependable
<1>3. Spec => [](pc = "game" /\ (setup.vulkan => Dependable) => \A e \in Eyes : eye[e].held = <<>>)
  BY <1>1, ImagesGivenBackUntilLoss
<1>4. /\ (setup.vulkan => loss = "none")
      /\ (pc = "game" /\ (setup.vulkan => Dependable) => \A e \in Eyes : eye[e].held = <<>>)
      => NoImageLeftHeld
  BY <1>2 DEF NoImageLeftHeld
<1>5. QED
  BY <1>3, <1>4, NeverLost, PTL

-----------------------------------------------------------------------------
(* The order of the calls.                                                 *)

\* The calls of the frame loop come in the order the runtime expects: its
\* initial states are states before the first call, and each of its steps is
\* one call, the loss of the session, or none of them.
THEOREM CallsInOrder == Spec => Calls!Order
<1> USE DEF Calls!vars
<1>1. Init => Calls!Init
  BY DEF Init, Calls!Init
<1>2. FrameInv /\ CallInv /\ running \in BOOLEAN /\ [Next]_vars => [Calls!Next]_(Calls!vars)
  <2> SUFFICES ASSUME FrameInv, CallInv, running \in BOOLEAN, [Next]_vars PROVE [Calls!Next]_(Calls!vars)
    OBVIOUS
  <2>1. CASE RuntimeLoses
    <3>1. UNCHANGED <<running, xrFrame>>
      BY <2>1 DEF RuntimeLoses
    <3>2. CASE loss = "none" /\ loss' = "pending"
      BY <3>1, <3>2
    <3>3. CASE loss = "pending" /\ loss' = "lost"
      BY <3>1, <3>3 DEF Calls!Lose, Calls!Next
    <3>4. QED
      BY <2>1, <3>2, <3>3 DEF RuntimeLoses
  <2>2. CASE PollEvent
    <3>1. pc = "poll" /\ loss' = loss
      BY <2>2 DEF PollEvent
    <3>2. loss # "lost" => xrFrame = "none"
      BY <3>1 DEF FrameInv
    <3>3. CASE PollReady
      <4>1. UNCHANGED <<xrFrame, loss>>
        BY <3>1, <3>3 DEF PollReady
      <4>2. CASE running = TRUE \/ loss = "lost"
        <5>1. running' = running
          BY <3>3, <4>2, Zenon DEF PollReady
        <5>2. QED
          BY <4>1, <5>1
      <4>3. CASE running = FALSE /\ loss # "lost"
        <5>1. running' = TRUE
          BY <3>3, <4>3, Zenon DEF PollReady
        <5>2. QED
          BY <3>2, <4>1, <4>3, <5>1 DEF Calls!BeginSession, Calls!Next
      <4>4. QED
        BY <4>2, <4>3
    <3>4. CASE PollStopping
      <4>1. running' = FALSE /\ xrFrame' = "none"
        BY <3>4 DEF PollStopping
      <4>2. CASE running
        BY <3>1, <3>2, <4>1, <4>2 DEF Calls!EndSession, Calls!Next
      <4>3. CASE running = FALSE
        <5>1. xrFrame = "none"
          BY <4>3, Zenon DEF CallInv
        <5>2. QED
          BY <3>1, <4>1, <4>3, <5>1
      <4>4. QED
        BY <4>2, <4>3
    <3>5. CASE PollExit \/ PollInstanceLoss
      BY <3>1, <3>5 DEF PollExit, PollInstanceLoss
    <3>6. QED
      BY <2>2, <3>3, <3>4, <3>5 DEF PollEvent
  <2>3. CASE WaitFrame
    BY <2>3 DEF FrameInv, WaitFrame, runtimeVars, Calls!WaitFrame, Calls!Goes, Calls!Next
  <2>4. CASE BeginFrame
    BY <2>4 DEF FrameInv, CallInv, BeginFrame, runtimeVars, Calls!BeginFrame, Calls!Goes, Calls!Next
  <2>5. CASE SubmitFrame
    BY <2>5 DEF FrameInv, SubmitFrame, Calls!EndFrame, Calls!Goes, Calls!Next
  <2>6. CASE UNCHANGED CallVars
    BY <2>6 DEF CallVars
  <2>7. ASSUME [Next]_vars
        PROVE  RuntimeLoses \/ PollEvent \/ WaitFrame \/ BeginFrame \/ SubmitFrame \/ UNCHANGED CallVars
    BY <2>7 DEF Next, VideoThread, Runtime, RuntimeReady, RuntimeExits, RuntimeSyncs, RuntimeShows,
                RuntimeHides, RuntimeStops, RuntimeMoves, NoFrame, LocateViews, FrameNotRendered,
                RenderXFB, DrawFetches, DrawCached, DrawFlat, CopyToXfb, ViSwap, LoadState, vars,
                runtimeVars, CallVars
  <2>8. QED
    BY <2>1, <2>2, <2>3, <2>4, <2>5, <2>6, <2>7
<1>3. Types => running \in BOOLEAN
  BY DEF Types, SessionTypes
<1>4. QED
  BY <1>1, <1>2, <1>3, FramesKnown, CallsKnown, TypesHold, PTL DEF Spec, Calls!Order

-----------------------------------------------------------------------------
(* The picture and its pose.                                               *)

LEMMA PicturesApart ==
  /\ Other # Blank /\ Flat # Blank /\ Flat # Other
  /\ \A p : Drawn(p) # Blank /\ Drawn(p) # Flat
BY DEF Other, Blank, Flat, Drawn

(* Pictures that are presented at once.  While the game draws, the EFB     *)
(* holds nothing, or a scene of the one pose the frame has; the picture    *)
(* Present took is such a scene as well, or one drawn before the session   *)
(* ran, which no frame shows: a session that has just begun is not visible *)
(* before a frame of it was ended.                                         *)
FlatAllowed ==
  \/ loss = "lost"
  \/ pc = "poll" /\ (~running \/ ~synced)
  \/ pc \in {"begin", "locate"} /\ ~shouldRender
  \/ pc \in {"render", "submit"} /\ (~started \/ ~shouldRender)
EfbInv ==
  pc = "game" => \/ efb = Blank
                 \/ running /\ efb = Drawn(submitted) /\ submitted = views
                 \/ ~running /\ efb = Flat
XfbInv ==
  /\ pc \in {"render", "submit"} => part = "start"
  /\ pc # "game" /\ part = "start" =>
       \/ xfb \in {Blank, Other, Drawn(submitted)}
       \/ xfb = Flat /\ FlatAllowed
PictureInv == ImmediateXFB => EfbInv /\ XfbInv

LEMMA PicturesKnown == Spec => []PictureInv
<1>1. Init => PictureInv
  BY DEF Init, PictureInv, EfbInv, XfbInv
<1>2. Types /\ FrameInv /\ QueueInv /\ PictureInv /\ [Next]_vars => PictureInv'
  <2> SUFFICES ASSUME Types, FrameInv, QueueInv, PictureInv, [Next]_vars, ImmediateXFB'
               PROVE  EfbInv' /\ XfbInv'
    BY DEF PictureInv
  <2>0. /\ EfbInv /\ XfbInv /\ ImmediateXFB
        /\ loss \in {"none", "pending", "lost"} /\ part \in {"start", "next"}
        /\ pc \in {"game", "poll", "begin", "locate", "render", "submit"}
        /\ running \in BOOLEAN /\ synced \in BOOLEAN
    <3>1. setup' = setup
      BY DEF Next, VideoThread, Runtime, RuntimeReady, RuntimeExits, RuntimeSyncs, RuntimeShows,
             RuntimeHides, RuntimeStops, RuntimeLoses, RuntimeMoves, PollEvent, NoFrame,
             WaitFrame, BeginFrame, LocateViews, FrameNotRendered, RenderXFB, SubmitFrame,
             DrawFetches, DrawCached, DrawFlat, CopyToXfb, ViSwap, LoadState, vars
    <3>2. QED
      BY <3>1 DEF PictureInv, ImmediateXFB, Types, RuntimeTypes, SessionTypes, PresentTypes
  <2>1. CASE Runtime
    <3>1. /\ UNCHANGED <<synced, running, shouldRender, views, submitted, efb, xfb>>
          /\ UNCHANGED <<started, part, pc>> /\ (loss = "lost" => loss' = "lost")
      BY <2>1 DEF Runtime, RuntimeReady, RuntimeExits, RuntimeSyncs, RuntimeShows, RuntimeHides,
                  RuntimeStops, RuntimeLoses, RuntimeMoves, viewVars, poseVars, pictureVars,
                  presentVars
    <3>2. QED
      BY <2>0, <3>1 DEF EfbInv, XfbInv, FlatAllowed, Drawn
  <2>2. CASE PollEvent
    <3>1. pc = "poll" /\ UNCHANGED <<loss, submitted, views, shouldRender>>
      BY <2>2 DEF PollEvent, viewVars, poseVars
    <3>2. CASE PollReady
      <4>1. UNCHANGED <<part, pc, xfb>> /\ (loss # "lost" => synced' = FALSE)
        BY <3>2, Zenon DEF PollReady, presentVars, pictureVars
      <4>2. QED
        BY <2>0, <3>1, <4>1 DEF EfbInv, XfbInv, FlatAllowed, Drawn
    <3>3. CASE PollStopping \/ PollExit
      <4>1. UNCHANGED <<part, pc, xfb, synced>> /\ (running' = FALSE \/ running' = running)
        BY <3>3 DEF PollStopping, PollExit, presentVars, pictureVars
      <4>2. QED
        BY <2>0, <3>1, <4>1 DEF EfbInv, XfbInv, FlatAllowed, Drawn
    <3>4. CASE PollInstanceLoss
      BY <2>0, <3>1, <3>4
         DEF EfbInv, XfbInv, FlatAllowed, PollInstanceLoss, FrameDecided, pictureVars, Drawn
    <3>5. QED
      BY <2>2, <3>2, <3>3, <3>4 DEF PollEvent
  <2>3. CASE NoFrame
    BY <2>0, <2>3 DEF EfbInv, XfbInv, FlatAllowed, NoFrame, FrameDecided, pictureVars, poseVars, Drawn
  <2>4. CASE WaitFrame
    <3>1. /\ pc = "poll" /\ running /\ UNCHANGED <<loss, submitted, session>>
          /\ shouldRender' = (loss # "lost" /\ session = "visible")
      BY <2>4 DEF WaitFrame, runtimeVars, poseVars
    <3>2. loss # "lost" /\ session = "visible" => synced
      BY DEF QueueInv
    <3>3. CASE FrameDecided(FALSE)
      BY <2>0, <3>1, <3>3 DEF EfbInv, XfbInv, FlatAllowed, FrameDecided, pictureVars, Drawn
    <3>4. CASE pc' = "begin" /\ UNCHANGED <<begun, started, part, pictureVars>>
      BY <2>0, <3>1, <3>2, <3>4 DEF EfbInv, XfbInv, FlatAllowed, pictureVars, Drawn
    <3>5. QED
      BY <2>4, <3>3, <3>4 DEF WaitFrame
  <2>5. CASE BeginFrame
    BY <2>0, <2>5 DEF EfbInv, XfbInv, FlatAllowed, BeginFrame, FrameDecided, pictureVars, poseVars,
                      runtimeVars, Drawn
  <2>6. CASE LocateViews \/ FrameNotRendered
    BY <2>0, <2>6 DEF EfbInv, XfbInv, FlatAllowed, LocateViews, FrameNotRendered, FrameDecided,
                      pictureVars, poseVars, runtimeVars, Drawn
  <2>7. CASE RenderXFB
    BY <2>0, <2>7 DEF EfbInv, XfbInv, FlatAllowed, RenderXFB, pictureVars, poseVars, runtimeVars,
                      Drawn
  <2>8. CASE SubmitFrame
    BY <2>0, <2>8 DEF EfbInv, XfbInv, SubmitFrame
  <2>9. CASE DrawFetches
    <3>1. /\ pc = "game" /\ running /\ UNCHANGED <<running, views, pc>> /\ submitted' = views
          /\ efb' = Over(Aged(efb, views), Drawn(views))
      BY <2>9 DEF DrawFetches, viewVars, presentVars
    <3>2. Aged(efb, views) \in {Blank, Drawn(views)}
      BY <2>0, <3>1, PicturesApart DEF EfbInv, Aged
    <3>3. efb' = Drawn(views)
      BY <3>1, <3>2 DEF Over
    <3>4. QED
      BY <3>1, <3>3 DEF EfbInv, XfbInv, Drawn
  <2>10. CASE DrawCached
    BY <2>0, <2>10 DEF DrawCached, ImmediateXFB
  <2>11. CASE DrawFlat
    <3>1. /\ pc = "game" /\ ~running /\ UNCHANGED <<running, pc>> /\ efb' = Over(efb, Flat)
      BY <2>11 DEF DrawFlat, presentVars
    <3>2. efb' = Flat
      BY <2>0, <3>1 DEF EfbInv, Over
    <3>3. QED
      BY <3>1, <3>2 DEF EfbInv, XfbInv
  <2>12. CASE CopyToXfb
    <3>1. /\ pc = "game" /\ xfb' = efb /\ efb' \in {efb, Blank}
          /\ UNCHANGED <<running, shouldRender, views, submitted>>
          /\ PresentBegins \/ UNCHANGED presentVars
      BY <2>0, <2>12 DEF CopyToXfb, viewVars, poseVars
    <3>2. begun => running
      BY DEF FrameInv
    <3>3. QED
      BY <2>0, <3>1, <3>2 DEF EfbInv, XfbInv, FlatAllowed, PresentBegins, presentVars, Drawn
  <2>13. CASE ViSwap
    BY <2>0, <2>13 DEF ViSwap
  <2>14. CASE LoadState
    BY <2>14 DEF EfbInv, XfbInv, LoadState, PresentBegins
  <2>15. CASE UNCHANGED vars
    BY <2>0, <2>15 DEF EfbInv, XfbInv, FlatAllowed, vars, runtimeVars, viewVars, poseVars,
                       pictureVars, presentVars, Drawn
  <2>16. QED
    BY <2>1, <2>2, <2>3, <2>4, <2>5, <2>6, <2>7, <2>8, <2>9, <2>10, <2>11, <2>12, <2>13, <2>14, <2>15
       DEF Next, VideoThread
<1>3. QED
  BY <1>1, <1>2, TypesHold, FramesKnown, QueueKnown, PTL DEF Spec

LEMMA EyeBlittedShows ==
  ASSUME NEW s \in Chains, NEW picture \in Pictures, GivenBack(s), loss # "lost"
  PROVE  LET t == EyeBlitted(s, picture)
         IN IF setup.vulkan THEN t.acquired /\ Head(t.held) = picture ELSE t.shown = picture
<1> DEFINE t == [s EXCEPT !.held = Append(s.held, picture), !.waited = TRUE, !.acquired = TRUE]
<1>1. s.held = <<>> /\ Len(s.held) = 0 /\ ~s.waited
  BY EmptySeq DEF GivenBack
<1>2. Append(s.held, picture) = <<picture>> /\ Head(<<picture>>) = picture
  BY <1>1
<1>3. t \in Swapchain /\ t.held = <<picture>> /\ t.acquired
  <2>1. <<picture>> \in Seq(Pictures)
    OBVIOUS
  <2>2. QED
    BY <1>2, <2>1 DEF Chains, Swapchain
<1> HIDE DEF t
<1>4. Released(t).shown = Head(t.held)
  BY <1>3 DEF Released, Swapchain
<1>5. EyeBlitted(s, picture) = EyeReleased(t)
  BY <1>1, XrFrameAssumption DEF EyeBlitted, t
<1>6. QED
  BY <1>2, <1>3, <1>4, <1>5 DEF EyeReleased

\* What the blit of a frame that is shown left in both eyes: with D3D11 the
\* picture itself, with Vulkan an image of it that SubmitFrame is to release.
ShownInv ==
  pc = "submit" /\ started /\ shouldRender /\ loss # "lost" /\ ~setup.mirrorFails =>
    \A e \in Eyes : IF setup.vulkan THEN eye[e].acquired /\ Head(eye[e].held) = xfb
                                    ELSE eye[e].shown = xfb

LEMMA ShownKnown == ASSUME HidesFirst PROVE Spec => []ShownInv
<1>1. Init => ShownInv
  BY DEF Init, ShownInv
<1>2. Types /\ ExitInv /\ ImageInv /\ ShownInv /\ [Next]_vars => ShownInv'
  <2> SUFFICES ASSUME Types, ExitInv, ImageInv, ShownInv, [Next]_vars,
                      pc' = "submit", started', shouldRender', loss' # "lost", ~setup'.mirrorFails
               PROVE  \A e \in Eyes :
                        IF setup'.vulkan THEN eye'[e].acquired /\ Head(eye'[e].held) = xfb'
                                         ELSE eye'[e].shown = xfb'
    BY DEF ShownInv
  <2>1. CASE RenderXFB
    <3>1. /\ pc = "render" /\ UNCHANGED <<setup, loss, shouldRender, xfb>>
          /\ eye' = [e \in Eyes |-> EyeBlitted(eye[e], xfb)]
      BY <2>1 DEF RenderXFB, runtimeVars, pictureVars
    <3>2. Dependable
      <4>1. started /\ loss \in {"none", "pending", "lost"}
        BY <2>1 DEF RenderXFB, Types, RuntimeTypes
      <4>2. QED
        BY <3>1, <4>1 DEF ExitInv, Dependable
    <3>3. ASSUME NEW e \in Eyes
          PROVE  /\ eye[e] \in Chains /\ GivenBack(eye[e]) /\ xfb \in Pictures
                 /\ eye'[e] = EyeBlitted(eye[e], xfb)
      BY <3>1, <3>2 DEF Types, PictureTypesOK, ImageInv
    <3>4. QED
      BY <3>1, <3>3, EyeBlittedShows
  <2>2. CASE Runtime
    <3>1. /\ UNCHANGED <<setup, eye, xfb, pc, started, shouldRender>>
          /\ loss # "lost"
      BY <2>2 DEF Runtime, RuntimeReady, RuntimeExits, RuntimeSyncs, RuntimeShows, RuntimeHides,
                  RuntimeStops, RuntimeLoses, RuntimeMoves, presentVars, pictureVars
    <3>2. QED
      BY <3>1 DEF ShownInv
  <2>3. CASE UNCHANGED vars
    BY <2>3 DEF ShownInv, vars, runtimeVars, pictureVars, presentVars
  <2>4. ~Runtime /\ ~UNCHANGED vars => RenderXFB
    BY DEF Next, VideoThread, PollEvent, PollReady, PollStopping, PollExit, PollInstanceLoss,
           NoFrame, WaitFrame, BeginFrame, LocateViews, FrameNotRendered, FrameDecided, SubmitFrame,
           DrawFetches, DrawCached, DrawFlat, CopyToXfb, ViSwap, LoadState, PresentBegins,
           presentVars
  <2>5. QED
    BY <2>1, <2>2, <2>3, <2>4
<1>3. QED
  BY <1>1, <1>2, ExitKnown, ImagesKnown, TypesHold, PTL DEF Spec

\* With D3D11, and with Vulkan on a runtime that hides a session before it
\* stops it: with the pictures presented at once and a desktop window, a
\* layer that goes out shows in both eyes the picture drawn with exactly the
\* pose it is submitted with, or none, or that of a loaded state: never one
\* of an earlier pose, of two poses, or drawn before the session ran.
THEOREM PictureHasItsPose == ASSUME HidesFirst PROVE Spec => ImmediatePictureHasItsPose
<1> DEFINE Sent == LayerGoesOut /\ pc' # pc /\ ImmediateXFB /\ ~setup.mirrorFails
           Shows == \A e \in Eyes : eye'[e].shown \in {Drawn(submitted), Blank, Other}
<1>1. Types /\ PictureInv /\ ShownInv /\ [Next]_vars => [Sent => Shows]_vars
  <2> SUFFICES ASSUME Types, PictureInv, ShownInv, [Next]_vars, Sent PROVE Shows
    OBVIOUS
  <2>1. SubmitFrame
    BY DEF LayerGoesOut, Next, VideoThread, Runtime, RuntimeReady, RuntimeExits, RuntimeSyncs,
           RuntimeShows, RuntimeHides, RuntimeStops, RuntimeLoses, RuntimeMoves, PollEvent, NoFrame,
           WaitFrame, BeginFrame, LocateViews, FrameNotRendered, RenderXFB, DrawFetches, DrawCached,
           DrawFlat, CopyToXfb, ViSwap, LoadState, vars, presentVars
  <2>2. eye' = [e \in Eyes |-> SubmitReleases(eye[e])] /\ loss # "lost"
    BY <2>1 DEF SubmitFrame, LayerGoesOut
  <2>3. xfb \in {Drawn(submitted), Blank, Other}
    BY DEF LayerGoesOut, PictureInv, XfbInv, FlatAllowed
  <2>4. ASSUME NEW e \in Eyes PROVE eye'[e].shown = xfb
    <3>1. eye[e] \in Swapchain /\ eye'[e] = SubmitReleases(eye[e])
      BY <2>2 DEF Types, Chains
    <3>2. IF setup.vulkan THEN eye[e].acquired /\ Head(eye[e].held) = xfb
                          ELSE eye[e].shown = xfb
      BY DEF ShownInv, LayerGoesOut
    <3>3. Released(eye[e]).shown = Head(eye[e].held)
      BY <3>1 DEF Released, Swapchain
    <3>4. QED
      BY <2>2, <3>1, <3>2, <3>3 DEF SubmitReleases
  <2>5. QED
    BY <2>3, <2>4
<1>2. QED
  BY <1>1, ShownKnown, PicturesKnown, TypesHold, PTL DEF Spec, ImmediatePictureHasItsPose
=============================================================================
